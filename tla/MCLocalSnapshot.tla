-------------------------- MODULE MCLocalSnapshot ---------------------------
EXTENDS LocalSnapshot
=============================================================================
