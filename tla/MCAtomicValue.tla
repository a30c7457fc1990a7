--------------------------- MODULE MCAtomicValue ----------------------------
EXTENDS AtomicValue
=============================================================================
