------------------------- MODULE MCEthercatMailbox --------------------------
EXTENDS EthercatMailbox
=============================================================================
