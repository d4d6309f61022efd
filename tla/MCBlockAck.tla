----------------------------- MODULE MCBlockAck -----------------------------
EXTENDS BlockAck
=============================================================================
