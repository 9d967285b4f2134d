------------------------------ MODULE MCConnStream ------------------------------
EXTENDS ConnStream, TLC
=============================================================================
