------------------------------ MODULE MCPageClient ------------------------------
EXTENDS PageClient, TLC
=============================================================================
