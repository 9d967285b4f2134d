------------------------------- MODULE MCConnList -------------------------------
EXTENDS ConnList, TLC
=============================================================================
