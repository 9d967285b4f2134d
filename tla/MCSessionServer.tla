---------------------------- MODULE MCSessionServer ----------------------------
EXTENDS SessionServer, TLC
NameSymmetry == Permutations(Names)
=============================================================================
