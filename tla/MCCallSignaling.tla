---------------------------- MODULE MCCallSignaling ----------------------------
EXTENDS CallSignaling, TLC
PeerSymmetry == Permutations(Peer)
=============================================================================
