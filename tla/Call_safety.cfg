SPECIFICATION Spec
CONSTANTS
  Peer = {p, q, r}
  None = None
  Callers = {p, q, r}
  Reselects = TRUE
  Churns = TRUE
  Hiding = FALSE
  InboxBound = 1
  MaxCalls = 2
SYMMETRY PeerSymmetry
CHECK_DEADLOCK FALSE
INVARIANTS TypeOK IdleIsClean ButtonsFit CallerWatchesCallee
