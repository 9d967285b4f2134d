SPECIFICATION Spec
CONSTANTS
  Peer = {p, q}
  None = None
  Callers = {p}
  Reselects = FALSE
  Churns = FALSE
  Hiding = FALSE
  InboxBound = 4
  MaxCalls = 6

CHECK_DEADLOCK FALSE
INVARIANTS CallerNotAlone
