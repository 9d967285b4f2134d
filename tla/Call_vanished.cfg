SPECIFICATION Spec
CONSTANTS
  Peer = {p, q}
  None = None
  Callers = {p, q}
  Reselects = FALSE
  Churns = TRUE
  Hiding = FALSE
  InboxBound = 2
  MaxCalls = 2

CHECK_DEADLOCK FALSE
PROPERTIES VanishedHasLeft
