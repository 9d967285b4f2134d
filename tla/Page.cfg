SPECIFICATION FairSpec
CONSTANTS
  Peer = {p, q}
  None = None
  Self = p
  MaxMissing = 3
  Latency = 1
  MaxPending = 2
  MaxLoops = 2
CHECK_DEADLOCK FALSE
INVARIANTS TypeOK NoFalseVerdict LostIsLost Audible SilentWhenOver
PROPERTIES LossNoticed SilenceNoticed RingsDieOut
