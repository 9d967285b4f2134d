SPECIFICATION TimedSpec
CONSTANTS
  MaxId = 3
  Names = {alice}
  NoName = NoName
  IdMod = 16
  Period = 1
  Skips = 3
  Busy = 1
CHECK_DEADLOCK FALSE

PROPERTIES VanishedWasPinged
