SPECIFICATION TimedFairSpec
CONSTANTS
  MaxId = 3
  Names = {}
  NoName = NoName
  IdMod = 16
  Period = 1
  Skips = 1
  Busy = 1
CHECK_DEADLOCK FALSE
PROPERTIES SilentReaped ClosingCloses
