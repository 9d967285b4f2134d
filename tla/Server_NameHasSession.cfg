SPECIFICATION Spec
CONSTANTS
  MaxId = 4
  Names = {alice, bob}
  NoName = NoName
  IdMod = 16
CHECK_DEADLOCK FALSE
INVARIANTS NameHasSession
