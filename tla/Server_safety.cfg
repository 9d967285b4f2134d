SPECIFICATION Spec
CONSTANTS
  MaxId = 4
  Names = {alice, bob}
  NoName = NoName
  IdMod = 16
SYMMETRY NameSymmetry
CHECK_DEADLOCK FALSE
INVARIANTS TypeOK SessionOwnership NoFreedSession RosterExact RosterRoutes
PROPERTIES FreshIds NameOwnership ImplementsRegistry
