SPECIFICATION Spec
CONSTANTS
  Mod = 24
  GuestPage = 2
  HostPage = 4
  TaskSize = 20
  Images <- WideImagesDef
  Ranges <- WideRangesDef
  Accesses <- WideAccessesDef
  Prots <- ProtsDef
  HostOwned <- WideHostOwnedDef
  HostChurn <- WideHostChurnDef
  MaxRegions = 2
INVARIANTS
  WindowHeld
  BiasedInsideWindow
PROPERTIES
  ForeignKept
CHECK_DEADLOCK FALSE
