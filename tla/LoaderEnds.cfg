SPECIFICATION LoaderSpec
CONSTANTS
  Mod = 64
  GuestPage = 4
  HostPage = 4
  TaskSize = 60
  HostOwned <- HostOwnedDef
  HostChurn <- EndsChurnDef
  Files <- EndsFilesDef
  Options <- EndsOptionsDef
  MaxLoads = 1
  GuardGap = 4
  WordSize = 2
  DynSize = 2
  RelaSize = 2
  StackAlign = 4
  RandomBytes = 4
  Strings <- StringsDef
  Slots = 3
PROPERTIES
  LoadEnds
CHECK_DEADLOCK FALSE
