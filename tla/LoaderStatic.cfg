SPECIFICATION LoaderSpec
CONSTANTS
  Mod = 64
  GuestPage = 4
  HostPage = 4
  TaskSize = 60
  HostOwned <- HostOwnedDef
  HostChurn <- HostChurnDef
  Files <- StaticFilesDef
  Options <- StaticOptionsDef
  MaxLoads = 1
  GuardGap = 4
  WordSize = 2
  DynSize = 2
  RelaSize = 2
  StackAlign = 4
  RandomBytes = 4
  Strings <- StringsDef
  Slots = 3
PROPERTIES
  StaticLoads
CHECK_DEADLOCK FALSE
