SPECIFICATION LoaderSpec
CONSTANTS
  Mod = 64
  GuestPage = 4
  HostPage = 8
  TaskSize = 56
  HostOwned <- HostOwnedDef
  HostChurn <- WideChurnDef
  Files <- WideFilesDef
  Options <- WideOptionsDef
  MaxLoads = 1
  GuardGap = 4
  WordSize = 2
  DynSize = 2
  RelaSize = 2
  StackAlign = 4
  RandomBytes = 4
  Strings <- StringsDef
  Slots = 3
INVARIANTS
  GuestWritesReachHost
CHECK_DEADLOCK FALSE
