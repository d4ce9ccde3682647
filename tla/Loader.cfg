SPECIFICATION LoaderSpec
CONSTANTS
  Mod = 128
  GuestPage = 4
  HostPage = 4
  TaskSize = 60
  HostOwned <- HostOwnedDef
  HostChurn <- HostChurnDef
  Files <- FilesDef
  Options <- OptionsDef
  MaxLoads = 2
  GuardGap = 4
  WordSize = 2
  DynSize = 2
  RelaSize = 2
  StackAlign = 4
  RandomBytes = 4
  Strings <- StringsDef
  Slots = 3
INVARIANTS
  LoaderTypeOK
  LoadableNeverFaults
  ImageIntact
  StackWellFormed
  PermissionsAsLinked
  LeaksOnlyStacks
CHECK_DEADLOCK FALSE
