SPECIFICATION Spec
CONSTANTS
  Mod = 16
  GuestPage = 2
  HostPage = 2
  TaskSize = 14
  Images <- ImagesDef
  Ranges <- RangesDef
  Accesses <- AccessesDef
  Prots <- ProtsDef
  HostOwned <- HostOwnedDef
  HostChurn <- HostChurnDef
  MaxRegions = 2
INVARIANTS
  TypeOK
  WindowHeld
  RegionsBacked
  BiasedInsideWindow
  MappedIsSound
  DataInGuest
PROPERTIES
  ForeignKept
  ImplementsAddressSpace
CHECK_DEADLOCK FALSE
