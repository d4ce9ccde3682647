CONSTANTS
  ByteBits = 1
  MaxInstrs = 2
  Instrs <- AllInstrs
  Machines <- SomeMachines
SPECIFICATION Spec
INVARIANTS TypeOK TempsDefined TerminatorLast StoresExact PushesExact RecordExact
CHECK_DEADLOCK FALSE
