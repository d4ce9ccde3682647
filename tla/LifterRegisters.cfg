CONSTANTS
  ByteBits = 1
  MaxInstrs = 2
  Instrs <- RegisterMoves
  Machines <- SomeMachines
SPECIFICATION Spec
INVARIANT RegistersWritten
CHECK_DEADLOCK FALSE
