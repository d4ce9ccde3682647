SPECIFICATION Spec
CONSTANTS
  Half = 2
  Regs = {rax, rbx}
INVARIANTS
  SignedLessThan
