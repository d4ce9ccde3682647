SPECIFICATION Spec
CONSTANTS
  Half = 2
  Regs = {rax, rbx}
SYMMETRY Symmetry
VIEW View
INVARIANTS
  TypeOK
  ResultJumpsExact
  UnsignedJumpsExact
  SignedJumpsExact
