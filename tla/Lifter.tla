------------------------------- MODULE Lifter -------------------------------
(***************************************************************************)
(* FunctionLifter::liftInstr (X86Lifter.cpp): the IR each x86 instruction   *)
(* becomes.  liftBlock's loop over a block's instructions has no body at    *)
(* this commit; here its caller passes liftInstr any instructions, to one   *)
(* block after the other.                                                   *)
(*                                                                         *)
(* readReg and writeReg take the block by value, so what they push goes to  *)
(* a copy ("copy"); everything else goes to the block ("block").              *)
(*                                                                         *)
(* An instruction is [mn, ops]; Jcc and JMP have to, the labels found for   *)
(* their targets (CFGBuilder), CALL has symbol, the name registered at its  *)
(* target or "".  An operand is                                             *)
(*   [kind |-> "reg", reg |-> [name, part]]   part: q, d, w, l or h         *)
(*   [kind |-> "imm", value, ty]                                           *)
(*   [kind |-> "mem", base, index, scale, disp, ty]   registers or NoReg    *)
(* Its ty is its encoded size.                                              *)
(***************************************************************************)
EXTENDS IR

CONSTANTS
  Instrs,     \* the instructions that may come
  MaxInstrs   \* bound on the instructions lifted

ASSUME LifterAssumption == MaxInstrs \in Nat

VARIABLES
  fn,         \* m_fn and the block being lifted
  flags,      \* m_flagState
  last,       \* the instruction lifted last, the function before it
  lifted      \* instructions lifted so far

vars == <<fn, flags, last, lifted>>

(***************************************************************************)
(* Registers.                                                              *)
(***************************************************************************)

NoReg == [name |-> "NONE", part |-> "q"]
RAX == [name |-> "RAX", part |-> "q"]
RDX == [name |-> "RDX", part |-> "q"]
RIP == [name |-> "RIP", part |-> "q"]

canonicalReg(reg) == reg.name

typeOfReg(reg) ==
  CASE reg.part \in {"l", "h"} -> "i8"
    [] reg.part = "w" -> "i16"
    [] reg.part = "d" -> "i32"
    [] OTHER -> "i64"

Gprs ==
  <<"RAX", "RBX", "RCX", "RDX", "RSI", "RDI", "RSP", "RBP",
    "R8", "R9", "R10", "R11", "R12", "R13", "R14", "R15">>

\* No id: vector and segment registers are not tracked.
gprVRegIds(reg) == {id \in 0 .. 15 : Gprs[id + 1] = canonicalReg(reg)}
gprVReg(reg) == VReg(CHOOSE id \in gprVRegIds(reg) : TRUE, "i64")

\* A narrow register is truncated into a temporary, on a copy of the block.
readReg(c, reg) ==
  IF gprVRegIds(reg) = {} THEN [c |-> c, v |-> Imm(0, "i64")]
  ELSE IF typeOfReg(reg) = "i64" THEN [c |-> c, v |-> gprVReg(reg)]
  ELSE Into(c, "copy", "TRUNC", typeOfReg(reg), <<gprVReg(reg)>>)

\* The bits a write of that type keeps, as a signed constant.
KeepMask(ty) == Imm(-Pow2[Width(ty)], "i64")

\* Mutant of writeReg: a 32-bit write keeps the upper half.
writeRegMut(c, reg, val) ==
  LET ty == typeOfReg(reg)
      masked == Into(c, "copy", "AND", "i64", <<gprVReg(reg), KeepMask(ty)>>)
      wide == Into(masked.c, "copy", "ZEXT", "i64", <<val>>)
  IN  IF gprVRegIds(reg) = {} THEN c
      ELSE pushInst(wide.c, "copy", Inst("OR", {gprVReg(reg).id}, "i64", <<masked.v, wide.v>>))

\* 64 bits are moved, 32 bits zero-extended, fewer merged into the register.
writeReg(c, reg, val) ==
  LET ty == typeOfReg(reg)
      To(f, opcode, operands) ==
        pushInst(f, "copy", Inst(opcode, {gprVReg(reg).id}, "i64", operands))
      zext == Into(c, "copy", "ZEXT", "i64", <<val>>)
      masked == Into(c, "copy", "AND", "i64", <<gprVReg(reg), KeepMask(ty)>>)
      wide == Into(masked.c, "copy", "ZEXT", "i64", <<val>>)
  IN  CASE gprVRegIds(reg) = {} -> c
        [] gprVRegIds(reg) # {} /\ ty = "i64" -> To(c, "MOV", <<val>>)
        [] gprVRegIds(reg) # {} /\ ty = "i32" -> To(zext.c, "MOV", <<zext.v>>)
        [] OTHER -> To(wide.c, "OR", <<masked.v, wide.v>>)

(***************************************************************************)
(* Operands.                                                               *)
(***************************************************************************)

\* base, of which RIP is dropped and the displacement kept
BaseOf(c, op) ==
  IF op.base = NoReg THEN [c |-> c, v |-> Imm(0, "i64")]
  ELSE IF op.base = RIP THEN [c |-> c, v |-> Imm(op.disp, "i64")]
  ELSE readReg(c, op.base)

\* Mutant of WithIndex: the index is not scaled.
WithIndexMut(b, op) ==
  LET idx == readReg(b.c, op.index)
  IN  IF op.index = NoReg THEN b
      ELSE Into(idx.c, "block", "ADD", "i64", <<b.v, idx.v>>)

\* + index * scale
WithIndex(b, op) ==
  LET idx == readReg(b.c, op.index)
      scaled == IF op.scale > 1
                THEN Into(idx.c, "block", "MUL", "i64", <<idx.v, Imm(op.scale, "i64")>>)
                ELSE idx
  IN  IF op.index = NoReg THEN b
      ELSE Into(scaled.c, "block", "ADD", "i64", <<b.v, scaled.v>>)

\* + displacement: a second time when the base is RIP
WithDisp(a, op) ==
  IF op.disp = 0 THEN a
  ELSE Into(a.c, "block", "ADD", "i64", <<a.v, Imm(op.disp, "i64")>>)

computeAddr(c, op) ==
  Then(WithDisp(WithIndex(BaseOf(c, op), op), op), "block", "INTTOPTR", "ptr")

readOperand(c, op, hint) ==
  CASE op.kind = "reg" -> readReg(c, op.reg)
    [] op.kind = "imm" -> [c |-> c, v |-> Imm(op.value, hint)]
    [] op.kind = "mem" -> Then(computeAddr(c, op), "block", "LOAD", hint)
    [] OTHER -> [c |-> c, v |-> Imm(0, "i64")]

writeOperand(c, op, val) ==
  LET ptr == computeAddr(c, op)
  IN  CASE op.kind = "reg" -> writeReg(c, op.reg, val)
        [] op.kind = "mem" -> pushInst(ptr.c, "block", Store(val, ptr.v))
        [] OTHER -> c

\* The register of an operand that is none reads as no register.
regValue(op) == IF op.kind = "reg" THEN op.reg ELSE NoReg

OperandType(op) == IF op.kind = "reg" THEN typeOfReg(op.reg) ELSE op.ty

(***************************************************************************)
(* Instructions.  Each handler gives the function and the flag state.      *)
(***************************************************************************)

NoFlags == [valid |-> FALSE]
Flags(op, result, lhs, rhs, ty) ==
  [valid |-> TRUE, op |-> op, result |-> result, lhs |-> lhs, rhs |-> rhs, ty |-> ty]

\* The result of opcode for two values, r read after l.
Combine(l, r, opcode, ty) ==
  LET x == Into(r.c, "block", opcode, ty, <<l.v, r.v>>)
  IN  [c |-> x.c, v |-> x.v, lhs |-> l.v, rhs |-> r.v]

\* a opcode b into a temporary
Operate(c, opcode, ty, a, b) ==
  LET l == readOperand(c, a, ty)
  IN  Combine(l, readOperand(l.c, b, ty), opcode, ty)

Recorded(x, op, ty) == Flags(op, x.v, x.lhs, x.rhs, ty)

\* The result goes to the first operand, and into the record.
Update(x, ops, op, ty) ==
  [c |-> writeOperand(x.c, ops[1], x.v), flags |-> Recorded(x, op, ty)]

\* MOVZX and MOVSX; a 64-bit source that is no register counts as 8 bits.
Extend(c, opcode, ops) ==
  LET srcTy == IF ops[2].kind # "reg" /\ ops[2].ty = "i64" THEN "i8" ELSE OperandType(ops[2])
      dst == regValue(ops[1])
      wide == Then(readOperand(c, ops[2], srcTy), "block", opcode, typeOfReg(dst))
  IN  writeReg(wide.c, dst, wide.v)

\* MOV has no break: it goes on as MOVZX of the same operands.
Mov(c, ops) ==
  LET ty == IF ops[1].kind = "reg" THEN typeOfReg(ops[1].reg) ELSE OperandType(ops[2])
      src == readOperand(c, ops[2], ty)
  IN  Extend(writeOperand(src.c, ops[1], src.v), "ZEXT", ops)

\* The address is cut to 16 bits and used as 64.
Lea(c, ops) ==
  LET addr == Then(computeAddr(c, ops[2]), "block", "PTRTOINT", "i16")
  IN  writeReg(addr.c, ops[1].reg, VReg(addr.v.id, "i64"))

\* ADD, SUB, AND, OR, XOR
Binary(c, opcode, ops) ==
  LET ty == OperandType(ops[1])
  IN  Update(Operate(c, opcode, ty, ops[1], ops[2]), ops, opcode, ty)

\* Mutant of Compare: CMP subtracts the other way round.
CompareMut(c, opcode, ops) ==
  LET ty == OperandType(ops[1])
      x == Operate(c, opcode, ty, ops[2], ops[1])
  IN  [c |-> x.c, flags |-> Recorded(x, opcode, ty)]

\* CMP (SUB) and TEST (AND): the result is only recorded.
Compare(c, opcode, ops) ==
  LET ty == OperandType(ops[1])
      x == Operate(c, opcode, ty, ops[1], ops[2])
  IN  [c |-> x.c, flags |-> Recorded(x, opcode, ty)]

\* One operand: the low half of the product to RAX, 0 to RDX.  Two and three:
\* to the first operand.
Multiply(c, ops) ==
  LET a == IF Len(ops) = 1 THEN [kind |-> "reg", reg |-> RAX] ELSE ops[Len(ops) - 1]
      ty == IF Len(ops) = 1 THEN "i64" ELSE typeOfReg(ops[1].reg)
      x == Operate(c, "MUL", ty, a, ops[Len(ops)])
  IN  [c |-> IF Len(ops) = 1
             THEN writeReg(writeReg(x.c, RAX, x.v), RDX, Imm(0, "i64"))
             ELSE writeReg(x.c, ops[1].reg, x.v),
       flags |-> Recorded(x, "IMUL", ty)]

\* DIV and IDIV divide RAX alone, at 64 bits.
Divide(c, quotient, remainder, ops) ==
  LET src == readOperand(c, ops[1], "i64")
      q == Into(src.c, "block", quotient, "i64", <<gprVReg(RAX), src.v>>)
      r == Into(q.c, "block", remainder, "i64", <<gprVReg(RAX), src.v>>)
  IN  [c |-> writeReg(writeReg(r.c, RAX, q.v), RDX, r.v), flags |-> NoFlags]

\* NOT and NEG; a memory operand counts as 64 bits.
Unary(c, opcode, ops, old) ==
  LET ty == typeOfReg(regValue(ops[1]))
      src == readOperand(c, ops[1], ty)
      x == Then(src, "block", opcode, ty)
  IN  [c |-> writeOperand(x.c, ops[1], x.v),
       flags |-> IF opcode = "NEG" THEN Flags("SUB", x.v, Imm(0, ty), src.v, ty) ELSE old]

\* SHL, SHR, SAR by a byte; a memory operand counts as 64 bits.
Shift(c, opcode, op, ops) ==
  LET ty == typeOfReg(regValue(ops[1]))
      val == readOperand(c, ops[1], ty)
      amt == Then(readOperand(val.c, ops[2], "i8"), "block", "ZEXT", ty)
  IN  Update(Combine(val, amt, opcode, ty), ops, op, ty)

\* INC and DEC; a memory operand counts as 64 bits.
Step(c, opcode, op, ops) ==
  LET ty == typeOfReg(regValue(ops[1]))
      src == readOperand(c, ops[1], ty)
  IN  Update(Combine(src, [c |-> src.c, v |-> Imm(1, ty)], opcode, ty), ops, op, ty)

\* FlagState::materialise, its instructions taken for one (FlagState has them):
\* a constant without a record, else something of the record's values.
materialise(c, f) ==
  IF f.valid THEN Into(c, "block", "FLAGS", "i1", <<f.result, f.lhs, f.rhs>>)
             ELSE [c |-> c, v |-> Imm(0, "i1")]

Jcc(c, i, f) ==
  LET cond == materialise(c, f)
  IN  pushInst(cond.c, "block", Cjmp(cond.v, i.to[1], i.to[2]))

\* A jump to no block becomes a NOP.
JmpTo(c, i) ==
  pushInst(c, "block", IF i.to[1] = "unknown" THEN Nop ELSE Jmp(i.to[1]))

Call(c, i) ==
  LET direct == i.ops[1].kind = "imm"
      ptr == Then(readOperand(c, i.ops[1], "i64"), "block", "INTTOPTR", "ptr")
      callee == IF ~direct THEN ptr.v
                ELSE IF i.symbol # "" THEN Global(i.symbol) ELSE Imm(i.ops[1].value, "ptr")
      ret == Into(IF direct THEN c ELSE ptr.c, "block", "CALL", "i64", <<callee>>)
  IN  writeReg(ret.c, RAX, ret.v)

\* An instruction without a case, RET among them, pushes nothing.
liftInstr(c, f, i) ==
  LET Keep(x) == [c |-> x, flags |-> f]
  IN  CASE i.mn = "NOP"   -> Keep(pushInst(c, "block", Nop))
        [] i.mn = "MOV"   -> Keep(Mov(c, i.ops))
        [] i.mn = "MOVZX" -> Keep(Extend(c, "ZEXT", i.ops))
        [] i.mn = "MOVSX" -> Keep(Extend(c, "SEXT", i.ops))
        [] i.mn = "LEA"   -> Keep(Lea(c, i.ops))
        [] i.mn \in {"ADD", "SUB", "AND", "OR", "XOR"} -> Binary(c, i.mn, i.ops)
        [] i.mn = "CMP"   -> Compare(c, "SUB", i.ops)
        [] i.mn = "TEST"  -> Compare(c, "AND", i.ops)
        [] i.mn = "IMUL"  -> Multiply(c, i.ops)
        [] i.mn = "IDIV"  -> Divide(c, "SDIV", "SREM", i.ops)
        [] i.mn = "DIV"   -> Divide(c, "UDIV", "UREM", i.ops)
        [] i.mn \in {"NOT", "NEG"} -> Unary(c, i.mn, i.ops, f)
        [] i.mn = "SHL"   -> Shift(c, "SHL", "SHL", i.ops)
        [] i.mn = "SHR"   -> Shift(c, "LSHR", "SHR", i.ops)
        [] i.mn = "SAR"   -> Shift(c, "ASHR", "SAR", i.ops)
        [] i.mn = "INC"   -> Step(c, "ADD", "INC", i.ops)
        [] i.mn = "DEC"   -> Step(c, "SUB", "DEC", i.ops)
        [] i.mn = "JCC"   -> Keep(Jcc(c, i, f))
        [] i.mn = "JMP"   -> Keep(JmpTo(c, i))
        [] i.mn = "CALL"  -> [c |-> Call(c, i), flags |-> NoFlags]
        [] OTHER          -> Keep(c)

(***************************************************************************)
(* The function being lifted.                                              *)
(***************************************************************************)

Empty == [insts |-> <<>>, pushed |-> <<>>, next |-> FirstTemp, thrown |-> FALSE]

Init ==
  /\ fn = Empty
  /\ flags = NoFlags
  /\ last = [instr |-> [mn |-> "none"], before |-> Empty]
  /\ lifted = 0

\* An exception leaves the lifter; nothing is lifted after it.
LiftInstr ==
  /\ ~fn.thrown
  /\ lifted < MaxInstrs
  /\ \E i \in Instrs :
       LET x == liftInstr(fn, flags, i)
       IN  /\ fn' = x.c
           /\ flags' = x.flags
           /\ last' = [instr |-> i, before |-> fn]
  /\ lifted' = lifted + 1

\* The next block of the function; m_flagState goes on.
NextBlock ==
  /\ ~fn.thrown
  /\ fn.pushed # <<>>
  /\ fn' = [fn EXCEPT !.insts = <<>>, !.pushed = <<>>]
  /\ last' = [instr |-> [mn |-> "none"], before |-> fn']
  /\ UNCHANGED <<flags, lifted>>

Next == LiftInstr \/ NextBlock

Spec == Init /\ [][Next]_vars

(***************************************************************************)
(* Properties.                                                             *)
(***************************************************************************)

Operands(inst) == {inst.operands[k] : k \in 1 .. Len(inst.operands)}
VRegIds(inst) == {v.id : v \in {x \in Operands(inst) : x.kind = "vreg"}}
Temps(f) == FirstTemp .. f.next - 1

\* Every pushed instruction names reserved ids and temporaries handed out, which
\* are those from FirstTemp up to the counter.
TypeOK ==
  /\ fn.next \in Nat /\ fn.next >= FirstTemp
  /\ fn.thrown \in BOOLEAN
  /\ flags.valid \in BOOLEAN
  /\ lifted \in 0 .. MaxInstrs
  /\ \A k \in 1 .. Len(fn.pushed) :
       LET inst == fn.pushed[k]
       IN  VRegIds(inst) \cup inst.dst \subseteq Reserved \cup Temps(fn)

\* In a block an instruction that defines a temporary is the only one to do so,
\* and it comes before those that use it; only the flag record outlives its
\* block.  verifyIR (IR.hpp:501-505) would ask less, an id not above the counter,
\* and allows several definitions: but newTemp makes an id for one value, and a
\* second definition would join two.  Pushes to a copy of the block count as
\* definitions here; RegistersWritten says that they are lost.
TempsDefined ==
  \A k \in 1 .. Len(fn.pushed) :
    LET inst == fn.pushed[k]
        defined(j) == fn.pushed[j].dst
    IN  /\ inst.dst \ Reserved # {} => \A j \in 1 .. k - 1 : defined(j) # inst.dst
        /\ \A id \in VRegIds(inst) \ Reserved :
             id \notin UNION {defined(j) : j \in 1 .. k - 1} => inst.opcode = "FLAGS"

\* IR.cpp:301-302, "a terminator can only legally appear at the end of a
\* well-formed block": whatever is lifted after a jump, the block ends at it.
\* That a block has a terminator (IR.hpp:503) it does not say: liftInstr adds
\* none to a block that just runs on.
TerminatorLast ==
  \A k \in 1 .. Len(fn.insts) - 1 : fn.insts[k].opcode \notin Terminators
=============================================================================
