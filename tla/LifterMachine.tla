---------------------------- MODULE LifterMachine ----------------------------
(***************************************************************************)
(* What the lifted code computes, beside the processor.  The same machine   *)
(* state is the processor's before an instruction and the registers and     *)
(* memory the instructions pushed for it start from; Processor and Run give *)
(* the state after each.                                                   *)
(*                                                                         *)
(* The IR has no interpreter in the repository: an opcode does what its     *)
(* name and the factories' comments in IR.hpp say.                         *)
(***************************************************************************)
EXTENDS Lifter, FiniteSets

CONSTANTS
  Machines     \* states: r, the registers; m, the bytes of memory; rip

(***************************************************************************)
(* Arithmetic on words of a type.                                          *)
(***************************************************************************)

Words(ty) == 0 .. Pow2[Width(ty)] - 1

Wrap(x, ty) == x % Pow2[Width(ty)]
Signed(x, ty) == IF x < Pow2[Width(ty) - 1] THEN x ELSE x - Pow2[Width(ty)]

\* The sum of the first n parts, which are numbered from 0.
Total(parts, n) ==
  LET sum[k \in 0 .. n] == IF k = 0 THEN 0 ELSE sum[k - 1] + parts[k - 1]
  IN  sum[n]

BitNumbers == 0 .. Width("i64") - 1
Bits(x) == {k \in BitNumbers : (x \div Pow2[k]) % 2 = 1}
Number(bits) ==
  Total([k \in BitNumbers |-> IF k \in bits THEN Pow2[k] ELSE 0], Width("i64"))

\* Division that cuts towards zero.
Quotient(x, y) ==
  LET Size(n) == IF n < 0 THEN -n ELSE n
      q == Size(x) \div Size(y)
  IN  IF (x < 0) = (y < 0) THEN q ELSE -q

Compute(opcode, x, y, ty) ==
  LET sx == Signed(x, ty)
      sy == Signed(y, ty)
  IN  CASE opcode = "ADD"  -> Wrap(x + y, ty)
        [] opcode = "SUB"  -> Wrap(x - y, ty)
        [] opcode = "MUL"  -> Wrap(x * y, ty)
        [] opcode = "AND"  -> Number(Bits(x) \cap Bits(y))
        [] opcode = "OR"   -> Number(Bits(x) \cup Bits(y))
        [] opcode = "XOR"  -> Number((Bits(x) \cup Bits(y)) \ (Bits(x) \cap Bits(y)))
        [] opcode = "SHL"  -> Wrap(x * Pow2[y], ty)
        [] opcode = "LSHR" -> x \div Pow2[y]
        [] opcode = "ASHR" -> Wrap(sx \div Pow2[y], ty)
        [] opcode = "UDIV" -> x \div y
        [] opcode = "UREM" -> x % y
        [] opcode = "SDIV" -> Wrap(Quotient(sx, sy), ty)
        [] opcode = "SREM" -> Wrap(sx - sy * Quotient(sx, sy), ty)

(***************************************************************************)
(* Memory, little endian, the address space a word.                        *)
(***************************************************************************)

ByteAt(addr, k) == Wrap(addr + k, "ptr")

LoadFrom(m, addr, ty) ==
  Total([k \in 0 .. byteWidth(ty) - 1 |-> m[ByteAt(addr, k)] * Pow2[k * ByteBits]],
        byteWidth(ty))

StoreTo(m, addr, ty, x) ==
  [a \in DOMAIN m |->
     LET k == Wrap(a - addr, "ptr")
     IN  IF k < byteWidth(ty) THEN (x \div Pow2[k * ByteBits]) % Pow2[ByteBits] ELSE m[a]]

ASSUME MachineAssumption ==
  Machines \subseteq [r : [{Gprs[k] : k \in 1 .. 16} -> Words("i64")],
                      m : [Words("ptr") -> Words("i8")], rip : Words("i64")]

(***************************************************************************)
(* The lifted code.  v holds the virtual registers that have a value.       *)
(***************************************************************************)

\* An operand's value; none for a temporary nothing has defined.
Value(s, x) ==
  CASE x.kind = "imm" -> {Wrap(x.value, x.ty)}
    [] x.kind = "vreg" -> {s.v[id] : id \in {x.id} \cap DOMAIN s.v}
    [] OTHER -> {}

Result(s, inst, x) ==
  CASE inst.opcode = "LOAD" -> LoadFrom(s.m, x[1], inst.ty)
    [] inst.opcode = "SEXT" -> Wrap(Signed(x[1], inst.operands[1].ty), inst.ty)
    [] inst.opcode = "NOT" -> Wrap(-1 - x[1], inst.ty)
    [] inst.opcode = "NEG" -> Wrap(-x[1], inst.ty)
    [] inst.opcode \in {"MOV", "ZEXT", "TRUNC", "INTTOPTR", "PTRTOINT"} -> Wrap(x[1], inst.ty)
    [] OTHER -> Compute(inst.opcode, x[1], x[2], inst.ty)

Define(v, id, x) == [j \in DOMAIN v \cup {id} |-> IF j = id THEN x ELSE v[j]]

\* An instruction with an operand that has no value has no effect.
Execute(s, inst) ==
  LET known == [k \in 1 .. Len(inst.operands) |-> Value(s, inst.operands[k])]
      x == [k \in 1 .. Len(known) |-> CHOOSE y \in known[k] : TRUE]
  IN  IF \E k \in 1 .. Len(known) : known[k] = {} THEN s
      ELSE IF inst.opcode = "STORE"
      THEN [s EXCEPT !.m = StoreTo(s.m, x[2], inst.operands[1].ty, x[1])]
      ELSE [s EXCEPT !.v = Define(s.v, CHOOSE id \in inst.dst : TRUE, Result(s, inst, x))]

\* What the last instruction pushed, and the part of it the block keeps.
New(now, before) == SubSeq(now, Len(before) + 1, Len(now))
Pushes == New(fn.pushed, last.before.pushed)
Kept == New(fn.insts, last.before.insts)

\* The registers hold what the machine's do, no temporary has a value yet.
Start(mc) == [v |-> [id \in 0 .. 15 |-> mc.r[Gprs[id + 1]]], m |-> mc.m]

Run(insts, mc) ==
  LET state[k \in 0 .. Len(insts)] ==
        IF k = 0 THEN Start(mc) ELSE Execute(state[k - 1], insts[k])
  IN  state[Len(insts)]

(***************************************************************************)
(* The processor.                                                          *)
(***************************************************************************)

RegGet(mc, reg) ==
  IF reg.part = "h" THEN (mc.r[reg.name] \div Pow2[ByteBits]) % Pow2[ByteBits]
                    ELSE Wrap(mc.r[reg.name], typeOfReg(reg))

\* 64 and 32 bits replace the whole register, fewer a part of it.
RegPut(mc, reg, x) ==
  LET old == mc.r[reg.name]
      shift == IF reg.part = "h" THEN Pow2[ByteBits] ELSE 1
  IN  [mc EXCEPT !.r[reg.name] =
         IF reg.part \in {"q", "d"} THEN x ELSE old + (x - RegGet(mc, reg)) * shift]

\* The sum of an address, wrapped to the width of its registers.
AddressSum(mc, op) ==
  LET base == IF op.base = NoReg THEN 0 ELSE IF op.base = RIP THEN mc.rip ELSE RegGet(mc, op.base)
      index == IF op.index = NoReg THEN 0 ELSE RegGet(mc, op.index) * op.scale
  IN  base + index + op.disp

AddressType(op) == IF "d" \in {op.base.part, op.index.part} THEN "i32" ELSE "ptr"
Address(mc, op) == Wrap(AddressSum(mc, op), AddressType(op))

\* An immediate counts as wide as the instruction.
Get(mc, op, ty) ==
  CASE op.kind = "reg" -> RegGet(mc, op.reg)
    [] op.kind = "imm" -> Wrap(op.value, ty)
    [] op.kind = "mem" -> LoadFrom(mc.m, Address(mc, op), op.ty)

Put(mc, op, x) ==
  IF op.kind = "reg" THEN RegPut(mc, op.reg, x)
  ELSE [mc EXCEPT !.m = StoreTo(mc.m, Address(mc, op), op.ty, x)]

\* The operands the arithmetic of an instruction has, and its opcode.
Arithmetic(i) ==
  CASE i.mn \in {"INC", "ADD"} -> "ADD"
    [] i.mn \in {"DEC", "SUB", "CMP"} -> "SUB"
    [] i.mn = "TEST" -> "AND"
    [] i.mn = "SHR" -> "LSHR"
    [] i.mn = "SAR" -> "ASHR"
    [] i.mn = "IMUL" -> "MUL"
    [] OTHER -> i.mn

Left(mc, i) ==
  LET ty == OperandType(i.ops[1])
  IN  CASE i.mn = "IMUL" /\ Len(i.ops) = 1 -> mc.r["RAX"]
        [] i.mn = "IMUL" /\ Len(i.ops) = 3 -> Get(mc, i.ops[2], ty)
        [] i.mn = "NEG" -> 0
        [] OTHER -> Get(mc, i.ops[1], ty)

Right(mc, i) ==
  LET ty == OperandType(i.ops[1])
  IN  IF i.mn \in {"INC", "DEC"} THEN 1 ELSE Get(mc, i.ops[Len(i.ops)], ty)

Outcome(mc, i) ==
  Compute(IF i.mn = "NEG" THEN "SUB" ELSE Arithmetic(i),
          Left(mc, i), Right(mc, i), OperandType(i.ops[1]))

\* One-operand IMUL, DIV and IDIV at 64 bits work on RDX:RAX.
Pair(mc, i) ==
  LET d == (IF i.mn = "DIV" THEN mc.r["RDX"] ELSE Signed(mc.r["RDX"], "i64")) * Pow2[Width("i64")]
  IN  d + mc.r["RAX"]

Product(mc, i) == Signed(Left(mc, i), "i64") * Signed(Right(mc, i), "i64")

Divisor(mc, i) ==
  IF i.mn = "DIV" THEN Right(mc, i) ELSE Signed(Right(mc, i), "i64")

SetPair(mc, low, high) ==
  RegPut(RegPut(mc, RAX, Wrap(low, "i64")), RDX, Wrap(high, "i64"))

\* The division does not fault.
Divides(mc, i) ==
  /\ Divisor(mc, i) # 0
  /\ LET q == Quotient(Pair(mc, i), Divisor(mc, i))
     IN  q = IF i.mn = "DIV" THEN Wrap(q, "i64") ELSE Signed(Wrap(q, "i64"), "i64")

Processor(mc, i) ==
  LET ty == OperandType(i.ops[1])
      src == i.ops[2]
      q == Quotient(Pair(mc, i), Divisor(mc, i))
  IN  CASE i.mn \in {"CMP", "TEST"} -> mc
        [] i.mn \in {"MOV", "MOVZX"} -> Put(mc, i.ops[1], Get(mc, src, ty))
        [] i.mn = "MOVSX" ->
             Put(mc, i.ops[1], Wrap(Signed(Get(mc, src, ty), OperandType(src)), ty))
        [] i.mn = "LEA" -> RegPut(mc, i.ops[1].reg, Wrap(Address(mc, src), ty))
        [] i.mn = "NOT" -> Put(mc, i.ops[1], Wrap(-1 - Get(mc, i.ops[1], ty), ty))
        [] i.mn \in {"DIV", "IDIV"} -> SetPair(mc, q, Pair(mc, i) - q * Divisor(mc, i))
        [] i.mn = "IMUL" /\ Len(i.ops) = 1 ->
             SetPair(mc, Product(mc, i), Product(mc, i) \div Pow2[Width("i64")])
        [] OTHER -> Put(mc, i.ops[1], Outcome(mc, i))

(***************************************************************************)
(* What the lifter covers: outside of it the pushes do differ from the      *)
(* processor (the README lists the cases with their lines).                 *)
(***************************************************************************)

Arithmetics ==
  {"ADD", "SUB", "AND", "OR", "XOR", "CMP", "TEST", "IMUL", "NEG",
   "SHL", "SHR", "SAR", "INC", "DEC"}

OperandsOf(i) == {i.ops[k] : k \in 1 .. Len(i.ops)}
RegsOf(op) ==
  (IF op.kind = "reg" THEN {op.reg} ELSE IF op.kind = "mem" THEN {op.base, op.index} ELSE {})
    \ {NoReg}

\* Registers that are tracked and no second byte; no address beside RIP.
Plain(i) ==
  \A op \in OperandsOf(i) : \A reg \in RegsOf(op) :
    gprVRegIds(reg) # {} /\ reg.part # "h"

\* What MOV does again as MOVZX is the same move: the source not read as 8
\* bits, and its address not through the register just written.
MovesTwice(dst, src) ==
  \/ dst.kind = "mem" /\ OperandType(src) = OperandType(dst)
  \/ dst.kind = "reg" /\ src.kind = "reg"
  \/ /\ dst.kind = "reg" /\ src.kind # "reg"
     /\ OperandType(src) = typeOfReg(dst.reg) /\ OperandType(src) # "i64"
     /\ \A reg \in RegsOf(src) : canonicalReg(reg) # canonicalReg(dst.reg)

Registers == [name : STRING, part : {"q", "d", "w", "l", "h"}]
Sizes == {"i8", "i16", "i32", "i64"}

IsReg(op) == op.kind = "reg" /\ op.reg \in Registers \ {NoReg}
IsImm(op) == op.kind = "imm" /\ op.value \in Int /\ op.ty \in Sizes
IsMem(op) ==
  /\ op.kind = "mem"
  /\ {op.base, op.index} \subseteq [name : STRING, part : {"q", "d"}]
  /\ op.scale \in {1, 2, 4, 8} /\ op.disp \in Int /\ op.ty \in Sizes
IsPlace(op) == IsReg(op) \/ IsMem(op)
Narrower(a, b) == Width(OperandType(a)) <= Width(OperandType(b))

\* The operands x86 has for these instructions, as the decoder gives them.
Decoded(i) ==
  LET ops == i.ops
      Same(a, b) == OperandType(a) = OperandType(b)
  IN  CASE i.mn = "MOV" ->
             /\ Len(ops) = 2 /\ IsPlace(ops[1]) /\ (IsPlace(ops[2]) \/ IsImm(ops[2]))
             /\ IsReg(ops[1]) /\ IsReg(ops[2]) => Same(ops[1], ops[2])
        [] i.mn \in {"MOVZX", "MOVSX"} ->
             /\ Len(ops) = 2 /\ IsReg(ops[1]) /\ IsPlace(ops[2]) /\ Narrower(ops[2], ops[1])
             /\ IsMem(ops[2]) => ops[2].ty # "i64"
        [] i.mn = "LEA" ->
             Len(ops) = 2 /\ IsReg(ops[1]) /\ typeOfReg(ops[1].reg) # "i8" /\ IsMem(ops[2])
        [] i.mn \in {"ADD", "SUB", "AND", "OR", "XOR", "CMP", "TEST"} ->
             /\ Len(ops) = 2 /\ IsPlace(ops[1])
             /\ IsImm(ops[2]) \/ (IsPlace(ops[2]) /\ Same(ops[1], ops[2]))
        [] i.mn \in {"SHL", "SHR", "SAR"} ->
             /\ Len(ops) = 2 /\ IsPlace(ops[1])
             /\ \/ IsImm(ops[2]) /\ ops[2].value \in Words("i8")
                \/ IsReg(ops[2]) /\ OperandType(ops[2]) = "i8"
        [] i.mn = "IMUL" ->
             /\ Len(ops) \in 1 .. 3 /\ IsPlace(ops[1])
             /\ Len(ops) > 1 => IsReg(ops[1]) /\ IsPlace(ops[2]) /\ Same(ops[1], ops[2])
             /\ Len(ops) = 3 => IsImm(ops[3])
        [] OTHER -> Len(ops) = 1 /\ IsPlace(ops[1])

Handled == Arithmetics \cup {"MOV", "MOVZX", "MOVSX", "LEA", "NOT", "DIV", "IDIV"}

ASSUME DecoderAssumption ==
  \A i \in Instrs : i.mn \in Handled /\ Plain(i) => i.ops \in Seq(OperandsOf(i)) /\ Decoded(i)

\* Handlers that take a memory operand for 64 bits.
Whole(op) == op.kind = "mem" => op.ty = "i64"

\* The processor takes a larger shift count modulo this.
ShiftLimit(i) == Width(IF OperandType(i.ops[1]) = "i64" THEN "i64" ELSE "i32")

Covered(mc, i) ==
  /\ i.mn \in Handled
  /\ Plain(i)
  /\ \A op \in {o \in OperandsOf(i) : o.kind = "mem" /\ AddressType(o) = "i32"} :
       AddressSum(mc, op) = Address(mc, op)
  /\ i.mn = "MOV" => MovesTwice(i.ops[1], i.ops[2])
  /\ i.mn = "LEA" => Address(mc, i.ops[2]) < Pow2[Width("i16")]
  /\ i.mn \in {"NOT", "NEG", "INC", "DEC", "SHL", "SHR", "SAR"} => Whole(i.ops[1])
  /\ i.mn \in {"SHL", "SHR", "SAR"} => Right(mc, i) < ShiftLimit(i)
  /\ i.mn = "IMUL" /\ Len(i.ops) = 1 =>
       OperandType(i.ops[1]) = "i64" /\ Product(mc, i) \in 0 .. Pow2[Width("i64")] - 1
  /\ i.mn \in {"DIV", "IDIV"} =>
       /\ OperandType(i.ops[1]) = "i64"
       /\ Pair(mc, i) = (IF i.mn = "DIV" THEN mc.r["RAX"] ELSE Signed(mc.r["RAX"], "i64"))
       /\ Divides(mc, i)

AllWide(i) == \A op \in OperandsOf(i) : \A reg \in RegsOf(op) : typeOfReg(reg) = "i64"

\* last is an instruction that did not throw.
Lifted == last.instr.mn # "none" /\ ~fn.thrown

SameRegisters(s, mc) == \A id \in 0 .. 15 : s.v[id] = mc.r[Gprs[id + 1]]

(***************************************************************************)
(* Properties.                                                             *)
(***************************************************************************)

\* The instructions lifted into the block, taken alone, store what the processor
\* stores, at the address it stores to, as long as no operand is a narrow
\* register: address arithmetic, loads and stores are all in the block.
StoresExact ==
  Lifted =>
    \A mc \in {x \in Machines : Covered(x, last.instr) /\ AllWide(last.instr)} :
      Run(Kept, mc).m = Processor(mc, last.instr).m

\* Everything pushed for an instruction, what writeReg and readReg push to their
\* copies of the block included, computes the processor's registers and memory:
\* widths, extensions, partial writes and addresses are selected right, and
\* only the copy keeps them from the program.
PushesExact ==
  Lifted =>
    \A mc \in {x \in Machines : Covered(x, last.instr)} :
      LET s == Run(Pushes, mc)
          after == Processor(mc, last.instr)
      IN  SameRegisters(s, after) /\ s.m = after.m

\* The operands and the result recorded for the flags have, after the
\* instruction, the values the processor set the flags from.  An operand that is
\* a 64-bit register is recorded as the register itself, which the instruction
\* then writes: only compares and memory destinations are exact there.
RecordExact ==
  LET i == last.instr
      ty == OperandType(i.ops[1])
      Overwritten == /\ ty = "i64" /\ i.mn \notin {"CMP", "TEST"}
                     /\ i.ops[1].kind = "reg" \/ i.mn = "IMUL"
  IN  Lifted /\ i.mn \in Arithmetics /\ ~Overwritten =>
        \A mc \in {x \in Machines : Covered(x, i)} :
          LET s == Run(Pushes, mc)
          IN  /\ flags.valid /\ flags.ty = ty
              /\ Value(s, flags.lhs) = {Left(mc, i)}
              /\ Value(s, flags.rhs) = {Right(mc, i)}
              /\ Value(s, flags.result) = {Outcome(mc, i)}

\* X86Lifter.cpp:568-569 of writeReg: "Register write / emits a mov into a
\* GPR's fixed Vreg".  The mov is in the block: moving one 64-bit register to
\* another leaves the program's registers as the processor's.
RegistersWritten ==
  LET i == last.instr
  IN  Lifted /\ i.mn = "MOV" /\ AllWide(i) /\ i.ops[1].kind = "reg" /\ i.ops[2].kind = "reg" =>
        \A mc \in {x \in Machines : Covered(x, i)} :
          SameRegisters(Run(Kept, mc), Processor(mc, i))
=============================================================================
