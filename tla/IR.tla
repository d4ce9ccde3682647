--------------------------------- MODULE IR ---------------------------------
(***************************************************************************)
(* The intermediate representation (IR.hpp, IR.cpp) as far as the lifter    *)
(* builds it: values, instructions, a basic block that refuses instructions *)
(* after a terminator, and the virtual registers a function hands out.      *)
(* A function under construction is a record                                *)
(*   insts    the instructions of the block                                  *)
(*   pushed   those and the ones pushed to copies of the block, which are    *)
(*            thrown away, in the order of the calls                         *)
(*   next     m_nextVregId                                                   *)
(*   thrown   pushInst has thrown                                            *)
(***************************************************************************)
EXTENDS Integers, Sequences

CONSTANT ByteBits   \* bits of a byte: 8

ASSUME IRAssumption == ByteBits \in Nat \ {0}

Pow2[n \in Nat] == IF n = 0 THEN 1 ELSE 2 * Pow2[n - 1]

byteWidth(ty) ==
  CASE ty \in {"i1", "i8"} -> 1
    [] ty = "i16" -> 2
    [] ty = "i32" -> 4
    [] ty \in {"i64", "ptr"} -> 8

Width(ty) == byteWidth(ty) * ByteBits

\* Ids 0-15 are the general purpose registers, 16-19 the flags.
Reserved == 0 .. 19
FirstTemp == 20

(***************************************************************************)
(* Values and instructions.  An instruction is made by one factory for each *)
(* family; an instruction without a result has no dst.                      *)
(***************************************************************************)

VReg(id, ty) == [kind |-> "vreg", id |-> id, ty |-> ty]
Imm(value, ty) == [kind |-> "imm", value |-> value, ty |-> ty]
Global(name) == [kind |-> "global", name |-> name, ty |-> "ptr"]

Inst(opcode, dst, ty, operands) ==
  [opcode |-> opcode, dst |-> dst, ty |-> ty, operands |-> operands, branches |-> <<>>]

Store(val, ptr) == Inst("STORE", {}, "void", <<val, ptr>>)
Nop == Inst("NOP", {}, "void", <<>>)
Jmp(label) == [Inst("JMP", {}, "void", <<>>) EXCEPT !.branches = <<label>>]
Cjmp(cond, yes, no) ==
  [Inst("CJMP", {}, "void", <<cond>>) EXCEPT !.branches = <<yes, no>>]

(***************************************************************************)
(* The block and the function.                                             *)
(***************************************************************************)

Terminators == {"JMP", "CJMP", "RET"}

\* Only the last instruction is looked at.
isTerminated(insts) ==
  insts # <<>> /\ insts[Len(insts)].opcode \in Terminators

Pushed(c, where, inst) ==
  [c EXCEPT !.pushed = Append(@, inst),
            !.insts = IF where = "block" THEN Append(@, inst) ELSE @]

\* Mutant of pushInst: nothing is refused.
pushInstMut(c, where, inst) == Pushed(c, where, inst)

\* A copy refuses what the block would: terminators only go to the block.
pushInst(c, where, inst) ==
  IF isTerminated(c.insts) THEN [c EXCEPT !.thrown = TRUE] ELSE Pushed(c, where, inst)

\* Mutant of allocVreg: the counter stays.
allocVregMut(c) == c

allocVreg(c) == [c EXCEPT !.next = @ + 1]

\* The result of opcode in a new temporary: the function after, and the value.
Into(c, where, opcode, ty, operands) ==
  [c |-> pushInst(allocVreg(c), where, Inst(opcode, {c.next}, ty, operands)),
   v |-> VReg(c.next, ty)]

\* opcode of the value just made
Then(r, where, opcode, ty) == Into(r.c, where, opcode, ty, <<r.v>>)
=============================================================================
