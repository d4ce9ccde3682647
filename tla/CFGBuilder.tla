----------------------------- MODULE CFGBuilder -----------------------------
(***************************************************************************)
(* From the bytes of a function to labelled basic blocks (X86Lifter.cpp):   *)
(* X86Disassmbler sweeps the bytes, CFGBuilder cuts the instructions into  *)
(* blocks, FunctionLifter names the blocks and its jumps look up names.    *)
(* Each loop iteration is a step.                                          *)
(*                                                                         *)
(* What Zydis decodes at each offset is arbitrary: a length, a kind of      *)
(* mnemonic, and the displacement of a PC-relative operand if there is one. *)
(*   plain  goes on to the next instruction                                *)
(*   jcc    the fourteen jumps liftInstr lifts                             *)
(*   loop   LOOP, LOOPE, LOOPNE, JP, JNP: ends a block, is not lifted       *)
(*   jrcxz  JCXZ, JECXZ, JRCXZ                                             *)
(*   jmp, call, ret, and bad, which does not decode                        *)
(***************************************************************************)
EXTENDS Integers, Sequences

CONSTANTS
  Mod,        \* number of addresses: 2^64
  MaxLen,     \* bound on the bytes of a function
  Bases,      \* addresses the function may lie at
  Encodings   \* what Zydis may decode at an offset

Mnemonic == {"plain", "jcc", "loop", "jrcxz", "jmp", "call", "ret", "bad"}
Addr == 0 .. Mod - 1
Encoding ==
  [mnemonic : Mnemonic, length : Nat \ {0}, relative : BOOLEAN, rel : Int]
DecodedInstr ==
  [va : Addr, mnemonic : Mnemonic, length : Nat \ {0}, relative : BOOLEAN, rel : Int]

\* The bytes of a function do not wrap around the address space.
ASSUME CFGAssumption ==
  /\ Mod \in Nat \ {0}
  /\ MaxLen \in Nat
  /\ \A b \in Bases : b \in Nat /\ b + MaxLen <= Mod
  /\ Encodings \subseteq Encoding

VARIABLES
  pc,           \* the loop that runs
  code, base,   \* what decodes at each offset, and baseVA
  offset,       \* disassemble's position
  instrs,       \* the instructions decoded
  i,            \* index of buildCFG's loops
  leaders, blocks, current,   \* buildCFG's locals
  blockNames    \* the keys of m_blockNames

vars == <<pc, code, base, offset, instrs, i, leaders, blocks, current, blockNames>>

len == Len(code)

(***************************************************************************)
(* X86Disassmbler.                                                         *)
(***************************************************************************)

\* What does not decode, or runs past the end, is a NOP of one byte.
DecodedAt(o) ==
  LET e == code[o + 1]
      bad == e.mnemonic = "bad" \/ o + e.length > len
  IN  [va |-> base + o,
       mnemonic |-> IF bad THEN "plain" ELSE e.mnemonic,
       length |-> IF bad THEN 1 ELSE e.length,
       relative |-> ~bad /\ e.relative,
       rel |-> e.rel]

\* Mutant of Disassemble: the position does not follow a NOP's length.
DisassembleMut ==
  /\ pc = "disassemble"
  /\ offset < len
  /\ instrs' = Append(instrs, DecodedAt(offset))
  /\ offset' = offset + code[offset + 1].length
  /\ UNCHANGED <<pc, code, base, i, leaders, blocks, current, blockNames>>

Disassemble ==
  /\ pc = "disassemble"
  /\ offset < len
  /\ instrs' = Append(instrs, DecodedAt(offset))
  /\ offset' = offset + DecodedAt(offset).length
  /\ UNCHANGED <<pc, code, base, i, leaders, blocks, current, blockNames>>

(***************************************************************************)
(* CFGBuilder.                                                             *)
(***************************************************************************)

isControlFlow(d) == d.mnemonic \in {"jcc", "loop", "jmp", "call", "ret"}

\* Mutant of directTarget: relative to the instruction, not to its end.
directTargetMut(d) == IF d.relative THEN (d.va + d.rel) % Mod ELSE 0

\* Mutant of directTarget: a signed sum, which a jump back from the lowest
\* addresses or ahead from the highest takes out of the address space.
directTargetSigned(d) == IF d.relative THEN d.va + d.length + d.rel ELSE 0

\* 0 stands for no direct target.
directTarget(d) == IF d.relative THEN (d.va + d.length + d.rel) % Mod ELSE 0

BeginCFG ==
  /\ pc = "disassemble"
  /\ offset >= len
  /\ IF instrs = <<>>
     THEN pc' = "blocks" /\ UNCHANGED leaders
     ELSE pc' = "leaders" /\ leaders' = {instrs[1].va}
  /\ i' = 1
  /\ UNCHANGED <<code, base, offset, instrs, blocks, current, blockNames>>

\* Mutant of FollowedBy: the instruction after a jump does not lead.
FollowedByMut(j) == {}

\* The leader a control-flow instruction makes of the next instruction.
FollowedBy(j) == IF j < Len(instrs) THEN {instrs[j + 1].va} ELSE {}

FindLeader ==
  /\ pc = "leaders"
  /\ i <= Len(instrs)
  /\ leaders' = leaders \cup
       IF isControlFlow(instrs[i])
       THEN FollowedBy(i) \cup ({directTarget(instrs[i])} \ {0})
       ELSE {}
  /\ i' = i + 1
  /\ UNCHANGED <<pc, code, base, offset, instrs, blocks, current, blockNames>>

BeginBlocks ==
  /\ pc = "leaders"
  /\ i > Len(instrs)
  /\ pc' = "blocks"
  /\ i' = 1
  /\ current' = instrs[1].va
  /\ blocks' = [b \in {instrs[1].va} |-> <<>>]
  /\ UNCHANGED <<code, base, offset, instrs, leaders, blockNames>>

Block(b) == IF b \in DOMAIN blocks THEN blocks[b] ELSE <<>>

\* Mutant of AddToBlock: the block is changed after the instruction is added.
AddToBlockMut ==
  LET d == instrs[i]
  IN  /\ pc = "blocks"
      /\ i <= Len(instrs)
      /\ current' = IF d.va \in leaders THEN d.va ELSE current
      /\ blocks' = [b \in DOMAIN blocks \cup {current} |->
                      IF b = current THEN Append(Block(b), d) ELSE blocks[b]]
      /\ i' = i + 1
      /\ UNCHANGED <<pc, code, base, offset, instrs, leaders, blockNames>>

AddToBlock ==
  LET d == instrs[i]
  IN  /\ pc = "blocks"
      /\ i <= Len(instrs)
      /\ current' = IF d.va \in leaders THEN d.va ELSE current
      /\ blocks' = [b \in DOMAIN blocks \cup {current'} |->
                      IF b = current' THEN Append(Block(b), d) ELSE blocks[b]]
      /\ i' = i + 1
      /\ UNCHANGED <<pc, code, base, offset, instrs, leaders, blockNames>>

(***************************************************************************)
(* FunctionLifter: lift names the blocks; liftInstr looks names up.        *)
(***************************************************************************)

lift ==
  /\ pc = "blocks"
  /\ i > Len(instrs)
  /\ pc' = "lifted"
  /\ blockNames' = DOMAIN blocks
  /\ UNCHANGED <<code, base, offset, instrs, i, leaders, blocks, current>>

unknown == -1
LabelOf(va) == IF va \in blockNames THEN va ELSE unknown

\* The labels of a conditional jump; a JMP has the first alone, and looks up
\* address 0 when it is indirect.
trueSymLabel(d) ==
  LabelOf(IF d.relative THEN (d.va + d.length + d.rel) % Mod ELSE 0)
falseSymLabel(d) == LabelOf((d.va + d.length) % Mod)

Init ==
  /\ pc = "disassemble"
  /\ \E n \in 0 .. MaxLen : code \in [1 .. n -> Encodings]
  /\ base \in Bases
  /\ offset = 0
  /\ instrs = <<>>
  /\ i = 1
  /\ leaders = {}
  /\ blocks = <<>>
  /\ current = 0
  /\ blockNames = {}

Next ==
  \/ Disassemble
  \/ BeginCFG
  \/ FindLeader
  \/ BeginBlocks
  \/ AddToBlock
  \/ lift

Spec == Init /\ [][Next]_vars

(***************************************************************************)
(* Properties.                                                             *)
(***************************************************************************)

\* The locals have their types; a block is a sequence of instructions.
TypeOK ==
  /\ pc \in {"disassemble", "leaders", "blocks", "lifted"}
  /\ code \in Seq(Encodings)
  /\ Len(code) <= MaxLen
  /\ base \in Bases
  /\ offset \in Nat
  /\ instrs \in Seq(DecodedInstr)
  /\ i \in 1 .. Len(instrs) + 1
  /\ leaders \subseteq Addr
  /\ current \in Addr
  /\ DOMAIN blocks \subseteq Addr
  /\ \A b \in DOMAIN blocks : blocks[b] \in Seq(DecodedInstr)
  /\ blockNames \subseteq Addr

\* X86Lifter.cpp:239-263: whatever fails to decode, every byte swept belongs
\* to exactly one instruction, and the sweep never passes the end.
SweepTiles ==
  LET n == Len(instrs)
  IN  /\ offset <= len
      /\ n = 0 => offset = 0
      /\ n > 0 => /\ instrs[1].va = base
                  /\ instrs[n].va + instrs[n].length = base + offset
      /\ \A j \in 1 .. n - 1 : instrs[j + 1].va = instrs[j].va + instrs[j].length

\* X86Lifter.cpp:302-311: the blocks partition the instructions.  Every
\* instruction falls into the block whose key is the greatest not above its
\* address; each block is the run of the instructions that fall into it, in
\* order, and its key, which labels resolve to, is the address of the first.
BlocksPartition ==
  pc = "lifted" =>
    LET inBlock(b, d) == b <= d.va /\ \A c \in DOMAIN blocks : c <= d.va => c <= b
    IN  /\ \A j \in 1 .. Len(instrs) : \E b \in DOMAIN blocks : inBlock(b, instrs[j])
        /\ \A b \in DOMAIN blocks : \E m, n \in 1 .. Len(instrs) :
             /\ instrs[m].va = b
             /\ blocks[b] = SubSeq(instrs, m, n)
             /\ \A j \in 1 .. Len(instrs) : j \in m .. n <=> inBlock(b, instrs[j])

\* Control enters a block only at its first instruction and leaves it only
\* after its last, for the jumps isControlFlow knows.
BlocksStraight ==
  pc = "lifted" =>
    \A b \in DOMAIN blocks : \A p \in 1 .. Len(blocks[b]) :
      /\ p < Len(blocks[b]) => ~isControlFlow(blocks[b][p])
      /\ p > 1 => \A j \in 1 .. Len(instrs) :
                    isControlFlow(instrs[j]) /\ instrs[j].relative
                      => (instrs[j].va + instrs[j].length + instrs[j].rel) % Mod
                           # blocks[b][p].va

\* X86Lifter.cpp:1164-1185, 1204-1222: the lifter computes the target of a
\* jump again, apart from directTarget.  A jump to an instruction of the
\* function has that instruction's label, and a conditional jump before the
\* last instruction has the label it falls through to.
LabelsResolve ==
  pc = "lifted" =>
    \A j \in 1 .. Len(instrs) :
      LET d == instrs[j]
          target == (d.va + d.length + d.rel) % Mod
      IN  /\ /\ d.mnemonic \in {"jcc", "jmp"}
             /\ d.relative
             /\ \E e \in 1 .. Len(instrs) : instrs[e].va = target
             => trueSymLabel(d) = target
          /\ d.mnemonic = "jcc" /\ j < Len(instrs) => falseSymLabel(d) = instrs[j + 1].va
=============================================================================
