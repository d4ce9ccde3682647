----------------------------- MODULE FlagState -----------------------------
(***************************************************************************)
(* Lazy x86 flags (Flagstate.cpp) beside the flags of the processor it      *)
(* stands for.  The lifter calls set() after each arithmetic instruction   *)
(* with the operation and its operands; a conditional jump later asks      *)
(* materialise() for the one condition it needs, and the flags are         *)
(* recomputed from the record.  The model runs both: eflags is what the    *)
(* x86 instruction does to CF, ZF, SF and OF, the m_ variables are the     *)
(* record, and a request has an answer on each side.                       *)
(*                                                                         *)
(* The record keeps IR values, not words.  A 64-bit register is its fixed   *)
(* virtual register (readReg), so what is recorded changes with it; a       *)
(* narrow register, memory and a result are temporaries, which do not.     *)
(* regs is the registers as the writes the lifter pushes leave them, those *)
(* it pushes to a copy of the block included (LifterMachine says which).   *)
(* The jumps are exact only where the record outlives these writes: an ADD  *)
(* or INC of a 64-bit register overwrites the operand it has just recorded, *)
(* and stale says so.                                                      *)
(*                                                                         *)
(* A word is a natural below 2 * Half: its sign bit is set from Half on.   *)
(* The result of a bitwise, shift or multiply instruction is any word:     *)
(* flags depend on no more.  The IR instructions materialise emits are     *)
(* evaluated as they are named: ULT and UGT on naturals, SLT and SGE on     *)
(* two's complement.                                                       *)
(***************************************************************************)
EXTENDS Integers

CONSTANTS
  Half,   \* 2^(width - 1)
  Regs    \* the 64-bit registers

ASSUME HalfAssumption == Half \in Nat \ {0}

VARIABLES
  m_valid, m_op, m_result, m_lhs,  \* the record (m_rhs is stored and never read)
  regs,                            \* the registers' words
  eflags,                          \* the processor's flags
  stale    \* history: the register m_lhs names was written since set() was called

record == <<m_valid, m_op, m_result, m_lhs>>
vars == <<record, regs, eflags, stale>>

Word == 0 .. 2 * Half - 1
Wrap(n) == n % (2 * Half)
Negative(w) == w >= Half
Signed(w) == IF Negative(w) THEN w - 2 * Half ELSE w

\* SHL, SHR and SAR are answered alike and are one operation here.
Logic == {"AND", "OR", "XOR"}
FlagOp == {"ADD", "SUB", "INC", "DEC", "IMUL", "SHIFT"} \cup Logic
Flags == [cf : BOOLEAN, zf : BOOLEAN, sf : BOOLEAN, of : BOOLEAN]

\* The values the lifter hands to set, and what one is worth now.
VReg(reg) == [kind |-> "vreg", reg |-> reg]
Temp(word) == [kind |-> "temp", word |-> word]
Temps == {Temp(w) : w \in Word}
IRValue == {VReg(reg) : reg \in Regs} \cup Temps
Value(x) == IF x.kind = "vreg" THEN regs[x.reg] ELSE x.word

(***************************************************************************)
(* The record.                                                             *)
(***************************************************************************)

set(op, result, lhs) ==
  /\ m_valid' = TRUE
  /\ m_op' = op
  /\ m_result' = result
  /\ m_lhs' = lhs

invalidate ==
  /\ m_valid' = FALSE
  /\ UNCHANGED <<m_op, m_result, m_lhs>>

Result == Value(m_result)
Lhs == Value(m_lhs)

emitZF == Result = 0
emitSF == Negative(Result)

\* Mutant of emitCF: the carry's comparison is not strict.
emitCFMut ==
  \/ m_op = "ADD" /\ Result <= Lhs
  \/ m_op = "SUB" /\ Result > Lhs

\* INC and DEC leave CF alone on the processor; the record answers FALSE for
\* them, for the shifts and for IMUL.
emitCF ==
  \/ m_op = "ADD" /\ Result < Lhs
  \/ m_op = "SUB" /\ Result > Lhs

\* Mutant of PositiveOverflow: the left operand's sign is not looked at.
PositiveOverflowMut == Negative(Result)

PositiveOverflow == ~Negative(Lhs) /\ Negative(Result)
NegativeOverflow == Negative(Lhs) /\ ~Negative(Result)

emitOF ==
  \/ m_op \in {"ADD", "SUB"} /\ (PositiveOverflow \/ NegativeOverflow)
  \/ m_op = "INC" /\ PositiveOverflow
  \/ m_op = "DEC" /\ NegativeOverflow

\* The combination each request is materialised as.  Without a record every
\* condition is FALSE, a negated one too.
materialise(request) ==
  /\ m_valid
  /\ \/ request = "ZF" /\ emitZF
     \/ request = "NOT_ZF" /\ ~emitZF
     \/ request = "SF" /\ emitSF
     \/ request = "NOT_SF" /\ ~emitSF
     \/ request = "CF" /\ emitCF
     \/ request = "NOT_CF" /\ ~emitCF
     \/ request = "OF" /\ emitOF
     \/ request = "NOT_OF" /\ ~emitOF
     \/ request = "CF_OR_ZF" /\ (emitCF \/ emitZF)
     \/ request = "NOT_CF_AND_NOT_ZF" /\ ~emitCF /\ ~emitZF
     \/ request = "SF_XOR_OF" /\ ~(emitSF <=> emitOF)
     \/ request = "NOT_SF_XOR_OF" /\ (emitSF <=> emitOF)
     \/ request = "ZF_OR_SF_XOR_OF" /\ (emitZF \/ ~(emitSF <=> emitOF))
     \/ request = "NOT_ZF_AND_NOT_SF_XOR_OF" /\ ~emitZF /\ (emitSF <=> emitOF)

\* flagRequestForJcc: the request of each conditional jump.
flagRequestForJcc ==
  [JZ |-> "ZF", JNZ |-> "NOT_ZF", JS |-> "SF", JNS |-> "NOT_SF",
   JO |-> "OF", JNO |-> "NOT_OF", JB |-> "CF", JNB |-> "NOT_CF",
   JBE |-> "CF_OR_ZF", JNBE |-> "NOT_CF_AND_NOT_ZF",
   JL |-> "SF_XOR_OF", JNL |-> "NOT_SF_XOR_OF",
   JLE |-> "ZF_OR_SF_XOR_OF", JNLE |-> "NOT_ZF_AND_NOT_SF_XOR_OF"]

\* The jump as the lifted code takes it, and as the processor does.
lifted(jcc) == materialise(flagRequestForJcc[jcc])

taken(jcc) ==
  LET less == ~(eflags.sf <=> eflags.of)
      below == eflags.cf
      equal == eflags.zf
  IN  \/ jcc = "JZ" /\ equal
      \/ jcc = "JNZ" /\ ~equal
      \/ jcc = "JS" /\ eflags.sf
      \/ jcc = "JNS" /\ ~eflags.sf
      \/ jcc = "JO" /\ eflags.of
      \/ jcc = "JNO" /\ ~eflags.of
      \/ jcc = "JB" /\ below
      \/ jcc = "JNB" /\ ~below
      \/ jcc = "JBE" /\ (below \/ equal)
      \/ jcc = "JNBE" /\ ~(below \/ equal)
      \/ jcc = "JL" /\ less
      \/ jcc = "JNL" /\ ~less
      \/ jcc = "JLE" /\ (less \/ equal)
      \/ jcc = "JNLE" /\ ~(less \/ equal)

(***************************************************************************)
(* The instructions, on the processor and as the lifter records them.  x is *)
(* the operand that is read first, and written by those that write one; b   *)
(* is the word of the other.                                               *)
(***************************************************************************)

ResultFlags(result, cf, of) ==
  [cf |-> cf, zf |-> result = 0, sf |-> Negative(result), of |-> of]

Overflows(n) == n < -Half \/ n >= Half

\* The instruction's last step.  A narrow register is a part of some register;
\* memory is none.
writeOperand(x, word) ==
  /\ \/ x.kind = "vreg" /\ regs' = [regs EXCEPT ![x.reg] = word]
     \/ /\ x.kind = "temp"
        /\ \E reg \in Regs, w \in Word : regs' = [regs EXCEPT ![reg] = w]
  /\ stale' = (x.kind = "vreg" /\ m_lhs' = x)

\* CMP and TEST write nothing.
writeNothing == UNCHANGED regs /\ stale' = FALSE

Sum(x, b) == Wrap(Value(x) + b)
SumFlags(x, b) ==
  ResultFlags(Sum(x, b), Value(x) + b >= 2 * Half,
              Overflows(Signed(Value(x)) + Signed(b)))

\* Of a word and b.
Difference(a, b) == Wrap(a - b)
DifferenceFlags(a, b) ==
  ResultFlags(Difference(a, b), a < b, Overflows(Signed(a) - Signed(b)))

Addition(x, b) ==
  /\ set("ADD", Temp(Sum(x, b)), x)
  /\ eflags' = SumFlags(x, b)
  /\ writeOperand(x, Sum(x, b))

\* Mutant of Subtraction: the record takes the destination for the result.
SubtractionMut(x, b) ==
  /\ set("SUB", x, x)
  /\ eflags' = DifferenceFlags(Value(x), b)
  /\ writeOperand(x, Difference(Value(x), b))

Subtraction(x, b) ==
  /\ set("SUB", Temp(Difference(Value(x), b)), x)
  /\ eflags' = DifferenceFlags(Value(x), b)
  /\ writeOperand(x, Difference(Value(x), b))

\* CMP is SUB without the write.
Compare(x, b) ==
  /\ set("SUB", Temp(Difference(Value(x), b)), x)
  /\ eflags' = DifferenceFlags(Value(x), b)
  /\ writeNothing

\* NEG is SUB from zero, which is recorded as an immediate.
Negation(x) ==
  /\ set("SUB", Temp(Difference(0, Value(x))), Temp(0))
  /\ eflags' = DifferenceFlags(0, Value(x))
  /\ writeOperand(x, Difference(0, Value(x)))

\* Mutant of Increment: the result is wider than the register.
IncrementMut(x) ==
  LET result == Value(x) + 1
  IN  /\ set("INC", Temp(result), x)
      /\ eflags' = ResultFlags(result, eflags.cf, Overflows(Signed(Value(x)) + 1))
      /\ writeOperand(x, result)

Increment(x) ==
  LET result == Wrap(Value(x) + 1)
  IN  /\ set("INC", Temp(result), x)
      /\ eflags' = ResultFlags(result, eflags.cf, Overflows(Signed(Value(x)) + 1))
      /\ writeOperand(x, result)

Decrement(x) ==
  LET result == Wrap(Value(x) - 1)
  IN  /\ set("DEC", Temp(result), x)
      /\ eflags' = ResultFlags(result, eflags.cf, Overflows(Signed(Value(x)) - 1))
      /\ writeOperand(x, result)

\* AND, OR and XOR write their result, TEST is AND without the write.
Bitwise(op, result, x) ==
  /\ set(op, Temp(result), x)
  /\ eflags' = ResultFlags(result, FALSE, FALSE)
  /\ writeOperand(x, result)

Test(result, x) ==
  /\ set("AND", Temp(result), x)
  /\ eflags' = ResultFlags(result, FALSE, FALSE)
  /\ writeNothing

\* A shift by zero leaves the processor's flags alone; by more, CF and OF
\* hold bits the record does not keep.
ShiftBy(result, x) ==
  /\ set("SHIFT", Temp(result), x)
  /\ \/ \E cf, of \in BOOLEAN : eflags' = ResultFlags(result, cf, of)
     \/ result = Value(x) /\ UNCHANGED eflags
  /\ writeOperand(x, result)

\* CF and OF say whether the product overflowed; ZF and SF are undefined.  The
\* destination is a register, which the form of three operands does not read;
\* the form of one writes two registers before it calls set().
Multiply(result, x) ==
  /\ set("IMUL", Temp(result), x)
  /\ \E f \in Flags : f.cf = f.of /\ eflags' = f
  /\ \/ \E reg \in Regs : writeOperand(VReg(reg), result)
     \/ x.kind = "temp" /\ writeOperand(x, result)
     \/ \E high \in Regs :
          /\ x.kind = "vreg" /\ high # x.reg
          /\ regs' = [regs EXCEPT ![x.reg] = result, ![high] = 0]
          /\ stale' = TRUE

\* MOV, MOVZX, MOVSX, LEA and NOT of a register, or of a part of it: neither
\* flags nor record change, what the record names may.
Move(reg, word) ==
  /\ regs' = [regs EXCEPT ![reg] = word]
  /\ stale' = (stale \/ m_lhs = VReg(reg))
  /\ UNCHANGED <<record, eflags>>

\* DIV and IDIV leave every flag undefined, a call returns with any flags; both
\* leave results in registers.
Forget ==
  /\ invalidate
  /\ eflags' \in Flags
  /\ regs' \in [Regs -> Word]
  /\ stale' = FALSE

Init ==
  /\ m_valid = FALSE
  /\ m_op = "ADD"
  /\ m_result = Temp(0)
  /\ m_lhs = Temp(0)
  /\ regs \in [Regs -> Word]
  /\ eflags \in Flags
  /\ stale = FALSE

Next ==
  \/ \E x \in IRValue, b \in Word : Addition(x, b) \/ Subtraction(x, b) \/ Compare(x, b)
  \/ \E x \in IRValue : Negation(x) \/ Increment(x) \/ Decrement(x)
  \/ \E x \in IRValue, result \in Word :
       \/ \E op \in Logic : Bitwise(op, result, x)
       \/ Test(result, x) \/ ShiftBy(result, x) \/ Multiply(result, x)
  \/ \E reg \in Regs, word \in Word : Move(reg, word)
  \/ Forget

Spec == Init /\ [][Next]_vars

(***************************************************************************)
(* Properties.                                                             *)
(***************************************************************************)

\* The record holds one of the operations and values that are words.
TypeOK ==
  /\ m_valid \in BOOLEAN
  /\ m_op \in FlagOp
  /\ m_result \in Temps
  /\ m_lhs \in IRValue
  /\ regs \in [Regs -> Word]
  /\ eflags \in Flags
  /\ stale \in BOOLEAN

\* The jumps on zero and sign, after an instruction that defines them, go the
\* way the processor's flags send them, whatever was written to the registers
\* since: the result is recorded as the temporary, never as the destination
\* (X86Lifter.cpp:915-918).
ResultJumpsExact ==
  m_valid /\ m_op \in {"ADD", "SUB", "INC", "DEC"} \cup Logic =>
    \A jcc \in {"JZ", "JNZ", "JS", "JNS"} : lifted(jcc) <=> taken(jcc)

\* The record's left operand is what it was when the flags were set.
Fresh == m_valid /\ ~stale

\* Flagstate.cpp:101-105 recovers the borrow from the result and the left
\* operand alone, line 92 the carry.  A jump on carry goes the way the
\* processor sends it: after ADD and SUB of memory or a narrow register and
\* after NEG; after CMP until the 64-bit register it compared is written; after
\* AND, OR, XOR and TEST whatever is written.
UnsignedJumpsExact ==
  \/ Fresh /\ m_op \in {"ADD", "SUB"}
  \/ m_valid /\ m_op \in Logic
  => \A jcc \in {"JB", "JNB", "JBE", "JNBE"} : lifted(jcc) <=> taken(jcc)

\* A jump on overflow or on a signed comparison goes the way the processor sends
\* it, at the word's extremes too (Flagstate.cpp:178-214): after INC or DEC of
\* memory or a narrow register, and after a bitwise instruction whatever is
\* written to the registers since.
SignedJumpsExact ==
  \/ Fresh /\ m_op \in {"INC", "DEC"}
  \/ m_valid /\ m_op \in Logic
  => \A jcc \in {"JO", "JNO", "JL", "JNL", "JLE", "JNLE"} : lifted(jcc) <=> taken(jcc)

\* Flagstate.cpp:303-305, "JL / JNGE:  jump if signed less-than  (SF != OF)",
\* "the canonical signed less-than condition on x86": the same after the
\* comparison these jumps are meant for.
SignedLessThan == Fresh /\ m_op = "SUB" => (lifted("JL") <=> taken("JL"))
=============================================================================
