--------------------------- MODULE FlagStateProofs ---------------------------
(***************************************************************************)
(* Where the lazy flags answer what the processor's would, for every word   *)
(* width and every set of registers.  Half of it is wrapping arithmetic: a  *)
(* sum is below its left operand exactly when it carried, a difference      *)
(* above it exactly when it borrowed.  The other half is what a write to a  *)
(* register does to the record: nothing to the result, and to the left      *)
(* operand nothing while stale is FALSE.                                   *)
(***************************************************************************)
EXTENDS FlagState, TLAPS

\* Wrapping once in either direction.
LEMMA WrapCases ==
  ASSUME NEW n \in -(2 * Half) .. 4 * Half - 1
  PROVE  /\ Wrap(n) \in Word
         /\ Wrap(n) = IF n < 0 THEN n + 2 * Half
                      ELSE IF n < 2 * Half THEN n ELSE n - 2 * Half
<1> DEFINE m == 2 * Half
<1>1. m \in Nat \ {0} /\ n \in Int /\ -m <= n /\ n < 2 * m /\ Half \in Nat \ {0}
  BY HalfAssumption
<1> HIDE DEF m
<1>2. n % m = IF n < 0 THEN n + m ELSE IF n < m THEN n ELSE n - m
  BY <1>1
<1>3. Wrap(n) = n % m
  BY DEF Wrap, m
<1> QED
  BY <1>1, <1>2, <1>3 DEF Word, m

\* A sum is below its left operand exactly when it carries.
LEMMA CarryOfSum ==
  ASSUME NEW a \in Word, NEW b \in Word
  PROVE  Wrap(a + b) < a <=> a + b >= 2 * Half
<1>1. a + b \in -(2 * Half) .. 4 * Half - 1 /\ a \in Nat /\ b \in Nat
      /\ a < 2 * Half /\ b < 2 * Half /\ Half \in Nat
  BY HalfAssumption DEF Word
<1> QED
  BY <1>1, WrapCases

\* A difference is above its left operand exactly when it borrows.
LEMMA BorrowOfDifference ==
  ASSUME NEW a \in Word, NEW b \in Word
  PROVE  Wrap(a - b) > a <=> a < b
<1>1. a - b \in -(2 * Half) .. 4 * Half - 1 /\ a \in Nat /\ b \in Nat
      /\ a < 2 * Half /\ b < 2 * Half /\ Half \in Nat
  BY HalfAssumption DEF Word
<1> QED
  BY <1>1, WrapCases

\* An increment overflows exactly from the largest positive word.
LEMMA OverflowOfIncrement ==
  ASSUME NEW a \in Word
  PROVE  Overflows(Signed(a) + 1) <=> ~Negative(a) /\ Negative(Wrap(a + 1))
<1>1. a + 1 \in -(2 * Half) .. 4 * Half - 1 /\ a \in Nat
      /\ a < 2 * Half /\ Half \in Nat \ {0}
  BY HalfAssumption DEF Word
<1> QED
  BY <1>1, WrapCases DEF Overflows, Signed, Negative

\* A decrement overflows exactly from the smallest negative word.
LEMMA OverflowOfDecrement ==
  ASSUME NEW a \in Word
  PROVE  Overflows(Signed(a) - 1) <=> Negative(a) /\ ~Negative(Wrap(a - 1))
<1>1. a - 1 \in -(2 * Half) .. 4 * Half - 1 /\ a \in Nat
      /\ a < 2 * Half /\ Half \in Nat \ {0}
  BY HalfAssumption DEF Word
<1> QED
  BY <1>1, WrapCases DEF Overflows, Signed, Negative

\* The result of an instruction that wraps is a word.
LEMMA WrapTypes ==
  ASSUME NEW a \in Word, NEW b \in Word
  PROVE  /\ Wrap(a + b) \in Word /\ Wrap(a - b) \in Word
         /\ Wrap(a + 1) \in Word /\ Wrap(a - 1) \in Word
<1>1. /\ a + b \in -(2 * Half) .. 4 * Half - 1
      /\ a - b \in -(2 * Half) .. 4 * Half - 1
      /\ a + 1 \in -(2 * Half) .. 4 * Half - 1
      /\ a - 1 \in -(2 * Half) .. 4 * Half - 1
  BY HalfAssumption DEF Word
<1> QED
  BY <1>1, WrapCases

\* The four flags of a result.
LEMMA ResultFlagsFields ==
  ASSUME NEW result \in Word, NEW cf \in BOOLEAN, NEW of \in BOOLEAN
  PROVE  /\ ResultFlags(result, cf, of) \in Flags
         /\ ResultFlags(result, cf, of).cf = cf
         /\ ResultFlags(result, cf, of).zf = (result = 0)
         /\ ResultFlags(result, cf, of).sf = Negative(result)
         /\ ResultFlags(result, cf, of).of = of
  BY DEF ResultFlags, Flags, Negative

\* What an operand is worth.
LEMMA ValueOfOperand ==
  /\ \A w \in Word : Temp(w) \in Temps /\ Temp(w) \in IRValue /\ Value(Temp(w)) = w
  /\ \A reg \in Regs : VReg(reg) \in IRValue /\ Value(VReg(reg)) = regs[reg]
  /\ TypeOK => \A x \in IRValue : Value(x) \in Word
<1>1. /\ \A w \in Word : Temp(w) \in Temps /\ Temp(w) \in IRValue
      /\ \A reg \in Regs : VReg(reg) \in IRValue
  BY DEF Temps, IRValue
<1>2. /\ \A w : Temp(w).kind = "temp" /\ Temp(w).word = w
      /\ \A reg : VReg(reg).kind = "vreg" /\ VReg(reg).reg = reg
  BY DEF Temp, VReg
<1>3. /\ \A w : Value(Temp(w)) = w
      /\ \A reg : Value(VReg(reg)) = regs[reg]
  BY <1>2 DEF Value
<1>4. ASSUME TypeOK, NEW x \in IRValue PROVE Value(x) \in Word
  <2>1. CASE \E reg \in Regs : x = VReg(reg)
    BY <1>3, <1>4, <2>1 DEF TypeOK
  <2>2. CASE \E w \in Word : x = Temp(w)
    BY <1>3, <2>2
  <2> QED
    BY <2>1, <2>2 DEF IRValue, Temps
<1> QED
  BY <1>1, <1>3, <1>4

\* Each flag the record can answer is the processor's; the carry and the
\* overflow of arithmetic as long as the left operand is what it was.
FlagsAgree ==
  m_valid =>
    /\ m_op \in {"ADD", "SUB", "INC", "DEC"} \cup Logic =>
         (emitZF <=> eflags.zf) /\ (emitSF <=> eflags.sf)
    /\ (~stale /\ m_op \in {"ADD", "SUB"}) \/ m_op \in Logic =>
         (emitCF <=> eflags.cf)
    /\ (~stale /\ m_op \in {"INC", "DEC"}) \/ m_op \in Logic =>
         (emitOF <=> eflags.of)

IInv == TypeOK /\ FlagsAgree

LEMMA InitInvariant == Init => IInv
<1>1. Temp(0) \in Temps /\ Temp(0) \in IRValue
  BY HalfAssumption, ValueOfOperand DEF Word
<1> QED
  BY <1>1 DEF Init, IInv, TypeOK, FlagsAgree, FlagOp

\* The write an instruction ends with changes what its own record says of the
\* left operand only when it says so.
LEMMA OperandWritten ==
  ASSUME TypeOK, NEW x \in IRValue, NEW word \in Word,
         writeOperand(x, word) \/ writeNothing
  PROVE  /\ regs' \in [Regs -> Word]
         /\ stale' \in BOOLEAN
         /\ m_lhs' = x /\ ~stale' => Lhs' = Value(x)
<1>1. CASE writeNothing
  BY <1>1 DEF writeNothing, Lhs, Value, TypeOK
<1>2. CASE writeOperand(x, word)
  <2>1. CASE \E reg \in Regs : x = VReg(reg)
    <3>1. PICK reg \in Regs : x = VReg(reg)
      BY <2>1
    <3>2. x.kind = "vreg" /\ x.reg = reg
      BY <3>1 DEF VReg
    <3>3. regs' = [regs EXCEPT ![reg] = word] /\ stale' = (m_lhs' = x)
      BY <1>2, <3>2 DEF writeOperand
    <3> QED
      BY <3>3 DEF TypeOK
  <2>2. CASE \E w \in Word : x = Temp(w)
    <3>1. x.kind = "temp"
      BY <2>2 DEF Temp
    <3>2. x.kind # "vreg"
      BY <3>1
    <3>3. regs' \in [Regs -> Word] /\ stale' \in BOOLEAN
      <4>1. \E reg \in Regs, w \in Word : regs' = [regs EXCEPT ![reg] = w]
        BY <1>2, <3>2 DEF writeOperand
      <4>2. PICK reg \in Regs, w \in Word : regs' = [regs EXCEPT ![reg] = w]
        BY <4>1
      <4>3. regs' \in [Regs -> Word]
        BY <4>2 DEF TypeOK
      <4>4. stale' \in BOOLEAN
        BY <1>2 DEF writeOperand
      <4> QED
        BY <4>3, <4>4
    <3>4. m_lhs' = x => Lhs' = Value(x)
      BY <3>1 DEF Lhs, Value
    <3> QED
      BY <3>3, <3>4
  <2> QED
    BY <2>1, <2>2 DEF IRValue, Temps
<1> QED
  BY <1>1, <1>2

\* What an instruction with these flags leaves behind.
LEMMA RecordTypes ==
  ASSUME TypeOK, NEW op \in FlagOp, NEW result \in Word, NEW x \in IRValue,
         set(op, Temp(result), x), eflags' \in Flags,
         regs' \in [Regs -> Word], stale' \in BOOLEAN
  PROVE  TypeOK' /\ Result' = result
<1>1. Temp(result) \in Temps
  BY ValueOfOperand
<1>2. Result' = result
  BY DEF set, Result, Value, Temp
<1> QED
  BY <1>1, <1>2 DEF TypeOK, set

\* An instruction whose carry or overflow the record recovers keeps the
\* invariant.
LEMMA InstructionInvariant ==
  ASSUME TypeOK, NEW op \in FlagOp, NEW result \in Word, NEW x \in IRValue,
         NEW cf \in BOOLEAN, NEW of \in BOOLEAN,
         set(op, Temp(result), x), eflags' = ResultFlags(result, cf, of),
         regs' \in [Regs -> Word], stale' \in BOOLEAN,
         ~stale' /\ op \in {"ADD", "SUB"} => (emitCF' <=> cf),
         ~stale' /\ op \in {"INC", "DEC"} => (emitOF' <=> of),
         op \in Logic => cf = FALSE /\ of = FALSE
  PROVE  IInv'
<1>1. /\ eflags' \in Flags
      /\ eflags'.cf = cf /\ eflags'.of = of
      /\ eflags'.zf = (result = 0) /\ eflags'.sf = Negative(result)
  BY ResultFlagsFields
<1>2. TypeOK' /\ Result' = result
  BY <1>1, RecordTypes
<1>3. m_op' = op
  BY DEF set
<1>4. (emitZF' <=> eflags'.zf) /\ (emitSF' <=> eflags'.sf)
  BY <1>1, <1>2 DEF emitZF, emitSF, Negative
<1>5. op \in Logic => (emitCF' <=> FALSE) /\ (emitOF' <=> FALSE)
  BY <1>3 DEF emitCF, emitOF, Logic
<1>6. FlagsAgree'
  <2>1. (~stale' /\ op \in {"ADD", "SUB"}) \/ op \in Logic => (emitCF' <=> eflags'.cf)
    BY <1>1, <1>5
  <2>2. (~stale' /\ op \in {"INC", "DEC"}) \/ op \in Logic => (emitOF' <=> eflags'.of)
    BY <1>1, <1>5
  <2> QED
    BY <1>3, <1>4, <2>1, <2>2 DEF FlagsAgree
<1> QED
  BY <1>2, <1>6 DEF IInv

\* The record of a sum or a difference answers the carry.
LEMMA CarryRecorded ==
  ASSUME TypeOK, NEW x \in IRValue, NEW b \in Word, ~stale', Lhs' = Value(x)
  PROVE  /\ set("ADD", Temp(Sum(x, b)), x) =>
              (emitCF' <=> Value(x) + b >= 2 * Half)
         /\ set("SUB", Temp(Difference(Value(x), b)), x) =>
              (emitCF' <=> Value(x) < b)
<1>1. Value(x) \in Word
  BY ValueOfOperand
<1>2. ASSUME set("ADD", Temp(Sum(x, b)), x)
      PROVE  emitCF' <=> Value(x) + b >= 2 * Half
  <2>1. m_op' = "ADD" /\ Result' = Wrap(Value(x) + b)
    BY <1>2 DEF set, Result, Value, Temp, Sum
  <2>2. emitCF' <=> Wrap(Value(x) + b) < Value(x)
    BY <2>1 DEF emitCF
  <2> QED
    BY <1>1, <2>2, CarryOfSum
<1>3. ASSUME set("SUB", Temp(Difference(Value(x), b)), x)
      PROVE  emitCF' <=> Value(x) < b
  <2>1. m_op' = "SUB" /\ Result' = Wrap(Value(x) - b)
    BY <1>3 DEF set, Result, Value, Temp, Difference
  <2>2. emitCF' <=> Wrap(Value(x) - b) > Value(x)
    BY <2>1 DEF emitCF
  <2> QED
    BY <1>1, <2>2, BorrowOfDifference
<1> QED
  BY <1>2, <1>3

LEMMA NextInvariant == IInv /\ [Next]_vars => IInv'
<1> SUFFICES ASSUME IInv, [Next]_vars PROVE IInv'
  OBVIOUS
<1>0. TypeOK /\ \A y \in IRValue : Value(y) \in Word
  BY ValueOfOperand DEF IInv
<1>1. ASSUME NEW x \in IRValue, NEW b \in Word, Addition(x, b) PROVE IInv'
  <2> DEFINE cf == Value(x) + b >= 2 * Half
             of == Overflows(Signed(Value(x)) + Signed(b))
  <2>1. Sum(x, b) \in Word /\ cf \in BOOLEAN /\ of \in BOOLEAN
    <3>1. Sum(x, b) \in Word
      BY <1>0, WrapTypes DEF Sum
    <3> QED
      BY <3>1 DEF Overflows
  <2>2. /\ set("ADD", Temp(Sum(x, b)), x)
        /\ eflags' = ResultFlags(Sum(x, b), cf, of)
        /\ writeOperand(x, Sum(x, b)) /\ m_lhs' = x
    BY <1>1 DEF Addition, SumFlags, set
  <2>3. regs' \in [Regs -> Word] /\ stale' \in BOOLEAN /\ (~stale' => Lhs' = Value(x))
    BY <1>0, <2>1, <2>2, OperandWritten
  <2>4. ~stale' => (emitCF' <=> cf)
    BY <1>0, <2>2, <2>3, CarryRecorded
  <2> HIDE DEF cf, of
  <2> QED
    BY <1>0, <2>1, <2>2, <2>3, <2>4, InstructionInvariant DEF FlagOp, Logic
<1>2. ASSUME NEW x \in IRValue, NEW b \in Word, Subtraction(x, b) \/ Compare(x, b)
      PROVE  IInv'
  <2> DEFINE cf == Value(x) < b
             of == Overflows(Signed(Value(x)) - Signed(b))
             res == Difference(Value(x), b)
  <2>1. res \in Word /\ cf \in BOOLEAN /\ of \in BOOLEAN
    <3>1. res \in Word
      BY <1>0, WrapTypes DEF Difference
    <3> QED
      BY <3>1 DEF Overflows
  <2>2. /\ set("SUB", Temp(res), x)
        /\ eflags' = ResultFlags(res, cf, of)
        /\ writeOperand(x, res) \/ writeNothing
        /\ m_lhs' = x
    BY <1>2 DEF Subtraction, Compare, DifferenceFlags, set
  <2>3. regs' \in [Regs -> Word] /\ stale' \in BOOLEAN /\ (~stale' => Lhs' = Value(x))
    BY <1>0, <2>1, <2>2, OperandWritten
  <2>4. ~stale' => (emitCF' <=> cf)
    BY <1>0, <2>2, <2>3, CarryRecorded
  <2> HIDE DEF cf, of, res
  <2> QED
    BY <1>0, <2>1, <2>2, <2>3, <2>4, InstructionInvariant DEF FlagOp, Logic
<1>3. ASSUME NEW x \in IRValue, Negation(x) PROVE IInv'
  <2> DEFINE b == Value(x)
             cf == 0 < b
             of == Overflows(Signed(0) - Signed(b))
             res == Difference(0, b)
  <2>1. /\ 0 \in Word /\ b \in Word
        /\ Temp(0) \in IRValue /\ Value(Temp(0)) = 0 /\ Temp(0).kind = "temp"
    BY <1>0, ValueOfOperand, HalfAssumption DEF Word, Temp
  <2>2. res \in Word /\ cf \in BOOLEAN /\ of \in BOOLEAN
    <3>1. res \in Word
      BY <2>1, WrapTypes DEF Difference
    <3> QED
      BY <3>1 DEF Overflows
  <2>3. /\ set("SUB", Temp(res), Temp(0))
        /\ eflags' = ResultFlags(res, cf, of)
        /\ writeOperand(x, res) /\ m_lhs' = Temp(0)
    BY <1>3 DEF Negation, DifferenceFlags, set
  <2>4. regs' \in [Regs -> Word] /\ stale' \in BOOLEAN
    BY <1>0, <2>2, <2>3, OperandWritten
  <2>5. Lhs' = Value(Temp(0))
    BY <2>3 DEF Lhs, Value, Temp
  <2> HIDE DEF b
  <2>6. ~stale' => (emitCF' <=> cf)
    BY <1>0, <2>1, <2>3, <2>5, CarryRecorded
  <2> HIDE DEF cf, of, res
  <2> QED
    BY <1>0, <2>1, <2>2, <2>3, <2>4, <2>6, InstructionInvariant DEF FlagOp, Logic
<1>4. ASSUME NEW x \in IRValue, Increment(x) PROVE IInv'
  <2> DEFINE a == Value(x)
             of == Overflows(Signed(a) + 1)
             res == Wrap(a + 1)
  <2>1. /\ a \in Word /\ res \in Word
        /\ eflags.cf \in BOOLEAN /\ of \in BOOLEAN
    BY <1>0, WrapTypes DEF Overflows, TypeOK, Flags
  <2>2. /\ set("INC", Temp(res), x)
        /\ eflags' = ResultFlags(res, eflags.cf, of)
        /\ writeOperand(x, res) /\ m_lhs' = x
    BY <1>4 DEF Increment, set
  <2>3. regs' \in [Regs -> Word] /\ stale' \in BOOLEAN /\ (~stale' => Lhs' = Value(x))
    BY <1>0, <2>1, <2>2, OperandWritten
  <2>4. m_op' = "INC" /\ Result' = res
    BY <2>2 DEF set, Result, Value, Temp
  <2>5. ~stale' => (emitOF' <=> ~Negative(a) /\ Negative(res))
    BY <2>3, <2>4 DEF emitOF, PositiveOverflow, Negative
  <2>6. ~stale' => (emitOF' <=> of)
    BY <2>1, <2>5, OverflowOfIncrement
  <2> HIDE DEF a, of, res
  <2> QED
    BY <1>0, <2>1, <2>2, <2>3, <2>6, InstructionInvariant DEF FlagOp, Logic
<1>5. ASSUME NEW x \in IRValue, Decrement(x) PROVE IInv'
  <2> DEFINE a == Value(x)
             of == Overflows(Signed(a) - 1)
             res == Wrap(a - 1)
  <2>1. /\ a \in Word /\ res \in Word
        /\ eflags.cf \in BOOLEAN /\ of \in BOOLEAN
    BY <1>0, WrapTypes DEF Overflows, TypeOK, Flags
  <2>2. /\ set("DEC", Temp(res), x)
        /\ eflags' = ResultFlags(res, eflags.cf, of)
        /\ writeOperand(x, res) /\ m_lhs' = x
    BY <1>5 DEF Decrement, set
  <2>3. regs' \in [Regs -> Word] /\ stale' \in BOOLEAN /\ (~stale' => Lhs' = Value(x))
    BY <1>0, <2>1, <2>2, OperandWritten
  <2>4. m_op' = "DEC" /\ Result' = res
    BY <2>2 DEF set, Result, Value, Temp
  <2>5. ~stale' => (emitOF' <=> Negative(a) /\ ~Negative(res))
    BY <2>3, <2>4 DEF emitOF, NegativeOverflow, Negative
  <2>6. ~stale' => (emitOF' <=> of)
    BY <2>1, <2>5, OverflowOfDecrement
  <2> HIDE DEF a, of, res
  <2> QED
    BY <1>0, <2>1, <2>2, <2>3, <2>6, InstructionInvariant DEF FlagOp, Logic
<1>6. ASSUME NEW op \in Logic, NEW x \in IRValue, NEW result \in Word,
             Bitwise(op, result, x) \/ (op = "AND" /\ Test(result, x))
      PROVE  IInv'
  <2>1. /\ set(op, Temp(result), x)
        /\ eflags' = ResultFlags(result, FALSE, FALSE)
        /\ writeOperand(x, result) \/ writeNothing
    BY <1>6 DEF Bitwise, Test
  <2>2. regs' \in [Regs -> Word] /\ stale' \in BOOLEAN
    BY <1>0, <2>1, OperandWritten
  <2>3. op \in FlagOp /\ op \notin {"ADD", "SUB", "INC", "DEC"}
    BY DEF FlagOp, Logic
  <2> QED
    BY <1>0, <2>1, <2>2, <2>3, InstructionInvariant
<1>7. ASSUME NEW x \in IRValue, NEW result \in Word, ShiftBy(result, x)
      PROVE  IInv'
  <2>1. set("SHIFT", Temp(result), x) /\ writeOperand(x, result)
    BY <1>7 DEF ShiftBy
  <2>2. eflags' \in Flags
    BY <1>0, <1>7, ResultFlagsFields DEF ShiftBy, TypeOK
  <2>3. regs' \in [Regs -> Word] /\ stale' \in BOOLEAN
    BY <1>0, <2>1, OperandWritten
  <2>4. TypeOK'
    BY <1>0, <2>1, <2>2, <2>3, RecordTypes DEF FlagOp
  <2> QED
    BY <2>1, <2>4 DEF IInv, FlagsAgree, set, Logic
<1>8. ASSUME NEW x \in IRValue, NEW result \in Word, Multiply(result, x)
      PROVE  IInv'
  <2>1. set("IMUL", Temp(result), x) /\ eflags' \in Flags
    BY <1>8 DEF Multiply
  <2>2. regs' \in [Regs -> Word] /\ stale' \in BOOLEAN
    <3>1. CASE \E y \in IRValue : writeOperand(y, result)
      BY <1>0, <3>1, OperandWritten
    <3>2. CASE \E high \in Regs :
                 /\ x.kind = "vreg" /\ high # x.reg
                 /\ regs' = [regs EXCEPT ![x.reg] = result, ![high] = 0]
                 /\ stale' = TRUE
      BY <1>0, <3>2, HalfAssumption DEF TypeOK, Word
    <3> QED
      BY <1>8, <3>1, <3>2, ValueOfOperand DEF Multiply
  <2>3. TypeOK'
    BY <1>0, <2>1, <2>2, RecordTypes DEF FlagOp
  <2> QED
    BY <2>1, <2>3 DEF IInv, FlagsAgree, set, Logic
<1>9. ASSUME NEW reg \in Regs, NEW word \in Word, Move(reg, word) PROVE IInv'
  <2>1. TypeOK'
    BY <1>0, <1>9 DEF Move, TypeOK, record
  <2>2. Result' = Result
    <3>1. m_result.kind = "temp" /\ m_result' = m_result
      BY <1>0, <1>9 DEF TypeOK, Temps, Temp, Move, record
    <3> QED
      BY <3>1 DEF Result, Value
  <2>3. ~stale' => ~stale /\ Lhs' = Lhs
    <3>1. CASE m_lhs.kind = "temp"
      BY <1>9, <3>1 DEF Move, record, Lhs, Value
    <3>2. CASE m_lhs \in {VReg(r) : r \in Regs}
      <4>1. PICK r \in Regs : m_lhs = VReg(r)
        BY <3>2
      <4>2. m_lhs.kind = "vreg" /\ m_lhs.reg = r /\ m_lhs' = m_lhs
        BY <1>9, <4>1 DEF VReg, Move, record
      <4>3. ~stale' => ~stale /\ r # reg
        BY <1>9, <4>1 DEF Move
      <4>4. r # reg => regs'[r] = regs[r]
        BY <1>0, <1>9 DEF Move, TypeOK
      <4> QED
        BY <4>2, <4>3, <4>4 DEF Lhs, Value
    <3>3. m_lhs.kind = "temp" \/ m_lhs \in {VReg(r) : r \in Regs}
      BY <1>0 DEF TypeOK, IRValue, Temps, Temp
    <3>4. ~stale' => ~stale
      BY <1>9 DEF Move
    <3> QED
      BY <3>1, <3>2, <3>3, <3>4
  <2>4. m_valid' = m_valid /\ m_op' = m_op /\ eflags' = eflags
    BY <1>9 DEF Move, record
  <2>5. (emitZF' <=> emitZF) /\ (emitSF' <=> emitSF)
    BY <2>2 DEF emitZF, emitSF, Negative
  <2>6. ~stale' \/ m_op \in Logic => (emitCF' <=> emitCF) /\ (emitOF' <=> emitOF)
    BY <2>2, <2>3, <2>4 DEF emitCF, emitOF, PositiveOverflow, NegativeOverflow,
                            Negative, Logic
  <2> QED
    BY <2>1, <2>3, <2>4, <2>5, <2>6 DEF IInv, FlagsAgree
<1>10. CASE Forget
  BY <1>0, <1>10 DEF Forget, invalidate, IInv, TypeOK, FlagsAgree
<1>11. CASE UNCHANGED vars
  BY <1>11 DEF vars, record, IInv, TypeOK, FlagsAgree, emitZF, emitSF, emitCF, emitOF,
               PositiveOverflow, NegativeOverflow, Result, Lhs, Value
<1>12. CASE Next
  <2>1. "AND" \in Logic
    BY DEF Logic
  <2> QED
    BY <1>12, <2>1, <1>1, <1>2, <1>3, <1>4, <1>5, <1>6, <1>7, <1>8, <1>9, <1>10 DEF Next
<1> QED
  BY <1>11, <1>12

THEOREM Invariant == Spec => []IInv
  BY InitInvariant, NextInvariant, PTL DEF Spec

\* Flagstate.cpp's record stays well formed, for every word width and register
\* set: one of the operations, with values that are words.
THEOREM TypeCorrect == Spec => []TypeOK
<1>1. IInv => TypeOK
  BY DEF IInv
<1> QED
  BY <1>1, Invariant, PTL

\* Jumps on zero and sign are exact whatever was written since, for every word
\* width: the result set() is given is a temporary of its own.
THEOREM ResultJumps_Exact == Spec => []ResultJumpsExact
<1>1. IInv => ResultJumpsExact
  BY DEF IInv, FlagsAgree, ResultJumpsExact, lifted, materialise,
         flagRequestForJcc, taken
<1> QED
  BY <1>1, Invariant, PTL

\* Jumps on carry are exact for every word width, after ADD and SUB while the
\* left operand's register is unwritten and after a bitwise instruction always.
THEOREM UnsignedJumps_Exact == Spec => []UnsignedJumpsExact
<1>1. IInv => UnsignedJumpsExact
  BY DEF IInv, FlagsAgree, Fresh, UnsignedJumpsExact, lifted, materialise,
         flagRequestForJcc, taken
<1> QED
  BY <1>1, Invariant, PTL

\* Jumps on overflow and on signed order are exact for every word width, after
\* INC and DEC while the operand's register is unwritten (so for memory and
\* narrow registers) and after a bitwise instruction always.
THEOREM SignedJumps_Exact == Spec => []SignedJumpsExact
<1>1. IInv => SignedJumpsExact
  BY DEF IInv, FlagsAgree, Fresh, SignedJumpsExact, lifted, materialise,
         flagRequestForJcc, taken
<1> QED
  BY <1>1, Invariant, PTL
=============================================================================
