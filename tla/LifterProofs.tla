---------------------------- MODULE LifterProofs ----------------------------
(***************************************************************************)
(* Whatever instructions come, in whatever number: no IR is pushed after a  *)
(* terminator, no instruction names a virtual register that has not been    *)
(* handed out, and a temporary is defined once and before it is used.       *)
(* Every helper of the lifter keeps Good of the function, raises its        *)
(* counter and forgets no definition (Grown); one lemma for each, in the    *)
(* order of Lifter.                                                         *)
(***************************************************************************)
EXTENDS Lifter, SequenceTheorems, TLAPS

\* A value whose id a function whose counter is n has handed out.
IdOK(v, n) == v.kind = "vreg" => v.id \in 0 .. n - 1

Def(c, id) == \E j \in 1 .. Len(c.pushed) : id \in c.pushed[j].dst

\* A value c may use: a temporary is defined, but for one whose definition a
\* terminated block refused, as it will refuse every use.
ValOK(v, c) ==
  v.kind = "vreg" =>
    /\ v.id \in 0 .. c.next - 1
    /\ v.id \in Reserved \/ Def(c, v.id) \/ isTerminated(c.insts)

\* An instruction c may push: what it defines is new or a register, what it
\* uses is defined, or the flag record's.
InstOK(inst, c) ==
  /\ inst.dst \subseteq 0 .. c.next - 1
  /\ inst.dst \ Reserved # {} => \A j \in 1 .. Len(c.pushed) : c.pushed[j].dst # inst.dst
  /\ \A k \in 1 .. Len(inst.operands) :
       /\ IdOK(inst.operands[k], c.next)
       /\ inst.opcode # "FLAGS" => ValOK(inst.operands[k], c)

\* The same of the k-th instruction of pushed.
IdsOK(inst, n) ==
  /\ inst.dst \subseteq 0 .. n - 1
  /\ \A k \in 1 .. Len(inst.operands) : IdOK(inst.operands[k], n)

DefsOK(pushed, k) ==
  LET inst == pushed[k]
  IN  /\ inst.dst \ Reserved # {} => \A j \in 1 .. k - 1 : pushed[j].dst # inst.dst
      /\ inst.opcode # "FLAGS" =>
           \A m \in 1 .. Len(inst.operands) :
             inst.operands[m].kind = "vreg" =>
               \/ inst.operands[m].id \in Reserved
               \/ \E j \in 1 .. k - 1 : inst.operands[m].id \in pushed[j].dst

Good(c) ==
  /\ \E S : c \in [insts : Seq(S), pushed : Seq(S), next : Nat, thrown : BOOLEAN]
  /\ c.next >= FirstTemp
  /\ \A k \in 1 .. Len(c.pushed) : IdsOK(c.pushed[k], c.next) /\ DefsOK(c.pushed, k)
  /\ \A k \in 1 .. Len(c.insts) - 1 : c.insts[k].opcode \notin Terminators

\* A function that came of c, and a value together with one.
Grown(d, c) ==
  /\ Good(d)
  /\ d.next >= c.next
  /\ \A id : Def(c, id) => Def(d, id)
  /\ isTerminated(c.insts) => isTerminated(d.insts)
ReadOK(r, c) == Grown(r.c, c) /\ ValOK(r.v, r.c)

FlagsOK(f, n) ==
  /\ f.valid \in BOOLEAN
  /\ f.valid => IdOK(f.result, n) /\ IdOK(f.lhs, n) /\ IdOK(f.rhs, n)

LEMMA NextNat == ASSUME NEW c, Good(c) PROVE c.next \in Nat /\ c.next >= 20
BY DEF Good, FirstTemp

LEMMA GrownRefl == ASSUME NEW c, Good(c) PROVE Grown(c, c)
BY NextNat DEF Grown

LEMMA GrownTrans ==
  ASSUME NEW c, NEW d, NEW e, Good(c), Grown(d, c), Grown(e, d) PROVE Grown(e, c)
BY NextNat DEF Grown

LEMMA IdKept ==
  ASSUME NEW c, NEW d, NEW v, Good(c), Grown(d, c), IdOK(v, c.next)
  PROVE  IdOK(v, d.next)
BY NextNat DEF Grown, IdOK

LEMMA ValKept ==
  ASSUME NEW c, NEW d, NEW v, Good(c), Grown(d, c), ValOK(v, c)
  PROVE  ValOK(v, d)
BY NextNat DEF Grown, ValOK

LEMMA ValId == ASSUME NEW c, NEW v, ValOK(v, c) PROVE IdOK(v, c.next)
BY DEF ValOK, IdOK

LEMMA ImmOK == ASSUME NEW x, NEW ty, NEW c PROVE ValOK(Imm(x, ty), c)
BY DEF ValOK, Imm

LEMMA ImmIdOK == ASSUME NEW x, NEW ty, NEW n PROVE IdOK(Imm(x, ty), n)
BY DEF IdOK, Imm

LEMMA GlobalOK == ASSUME NEW name, NEW c PROVE ValOK(Global(name), c)
BY DEF ValOK, Global

LEMMA AppendSeq ==
  ASSUME NEW S, NEW s \in Seq(S), NEW e
  PROVE  /\ Append(s, e) \in Seq(S \cup {e})
         /\ Len(Append(s, e)) = Len(s) + 1
         /\ \A k \in 1 .. Len(s) : Append(s, e)[k] = s[k]
         /\ Append(s, e)[Len(s) + 1] = e
<1>1. s \in Seq(S \cup {e})
  BY SeqDef
<1> QED
  BY <1>1, AppendProperties

\* pushInst keeps terminators last, and pushes what may be pushed.
LEMMA PushGood ==
  ASSUME NEW c, NEW where, NEW inst, Good(c), InstOK(inst, c)
  PROVE  /\ Grown(pushInst(c, where, inst), c)
         /\ pushInst(c, where, inst).next = c.next
         /\ \/ isTerminated(pushInst(c, where, inst).insts)
            \/ \A id \in inst.dst : Def(pushInst(c, where, inst), id)
<1> DEFINE d == pushInst(c, where, inst)
<1>1. PICK S : c \in [insts : Seq(S), pushed : Seq(S), next : Nat, thrown : BOOLEAN]
  BY DEF Good
<1>2. CASE isTerminated(c.insts)
  <2>1. d = [c EXCEPT !.thrown = TRUE]
    BY <1>2 DEF pushInst
  <2>2. /\ d \in [insts : Seq(S), pushed : Seq(S), next : Nat, thrown : BOOLEAN]
        /\ d.next = c.next /\ d.pushed = c.pushed /\ d.insts = c.insts
    BY <1>1, <2>1
  <2> HIDE DEF d
  <2>3. Good(d)
    BY <2>2 DEF Good
  <2>4. Grown(d, c)
    BY <2>2, <2>3, NextNat DEF Grown, Def
  <2> QED
    BY <1>2, <2>2, <2>4 DEF d
<1>3. CASE ~isTerminated(c.insts)
  <2>1. /\ d.pushed = Append(c.pushed, inst)
        /\ d.insts = IF where = "block" THEN Append(c.insts, inst) ELSE c.insts
        /\ d.next = c.next
        /\ d.thrown = c.thrown
    BY <1>1, <1>3 DEF pushInst, Pushed
  <2>2. d \in [insts : Seq(S \cup {inst}), pushed : Seq(S \cup {inst}), next : Nat, thrown : BOOLEAN]
    <3>1. c.insts \in Seq(S \cup {inst})
      BY <1>1, SeqDef
    <3>2. d = [insts |-> d.insts, pushed |-> d.pushed, next |-> d.next, thrown |-> d.thrown]
      BY <1>1, <1>3 DEF pushInst, Pushed
    <3>3. d.pushed \in Seq(S \cup {inst}) /\ d.insts \in Seq(S \cup {inst})
      BY <1>1, <2>1, <3>1, AppendSeq
    <3>4. d.next \in Nat /\ d.thrown \in BOOLEAN
      BY <1>1, <2>1
    <3> HIDE DEF d
    <3> QED
      BY <3>2, <3>3, <3>4
  <2>3. /\ Len(c.pushed) \in Nat
        /\ Len(d.pushed) = Len(c.pushed) + 1
        /\ \A k \in 1 .. Len(c.pushed) : d.pushed[k] = c.pushed[k]
        /\ d.pushed[Len(c.pushed) + 1] = inst
    BY <1>1, <2>1, AppendSeq
  <2>4. \A k \in 1 .. Len(d.insts) - 1 : d.insts[k].opcode \notin Terminators
    <3>1. c.insts # <<>> => c.insts[Len(c.insts)].opcode \notin Terminators
      BY <1>3 DEF isTerminated
    <3>2. \A k \in 1 .. Len(c.insts) : c.insts[k].opcode \notin Terminators
      BY <1>1, <3>1 DEF Good
    <3>3. CASE where = "block"
      BY <1>1, <2>1, <3>2, <3>3, AppendSeq
    <3>4. CASE where # "block"
      BY <2>1, <3>4 DEF Good
    <3> QED
      BY <3>3, <3>4
  <2> HIDE DEF d
  <2>5. ASSUME NEW k \in 1 .. Len(d.pushed)
        PROVE  IdsOK(d.pushed[k], d.next) /\ DefsOK(d.pushed, k)
    <3>1. CASE k \in 1 .. Len(c.pushed)
      <4>1. \A j \in 1 .. k : d.pushed[j] = c.pushed[j]
        BY <2>3, <3>1
      <4>2. IdsOK(c.pushed[k], c.next) /\ DefsOK(c.pushed, k)
        BY <3>1 DEF Good
      <4>3. DefsOK(d.pushed, k)
        <5>1. k \in 1 .. k /\ \A j \in 1 .. k - 1 : j \in 1 .. k
          BY <2>3, <3>1
        <5> QED
          BY <4>1, <4>2, <5>1 DEF DefsOK
      <4> QED
        BY <2>1, <2>3, <3>1, <4>2, <4>3
    <3>2. CASE k = Len(c.pushed) + 1
      <4>1. IdsOK(inst, c.next)
        BY DEF InstOK, IdsOK
      <4>2. \A j \in 1 .. k - 1 : j \in 1 .. Len(c.pushed) /\ d.pushed[j] = c.pushed[j]
        BY <2>3, <3>2
      <4>3. ASSUME inst.dst \ Reserved # {}, NEW j \in 1 .. k - 1 PROVE d.pushed[j].dst # inst.dst
        BY <4>2, <4>3 DEF InstOK
      <4>4. ASSUME inst.opcode # "FLAGS", NEW m \in 1 .. Len(inst.operands),
                   inst.operands[m].kind = "vreg", inst.operands[m].id \notin Reserved
            PROVE  \E j \in 1 .. k - 1 : inst.operands[m].id \in d.pushed[j].dst
        <5>1. Def(c, inst.operands[m].id)
          BY <1>3, <4>4 DEF InstOK, ValOK
        <5>2. PICK j \in 1 .. Len(c.pushed) : inst.operands[m].id \in c.pushed[j].dst
          BY <5>1 DEF Def
        <5>3. j \in 1 .. k - 1
          BY <2>3, <3>2
        <5> QED
          BY <2>3, <5>2, <5>3
      <4>5. d.pushed[k] = inst
        BY <2>3, <3>2
      <4>6. DefsOK(d.pushed, k)
        BY <4>3, <4>4, <4>5 DEF DefsOK
      <4> QED
        BY <2>1, <4>1, <4>5, <4>6
    <3>3. k \in 1 .. Len(c.pushed) \/ k = Len(c.pushed) + 1
      BY <2>3
    <3> QED
      BY <3>1, <3>2, <3>3
  <2>6. Good(d)
    BY <2>1, <2>2, <2>4, <2>5 DEF Good
  <2>7. ASSUME NEW id, Def(c, id) PROVE Def(d, id)
    <3>1. PICK j \in 1 .. Len(c.pushed) : id \in c.pushed[j].dst
      BY <2>7 DEF Def
    <3>2. j \in 1 .. Len(d.pushed) /\ d.pushed[j] = c.pushed[j]
      BY <2>3
    <3> QED
      BY <3>1, <3>2 DEF Def
  <2>8. \A id \in inst.dst : Def(d, id)
    <3>1. Len(c.pushed) + 1 \in 1 .. Len(d.pushed)
      BY <2>3
    <3> QED
      BY <2>3, <3>1 DEF Def
  <2>9. Grown(d, c)
    BY <1>3, <2>1, <2>6, <2>7, NextNat DEF Grown
  <2> QED
    BY <2>1, <2>8, <2>9 DEF d
<1> QED
  BY <1>2, <1>3

LEMMA PushGrown ==
  ASSUME NEW c, NEW where, NEW inst, Good(c), InstOK(inst, c)
  PROVE  Grown(pushInst(c, where, inst), c)
BY PushGood

LEMMA AllocGood ==
  ASSUME NEW c, Good(c)
  PROVE  /\ Grown(allocVreg(c), c) /\ allocVreg(c).next = c.next + 1
         /\ allocVreg(c).pushed = c.pushed
<1> DEFINE d == allocVreg(c)
<1>1. PICK S : c \in [insts : Seq(S), pushed : Seq(S), next : Nat, thrown : BOOLEAN]
  BY DEF Good
<1>2. /\ d \in [insts : Seq(S), pushed : Seq(S), next : Nat, thrown : BOOLEAN]
      /\ d.next = c.next + 1 /\ d.pushed = c.pushed /\ d.insts = c.insts
  BY <1>1 DEF allocVreg
<1>3. \A k \in 1 .. Len(d.pushed) : IdsOK(d.pushed[k], d.next) /\ DefsOK(d.pushed, k)
  BY <1>1, <1>2 DEF Good, IdsOK, IdOK
<1> HIDE DEF d
<1>4. Good(d)
  BY <1>1, <1>2, <1>3 DEF Good, FirstTemp
<1>5. Grown(d, c)
  BY <1>1, <1>2, <1>4 DEF Grown, Def
<1> QED
  BY <1>2, <1>5 DEF d

\* A new temporary is above all others and may be used from then on.
LEMMA MakeGood ==
  ASSUME NEW c, NEW where, NEW opcode, NEW ty, NEW operands, Good(c),
         \A k \in 1 .. Len(operands) :
           IdOK(operands[k], c.next) /\ (opcode # "FLAGS" => ValOK(operands[k], c))
  PROVE  ReadOK(Into(c, where, opcode, ty, operands), c)
<1> DEFINE a == allocVreg(c)
           inst == Inst(opcode, {c.next}, ty, operands)
           d == pushInst(a, where, inst)
<1>1. Grown(a, c) /\ a.next = c.next + 1 /\ a.pushed = c.pushed /\ c.next \in Nat
  BY AllocGood, NextNat
<1> HIDE DEF a
<1>2. InstOK(inst, a)
  <2>1. inst.dst = {c.next} /\ inst.opcode = opcode /\ inst.operands = operands
    BY DEF Inst
  <2> HIDE DEF inst
  <2>2. inst.dst \subseteq 0 .. a.next - 1
    BY <1>1, <2>1
  <2>3. ASSUME NEW j \in 1 .. Len(a.pushed) PROVE a.pushed[j].dst # inst.dst
    <3>1. c.pushed[j].dst \subseteq 0 .. c.next - 1
      BY <1>1 DEF Good, IdsOK
    <3>2. c.next \notin 0 .. c.next - 1
      BY <1>1
    <3> QED
      BY <1>1, <2>1, <3>1, <3>2
  <2>4. ASSUME NEW k \in 1 .. Len(operands)
        PROVE  IdOK(operands[k], a.next) /\ (opcode # "FLAGS" => ValOK(operands[k], a))
    BY <1>1, IdKept, ValKept
  <2> QED
    BY <2>1, <2>2, <2>3, <2>4 DEF InstOK
<1>3. inst.dst = {c.next}
  BY DEF Inst
<1> HIDE DEF inst
<1>4. Grown(d, a) /\ d.next = a.next /\ (isTerminated(d.insts) \/ Def(d, c.next))
  BY <1>1, <1>2, <1>3, PushGood DEF Grown
<1>5. Into(c, where, opcode, ty, operands) = [c |-> d, v |-> VReg(c.next, ty)]
  BY DEF Into, a, inst
<1> HIDE DEF d
<1>6. Grown(d, c)
  BY <1>1, <1>4, GrownTrans
<1>7. ValOK(VReg(c.next, ty), d)
  BY <1>1, <1>4 DEF ValOK, VReg
<1> QED
  BY <1>5, <1>6, <1>7 DEF ReadOK

LEMMA IntoGood ==
  ASSUME NEW c, NEW where, NEW opcode, NEW ty, NEW operands, Good(c),
         \A k \in 1 .. Len(operands) : ValOK(operands[k], c)
  PROVE  ReadOK(Into(c, where, opcode, ty, operands), c)
BY ValId, MakeGood

LEMMA Into1 ==
  ASSUME NEW c, NEW where, NEW opcode, NEW ty, NEW x, Good(c), ValOK(x, c)
  PROVE  ReadOK(Into(c, where, opcode, ty, <<x>>), c)
BY IntoGood

LEMMA Into2 ==
  ASSUME NEW c, NEW where, NEW opcode, NEW ty, NEW x, NEW y, Good(c),
         ValOK(x, c), ValOK(y, c)
  PROVE  ReadOK(Into(c, where, opcode, ty, <<x, y>>), c)
<1>1. \A k \in 1 .. Len(<<x, y>>) : ValOK(<<x, y>>[k], c)
  OBVIOUS
<1> QED
  BY <1>1, IntoGood

(***************************************************************************)
(* Registers and operands.                                                 *)
(***************************************************************************)

LEMMA GprOK == ASSUME NEW reg, gprVRegIds(reg) # {}, NEW c, Good(c)
  PROVE  gprVReg(reg).id \in 0 .. 15 /\ ValOK(gprVReg(reg), c)
<1>1. \A id \in gprVRegIds(reg) : id \in 0 .. 15
  BY DEF gprVRegIds
<1>2. (CHOOSE id \in gprVRegIds(reg) : TRUE) \in gprVRegIds(reg)
  OBVIOUS
<1>3. gprVReg(reg).id = CHOOSE id \in gprVRegIds(reg) : TRUE
  BY DEF gprVReg, VReg
<1>4. gprVReg(reg).id \in 0 .. 15
  BY <1>1, <1>2, <1>3
<1> QED
  BY <1>4, NextNat DEF ValOK, Reserved

LEMMA RaxOK == gprVRegIds(RAX) # {}
<1>1. 0 \in gprVRegIds(RAX)
  BY DEF gprVRegIds, Gprs, RAX, canonicalReg
<1> QED
  BY <1>1

LEMMA ReadRegGood == ASSUME NEW c, NEW reg, Good(c) PROVE ReadOK(readReg(c, reg), c)
<1>1. CASE gprVRegIds(reg) = {}
  BY <1>1, ImmOK, GrownRefl DEF readReg, ReadOK
<1>2. CASE gprVRegIds(reg) # {} /\ typeOfReg(reg) = "i64"
  BY <1>2, GprOK, GrownRefl DEF readReg, ReadOK
<1>3. CASE gprVRegIds(reg) # {} /\ typeOfReg(reg) # "i64"
  <2>1. ValOK(gprVReg(reg), c)
    BY <1>3, GprOK
  <2> QED
    BY <1>3, <2>1, Into1 DEF readReg
<1> QED
  BY <1>1, <1>2, <1>3

\* The instruction that writes a register.
LEMMA ToGood ==
  ASSUME NEW c, NEW reg, NEW opcode, NEW operands, Good(c), gprVRegIds(reg) # {},
         \A k \in 1 .. Len(operands) : ValOK(operands[k], c)
  PROVE  Grown(pushInst(c, "copy", Inst(opcode, {gprVReg(reg).id}, "i64", operands)), c)
<1> DEFINE inst == Inst(opcode, {gprVReg(reg).id}, "i64", operands)
<1>1. gprVReg(reg).id \in 0 .. 15 /\ c.next \in Nat /\ c.next >= 20
  BY GprOK, NextNat
<1>2. inst.dst = {gprVReg(reg).id} /\ inst.operands = operands
  BY DEF Inst
<1> HIDE DEF inst
<1>3. inst.dst \subseteq 0 .. c.next - 1 /\ inst.dst \ Reserved = {}
  BY <1>1, <1>2 DEF Reserved
<1>4. InstOK(inst, c)
  BY <1>2, <1>3, ValId DEF InstOK
<1> QED
  BY <1>4, PushGrown DEF inst

LEMMA WriteRegGood ==
  ASSUME NEW c, NEW reg, NEW val, Good(c), ValOK(val, c)
  PROVE  Grown(writeReg(c, reg, val), c)
<1> DEFINE ty == typeOfReg(reg)
           To(f, opcode, operands) ==
             pushInst(f, "copy", Inst(opcode, {gprVReg(reg).id}, "i64", operands))
           zext == Into(c, "copy", "ZEXT", "i64", <<val>>)
           masked == Into(c, "copy", "AND", "i64", <<gprVReg(reg), KeepMask(ty)>>)
           wide == Into(masked.c, "copy", "ZEXT", "i64", <<val>>)
<1>1. CASE gprVRegIds(reg) = {}
  BY <1>1, GrownRefl DEF writeReg
<1>2. CASE gprVRegIds(reg) # {} /\ ty = "i64"
  <2>1. writeReg(c, reg, val) = To(c, "MOV", <<val>>)
    BY <1>2 DEF writeReg
  <2> QED
    BY <1>2, <2>1, ToGood
<1>3. CASE gprVRegIds(reg) # {} /\ ty = "i32"
  <2>1. writeReg(c, reg, val) = To(zext.c, "MOV", <<zext.v>>)
    BY <1>3 DEF writeReg
  <2>2. ReadOK(zext, c)
    BY Into1
  <2>3. Grown(To(zext.c, "MOV", <<zext.v>>), zext.c)
    <3> HIDE DEF zext
    <3>1. Good(zext.c) /\ ValOK(zext.v, zext.c)
      BY <2>2 DEF ReadOK, Grown
    <3>2. \A k \in 1 .. Len(<<zext.v>>) : ValOK(<<zext.v>>[k], zext.c)
      BY <3>1
    <3> QED
      BY <1>3, <3>1, <3>2, ToGood
  <2> HIDE DEF To, zext
  <2> QED
    BY <2>1, <2>2, <2>3, GrownTrans DEF ReadOK
<1>4. CASE gprVRegIds(reg) # {} /\ ty # "i64" /\ ty # "i32"
  <2>1. writeReg(c, reg, val) = To(wide.c, "OR", <<masked.v, wide.v>>)
    BY <1>4 DEF writeReg
  <2>2. ReadOK(masked, c)
    <3>1. ValOK(gprVReg(reg), c) /\ ValOK(KeepMask(ty), c)
      BY <1>4, GprOK, ImmOK DEF KeepMask
    <3> QED
      BY <3>1, Into2
  <2>3. ReadOK(wide, masked.c)
    <3>1. Good(masked.c) /\ ValOK(val, masked.c)
      BY <2>2, ValKept DEF ReadOK, Grown
    <3> HIDE DEF masked
    <3> QED
      BY <3>1, Into1
  <2> HIDE DEF masked
  <2>4. ValOK(masked.v, wide.c) /\ ValOK(wide.v, wide.c) /\ Good(wide.c)
    <3> HIDE DEF wide
    <3> QED
      BY <2>2, <2>3, ValKept DEF ReadOK, Grown
  <2> HIDE DEF wide
  <2>5. Grown(To(wide.c, "OR", <<masked.v, wide.v>>), wide.c)
    <3>1. \A k \in 1 .. Len(<<masked.v, wide.v>>) : ValOK(<<masked.v, wide.v>>[k], wide.c)
      BY <2>4
    <3> QED
      BY <1>4, <2>4, <3>1, ToGood
  <2> HIDE DEF To
  <2>6. Grown(wide.c, c)
    BY <2>2, <2>3, GrownTrans DEF ReadOK
  <2> QED
    BY <2>1, <2>5, <2>6, GrownTrans
<1> QED
  BY <1>1, <1>2, <1>3, <1>4

\* A reading that goes on from a reading.
LEMMA ReadTrans ==
  ASSUME NEW c, NEW r, NEW q, Good(c), ReadOK(r, c), ReadOK(q, r.c)
  PROVE  ReadOK(q, c)
BY GrownTrans DEF ReadOK

LEMMA ReadGood ==
  ASSUME NEW c, NEW r, Good(c), ReadOK(r, c)
  PROVE  Good(r.c) /\ Grown(r.c, c) /\ ValOK(r.v, r.c)
BY DEF ReadOK, Grown

LEMMA ThenGood ==
  ASSUME NEW c, NEW r, NEW where, NEW opcode, NEW ty, Good(c), ReadOK(r, c)
  PROVE  ReadOK(Then(r, where, opcode, ty), c)
<1>1. ReadOK(Into(r.c, where, opcode, ty, <<r.v>>), r.c)
  BY ReadGood, Into1
<1> QED
  BY <1>1, ReadTrans DEF Then

LEMMA BaseGood == ASSUME NEW c, NEW op, Good(c) PROVE ReadOK(BaseOf(c, op), c)
BY ReadRegGood, ImmOK, GrownRefl DEF BaseOf, ReadOK

LEMMA IndexGood ==
  ASSUME NEW c, NEW b, NEW op, Good(c), ReadOK(b, c)
  PROVE  ReadOK(WithIndex(b, op), c)
<1> DEFINE idx == readReg(b.c, op.index)
           mul == Into(idx.c, "block", "MUL", "i64", <<idx.v, Imm(op.scale, "i64")>>)
           scaled == IF op.scale > 1 THEN mul ELSE idx
           sum == Into(scaled.c, "block", "ADD", "i64", <<b.v, scaled.v>>)
<1>1. CASE op.index = NoReg
  BY <1>1 DEF WithIndex
<1>2. CASE op.index # NoReg
  <2>1. WithIndex(b, op) = sum
    BY <1>2 DEF WithIndex
  <2>2. ReadOK(idx, b.c)
    BY ReadGood, ReadRegGood
  <2>3. ReadOK(mul, idx.c)
    <3> HIDE DEF idx
    <3> QED
      BY <2>2, ImmOK, Into2 DEF ReadOK, Grown
  <2>4. ReadOK(scaled, b.c)
    <3> HIDE DEF idx, mul
    <3>1. Good(b.c)
      BY ReadGood
    <3> QED
      BY <2>2, <2>3, <3>1, ReadTrans
  <2> HIDE DEF scaled
  <2>5. ReadOK(sum, scaled.c)
    <3>1. Good(scaled.c) /\ ValOK(scaled.v, scaled.c)
      BY <2>4, ReadGood DEF ReadOK, Grown
    <3>2. ValOK(b.v, scaled.c)
      BY <2>4, ValKept DEF ReadOK, Grown
    <3> QED
      BY <3>1, <3>2, Into2
  <2> HIDE DEF sum
  <2> QED
    BY <2>1, <2>4, <2>5, ReadTrans
<1> QED
  BY <1>1, <1>2

LEMMA DispGood ==
  ASSUME NEW c, NEW a, NEW op, Good(c), ReadOK(a, c)
  PROVE  ReadOK(WithDisp(a, op), c)
<1>1. ReadOK(Into(a.c, "block", "ADD", "i64", <<a.v, Imm(op.disp, "i64")>>), a.c)
  BY ReadGood, ImmOK, Into2
<1> QED
  BY <1>1, ReadTrans DEF WithDisp

LEMMA AddrGood == ASSUME NEW c, NEW op, Good(c) PROVE ReadOK(computeAddr(c, op), c)
<1>1. ReadOK(WithDisp(WithIndex(BaseOf(c, op), op), op), c)
  BY BaseGood, IndexGood, DispGood
<1> QED
  BY <1>1, ThenGood DEF computeAddr

LEMMA ReadOperandGood ==
  ASSUME NEW c, NEW op, NEW hint, Good(c) PROVE ReadOK(readOperand(c, op, hint), c)
<1> DEFINE load == Then(computeAddr(c, op), "block", "LOAD", hint)
<1>1. ReadOK(load, c)
  BY AddrGood, ThenGood
<1>2. \A x, ty : ReadOK([c |-> c, v |-> Imm(x, ty)], c)
  BY ImmOK, GrownRefl DEF ReadOK
<1>3. ReadOK(readReg(c, op.reg), c)
  BY ReadRegGood
<1>4. readOperand(c, op, hint)
        \in {load, readReg(c, op.reg), [c |-> c, v |-> Imm(op.value, hint)], [c |-> c, v |-> Imm(0, "i64")]}
  BY DEF readOperand
<1> HIDE DEF load
<1> QED
  BY <1>1, <1>2, <1>3, <1>4

LEMMA WriteOperandGood ==
  ASSUME NEW c, NEW op, NEW val, Good(c), ValOK(val, c)
  PROVE  Grown(writeOperand(c, op, val), c)
<1> DEFINE ptr == computeAddr(c, op)
           stored == pushInst(ptr.c, "block", Store(val, ptr.v))
<1>1. Grown(stored, c)
  <2>1. ReadOK(ptr, c)
    BY AddrGood
  <2> HIDE DEF ptr
  <2>2. InstOK(Store(val, ptr.v), ptr.c)
    <3>1. ValOK(val, ptr.c) /\ ValOK(ptr.v, ptr.c)
      BY <2>1, ValKept DEF ReadOK
    <3> QED
      BY <3>1, ValId DEF InstOK, Store, Inst
  <2>3. Grown(stored, ptr.c)
    BY <2>1, <2>2, ReadGood, PushGrown
  <2> HIDE DEF stored
  <2> QED
    BY <2>1, <2>3, GrownTrans DEF ReadOK
<1>2. Grown(writeReg(c, op.reg, val), c)
  BY WriteRegGood
<1>3. writeOperand(c, op, val) \in {stored, writeReg(c, op.reg, val), c}
  BY DEF writeOperand
<1> HIDE DEF stored
<1> QED
  BY <1>1, <1>2, <1>3, GrownRefl

(***************************************************************************)
(* Instructions.  h is the flag record a handler leaves.                   *)
(***************************************************************************)

HandledOK(h, c) == Grown(h.c, c) /\ FlagsOK(h.flags, h.c.next)

LEMMA FlagsKept ==
  ASSUME NEW c, NEW d, NEW f, Good(c), Grown(d, c), FlagsOK(f, c.next)
  PROVE  FlagsOK(f, d.next)
BY IdKept DEF FlagsOK

LEMMA RecordOK ==
  ASSUME NEW op, NEW x, NEW l, NEW r, NEW ty, NEW n, IdOK(x, n), IdOK(l, n), IdOK(r, n)
  PROVE  FlagsOK(Flags(op, x, l, r, ty), n)
BY DEF FlagsOK, Flags

LEMMA NoFlagsOK == ASSUME NEW n PROVE FlagsOK(NoFlags, n)
BY DEF FlagsOK, NoFlags

\* A handler that writes its result and records values it had by then.
LEMMA WrittenOK ==
  ASSUME NEW c, NEW d, NEW e, NEW f, Good(c), Grown(d, c), Grown(e, d), FlagsOK(f, d.next)
  PROVE  HandledOK([c |-> e, flags |-> f], c)
BY GrownTrans, FlagsKept DEF HandledOK, Grown

\* A result with the two values it was made of.
ComputedOK(x, c) ==
  /\ Grown(x.c, c)
  /\ ValOK(x.v, x.c) /\ ValOK(x.lhs, x.c) /\ ValOK(x.rhs, x.c)

LEMMA CombineGood ==
  ASSUME NEW c, NEW l, NEW r, NEW opcode, NEW ty, Good(c), ReadOK(l, c), ReadOK(r, l.c)
  PROVE  ComputedOK(Combine(l, r, opcode, ty), c)
<1> DEFINE x == Into(r.c, "block", opcode, ty, <<l.v, r.v>>)
<1>1. Combine(l, r, opcode, ty) = [c |-> x.c, v |-> x.v, lhs |-> l.v, rhs |-> r.v]
  BY DEF Combine
<1>2. Good(r.c) /\ ValOK(l.v, r.c) /\ ValOK(r.v, r.c) /\ Good(l.c)
  BY ReadGood, ValKept
<1>3. ReadOK(x, r.c)
  BY <1>2, Into2
<1> HIDE DEF x
<1>4. Grown(x.c, c)
  BY <1>2, <1>3, GrownTrans DEF ReadOK
<1>5. ValOK(x.v, x.c) /\ ValOK(l.v, x.c) /\ ValOK(r.v, x.c)
  BY <1>2, <1>3, ValKept DEF ReadOK
<1> QED
  BY <1>1, <1>4, <1>5 DEF ComputedOK

LEMMA OperateGood ==
  ASSUME NEW c, NEW opcode, NEW ty, NEW a, NEW b, Good(c)
  PROVE  ComputedOK(Operate(c, opcode, ty, a, b), c)
<1> DEFINE l == readOperand(c, a, ty)
<1>1. Operate(c, opcode, ty, a, b) = Combine(l, readOperand(l.c, b, ty), opcode, ty)
  BY DEF Operate
<1>2. ReadOK(l, c)
  BY ReadOperandGood
<1> HIDE DEF l
<1>3. ReadOK(readOperand(l.c, b, ty), l.c)
  BY <1>2, ReadGood, ReadOperandGood
<1> QED
  BY <1>1, <1>2, <1>3, CombineGood

LEMMA RecordedOK ==
  ASSUME NEW c, NEW x, NEW op, NEW ty, ComputedOK(x, c)
  PROVE  FlagsOK(Recorded(x, op, ty), x.c.next)
BY RecordOK, ValId DEF Recorded, ComputedOK

LEMMA UpdateGood ==
  ASSUME NEW c, NEW x, NEW ops, NEW op, NEW ty, Good(c), ComputedOK(x, c)
  PROVE  HandledOK(Update(x, ops, op, ty), c)
<1>1. Grown(writeOperand(x.c, ops[1], x.v), x.c)
  BY WriteOperandGood DEF ComputedOK, Grown
<1> QED
  BY <1>1, RecordedOK, WrittenOK DEF Update, ComputedOK

LEMMA ExtendGood ==
  ASSUME NEW c, NEW opcode, NEW ops, Good(c) PROVE Grown(Extend(c, opcode, ops), c)
<1> DEFINE srcTy == IF ops[2].kind # "reg" /\ ops[2].ty = "i64" THEN "i8" ELSE OperandType(ops[2])
           dst == regValue(ops[1])
           wide == Then(readOperand(c, ops[2], srcTy), "block", opcode, typeOfReg(dst))
<1>1. Extend(c, opcode, ops) = writeReg(wide.c, dst, wide.v)
  BY DEF Extend
<1> HIDE DEF srcTy, dst
<1>2. ReadOK(wide, c)
  BY ReadOperandGood, ThenGood
<1> HIDE DEF wide
<1>3. Grown(writeReg(wide.c, dst, wide.v), wide.c)
  BY <1>2, ReadGood, WriteRegGood
<1> QED
  BY <1>1, <1>2, <1>3, ReadGood, GrownTrans

LEMMA MovGood == ASSUME NEW c, NEW ops, Good(c) PROVE Grown(Mov(c, ops), c)
<1> DEFINE ty == IF ops[1].kind = "reg" THEN typeOfReg(ops[1].reg) ELSE OperandType(ops[2])
           src == readOperand(c, ops[2], ty)
           moved == writeOperand(src.c, ops[1], src.v)
<1>1. Mov(c, ops) = Extend(moved, "ZEXT", ops)
  BY DEF Mov
<1> HIDE DEF ty
<1>2. ReadOK(src, c)
  BY ReadOperandGood
<1> HIDE DEF src
<1>3. Grown(moved, src.c)
  BY <1>2, ReadGood, WriteOperandGood
<1> HIDE DEF moved
<1>4. Grown(moved, c)
  BY <1>2, <1>3, ReadGood, GrownTrans
<1>5. Grown(Extend(moved, "ZEXT", ops), moved)
  BY <1>4, ExtendGood DEF Grown
<1> QED
  BY <1>1, <1>4, <1>5, GrownTrans

LEMMA LeaGood == ASSUME NEW c, NEW ops, Good(c) PROVE Grown(Lea(c, ops), c)
<1> DEFINE addr == Then(computeAddr(c, ops[2]), "block", "PTRTOINT", "i16")
<1>1. Lea(c, ops) = writeReg(addr.c, ops[1].reg, VReg(addr.v.id, "i64"))
  BY DEF Lea
<1>2. ReadOK(addr, c)
  BY AddrGood, ThenGood
<1>3. addr.v.kind = "vreg"
  BY DEF Then, Into, VReg
<1> HIDE DEF addr
<1>4. ValOK(VReg(addr.v.id, "i64"), addr.c)
  BY <1>2, <1>3, ReadGood DEF ValOK, VReg
<1>5. Grown(writeReg(addr.c, ops[1].reg, VReg(addr.v.id, "i64")), addr.c)
  BY <1>2, <1>4, ReadGood, WriteRegGood
<1> QED
  BY <1>1, <1>2, <1>5, ReadGood, GrownTrans

LEMMA BinaryGood ==
  ASSUME NEW c, NEW opcode, NEW ops, Good(c) PROVE HandledOK(Binary(c, opcode, ops), c)
BY OperateGood, UpdateGood DEF Binary

LEMMA CompareGood ==
  ASSUME NEW c, NEW opcode, NEW ops, Good(c) PROVE HandledOK(Compare(c, opcode, ops), c)
BY OperateGood, RecordedOK DEF Compare, HandledOK, ComputedOK

LEMMA MultiplyGood ==
  ASSUME NEW c, NEW ops, Good(c) PROVE HandledOK(Multiply(c, ops), c)
<1> DEFINE a == IF Len(ops) = 1 THEN [kind |-> "reg", reg |-> RAX] ELSE ops[Len(ops) - 1]
           ty == IF Len(ops) = 1 THEN "i64" ELSE typeOfReg(ops[1].reg)
           x == Operate(c, "MUL", ty, a, ops[Len(ops)])
           low == writeReg(x.c, RAX, x.v)
           both == writeReg(low, RDX, Imm(0, "i64"))
           one == writeReg(x.c, ops[1].reg, x.v)
<1>1. Multiply(c, ops)
        = [c |-> IF Len(ops) = 1 THEN both ELSE one, flags |-> Recorded(x, "IMUL", ty)]
  BY DEF Multiply
<1> HIDE DEF a, ty
<1>2. Grown(x.c, c) /\ ValOK(x.v, x.c) /\ FlagsOK(Recorded(x, "IMUL", ty), x.c.next)
  BY OperateGood, RecordedOK DEF ComputedOK
<1> HIDE DEF x
<1>3. Grown(one, x.c) /\ Grown(low, x.c)
  BY <1>2, WriteRegGood DEF Grown
<1> HIDE DEF low, one
<1>4. Grown(both, low)
  BY <1>3, ImmOK, WriteRegGood DEF Grown
<1> HIDE DEF both
<1>5. Grown(both, x.c)
  BY <1>2, <1>3, <1>4, GrownTrans DEF Grown
<1> QED
  BY <1>1, <1>2, <1>3, <1>5, WrittenOK

LEMMA DivideGood ==
  ASSUME NEW c, NEW quotient, NEW remainder, NEW ops, Good(c)
  PROVE  HandledOK(Divide(c, quotient, remainder, ops), c)
<1> DEFINE src == readOperand(c, ops[1], "i64")
           q == Into(src.c, "block", quotient, "i64", <<gprVReg(RAX), src.v>>)
           r == Into(q.c, "block", remainder, "i64", <<gprVReg(RAX), src.v>>)
           low == writeReg(r.c, RAX, q.v)
           both == writeReg(low, RDX, r.v)
<1>1. Divide(c, quotient, remainder, ops) = [c |-> both, flags |-> NoFlags]
  BY DEF Divide
<1>2. ReadOK(src, c)
  BY ReadOperandGood
<1> HIDE DEF src
<1>3. ReadOK(q, src.c)
  BY <1>2, ReadGood, RaxOK, GprOK, Into2
<1> HIDE DEF q
<1>4. Good(src.c) /\ Good(q.c) /\ ValOK(src.v, q.c) /\ ValOK(gprVReg(RAX), q.c)
  BY <1>2, <1>3, ReadGood, ValKept, RaxOK, GprOK
<1>5. ReadOK(r, q.c)
  BY <1>4, Into2
<1> HIDE DEF r
<1>6. Good(r.c) /\ ValOK(q.v, r.c)
  BY <1>3, <1>4, <1>5, ReadGood, ValKept
<1>7. Grown(low, r.c)
  BY <1>6, WriteRegGood
<1> HIDE DEF low
<1>8. Grown(both, low)
  <2>1. ValOK(r.v, r.c)
    BY <1>5 DEF ReadOK
  <2>2. Good(low) /\ ValOK(r.v, low)
    BY <2>1, <1>6, <1>7, ValKept DEF Grown
  <2> QED
    BY <2>2, WriteRegGood
<1> HIDE DEF both
<1>9. Grown(both, q.c)
  BY <1>4, <1>5, <1>6, <1>7, <1>8, GrownTrans DEF ReadOK
<1>10. Grown(both, c)
  BY <1>2, <1>3, <1>4, <1>9, GrownTrans DEF ReadOK
<1> QED
  BY <1>1, <1>10, NoFlagsOK DEF HandledOK

LEMMA UnaryGood ==
  ASSUME NEW c, NEW opcode, NEW ops, NEW old, Good(c), FlagsOK(old, c.next)
  PROVE  HandledOK(Unary(c, opcode, ops, old), c)
<1> DEFINE ty == typeOfReg(regValue(ops[1]))
           src == readOperand(c, ops[1], ty)
           x == Then(src, "block", opcode, ty)
           f == IF opcode = "NEG" THEN Flags("SUB", x.v, Imm(0, ty), src.v, ty) ELSE old
<1>1. Unary(c, opcode, ops, old) = [c |-> writeOperand(x.c, ops[1], x.v), flags |-> f]
  BY DEF Unary
<1> HIDE DEF ty
<1>2. ReadOK(src, c)
  BY ReadOperandGood
<1> HIDE DEF src
<1>3. ReadOK(x, src.c)
  BY <1>2, ReadGood, Into1 DEF Then
<1> HIDE DEF x
<1>4. Good(src.c) /\ Grown(x.c, c) /\ Good(x.c) /\ ValOK(x.v, x.c) /\ ValOK(src.v, x.c)
  BY <1>2, <1>3, ReadGood, ReadTrans, ValKept
<1>5. FlagsOK(f, x.c.next)
  BY <1>4, ImmIdOK, ValId, RecordOK, FlagsKept
<1> HIDE DEF f
<1>6. Grown(writeOperand(x.c, ops[1], x.v), x.c)
  BY <1>4, WriteOperandGood
<1> QED
  BY <1>1, <1>4, <1>5, <1>6, WrittenOK

LEMMA ShiftGood ==
  ASSUME NEW c, NEW opcode, NEW op, NEW ops, Good(c)
  PROVE  HandledOK(Shift(c, opcode, op, ops), c)
<1> DEFINE ty == typeOfReg(regValue(ops[1]))
           val == readOperand(c, ops[1], ty)
           amt == Then(readOperand(val.c, ops[2], "i8"), "block", "ZEXT", ty)
<1>1. Shift(c, opcode, op, ops) = Update(Combine(val, amt, opcode, ty), ops, op, ty)
  BY DEF Shift
<1> HIDE DEF ty
<1>2. ReadOK(val, c)
  BY ReadOperandGood
<1> HIDE DEF val
<1>3. ReadOK(amt, val.c)
  BY <1>2, ReadGood, ReadOperandGood, ThenGood
<1> HIDE DEF amt
<1> QED
  BY <1>1, <1>2, <1>3, CombineGood, UpdateGood

LEMMA StepGood ==
  ASSUME NEW c, NEW opcode, NEW op, NEW ops, Good(c)
  PROVE  HandledOK(Step(c, opcode, op, ops), c)
<1> DEFINE ty == typeOfReg(regValue(ops[1]))
           src == readOperand(c, ops[1], ty)
           one == [c |-> src.c, v |-> Imm(1, ty)]
<1>1. Step(c, opcode, op, ops) = Update(Combine(src, one, opcode, ty), ops, op, ty)
  BY DEF Step
<1> HIDE DEF ty
<1>2. ReadOK(src, c)
  BY ReadOperandGood
<1> HIDE DEF src
<1>3. ReadOK(one, src.c)
  BY <1>2, ReadGood, GrownRefl, ImmOK DEF ReadOK
<1> HIDE DEF one
<1> QED
  BY <1>1, <1>2, <1>3, CombineGood, UpdateGood

LEMMA JccGood ==
  ASSUME NEW c, NEW i, NEW f, Good(c), FlagsOK(f, c.next) PROVE Grown(Jcc(c, i, f), c)
<1> DEFINE cond == materialise(c, f)
           jump == Cjmp(cond.v, i.to[1], i.to[2])
<1>1. Jcc(c, i, f) = pushInst(cond.c, "block", jump)
  BY DEF Jcc
<1>2. ReadOK(cond, c)
  <2>1. CASE f.valid
    <3> DEFINE vals == <<f.result, f.lhs, f.rhs>>
    <3>1. \A k \in 1 .. Len(vals) : IdOK(vals[k], c.next)
      BY <2>1 DEF FlagsOK
    <3>2. cond = Into(c, "block", "FLAGS", "i1", vals)
      BY <2>1 DEF materialise
    <3> HIDE DEF vals
    <3> QED
      BY <3>1, <3>2, MakeGood
  <2>2. CASE ~f.valid
    BY <2>2, ImmOK, GrownRefl DEF materialise, ReadOK
  <2> QED
    BY <2>1, <2>2
<1> HIDE DEF cond
<1>3. InstOK(jump, cond.c)
  BY <1>2, ValId DEF ReadOK, InstOK, Cjmp, Inst
<1> HIDE DEF jump
<1>4. Grown(pushInst(cond.c, "block", jump), cond.c)
  BY <1>2, <1>3, ReadGood, PushGrown
<1> QED
  BY <1>1, <1>2, <1>4, ReadGood, GrownTrans

LEMMA PlainGood == ASSUME NEW c, Good(c) PROVE Grown(pushInst(c, "block", Nop), c)
<1>1. InstOK(Nop, c)
  BY DEF InstOK, Nop, Inst
<1> QED
  BY <1>1, PushGrown

LEMMA JmpToGood == ASSUME NEW c, NEW i, Good(c) PROVE Grown(JmpTo(c, i), c)
<1>1. InstOK(Jmp(i.to[1]), c)
  BY DEF InstOK, Jmp, Inst
<1>2. Grown(pushInst(c, "block", Jmp(i.to[1])), c)
  BY <1>1, PushGrown
<1> QED
  BY <1>2, PlainGood DEF JmpTo

LEMMA CallGood == ASSUME NEW c, NEW i, Good(c) PROVE Grown(Call(c, i), c)
<1> DEFINE direct == i.ops[1].kind = "imm"
           ptr == Then(readOperand(c, i.ops[1], "i64"), "block", "INTTOPTR", "ptr")
           from == IF direct THEN c ELSE ptr.c
           callee == IF ~direct THEN ptr.v
                     ELSE IF i.symbol # "" THEN Global(i.symbol) ELSE Imm(i.ops[1].value, "ptr")
           ret == Into(from, "block", "CALL", "i64", <<callee>>)
<1>1. Call(c, i) = writeReg(ret.c, RAX, ret.v)
  BY DEF Call
<1>2. ReadOK(ptr, c)
  BY ReadOperandGood, ThenGood
<1> HIDE DEF ptr
<1>3. Grown(from, c) /\ ValOK(callee, from)
  BY <1>2, ReadGood, GrownRefl, ImmOK, GlobalOK
<1> HIDE DEF from, callee
<1>4. ReadOK(ret, from)
  BY <1>3, Into1 DEF Grown
<1> HIDE DEF ret
<1>5. Grown(ret.c, c)
  BY <1>3, <1>4, GrownTrans DEF ReadOK
<1>6. Grown(writeReg(ret.c, RAX, ret.v), ret.c)
  BY <1>4, WriteRegGood DEF ReadOK, Grown
<1> QED
  BY <1>1, <1>5, <1>6, GrownTrans

\* Every instruction.
LEMMA LiftGood ==
  ASSUME NEW c, NEW f, NEW i, Good(c), FlagsOK(f, c.next)
  PROVE  HandledOK(liftInstr(c, f, i), c)
<1> DEFINE Keep(x) == [c |-> x, flags |-> f]
<1>1. \A x : Grown(x, c) => HandledOK(Keep(x), c)
  BY FlagsKept DEF HandledOK
<1>2. HandledOK([c |-> Call(c, i), flags |-> NoFlags], c)
  BY CallGood, NoFlagsOK DEF HandledOK
<1>3. liftInstr(c, f, i) \in
        {Keep(pushInst(c, "block", Nop)), Keep(Mov(c, i.ops)), Keep(Extend(c, "ZEXT", i.ops)),
         Keep(Extend(c, "SEXT", i.ops)), Keep(Lea(c, i.ops)), Binary(c, i.mn, i.ops),
         Compare(c, "SUB", i.ops), Compare(c, "AND", i.ops), Multiply(c, i.ops),
         Divide(c, "SDIV", "SREM", i.ops), Divide(c, "UDIV", "UREM", i.ops),
         Unary(c, i.mn, i.ops, f), Shift(c, "SHL", "SHL", i.ops), Shift(c, "LSHR", "SHR", i.ops),
         Shift(c, "ASHR", "SAR", i.ops), Step(c, "ADD", "INC", i.ops), Step(c, "SUB", "DEC", i.ops),
         Keep(Jcc(c, i, f)), Keep(JmpTo(c, i)), [c |-> Call(c, i), flags |-> NoFlags], Keep(c)}
  BY Zenon DEF liftInstr
<1>4. /\ HandledOK(Keep(pushInst(c, "block", Nop)), c)
      /\ HandledOK(Keep(Mov(c, i.ops)), c)
      /\ HandledOK(Keep(Extend(c, "ZEXT", i.ops)), c)
      /\ HandledOK(Keep(Extend(c, "SEXT", i.ops)), c)
      /\ HandledOK(Keep(Lea(c, i.ops)), c)
      /\ HandledOK(Keep(Jcc(c, i, f)), c)
      /\ HandledOK(Keep(JmpTo(c, i)), c)
      /\ HandledOK(Keep(c), c)
  BY <1>1, PlainGood, MovGood, ExtendGood, LeaGood, JccGood, JmpToGood, GrownRefl
<1> HIDE DEF Keep
<1> QED
  BY <1>2, <1>3, <1>4, BinaryGood, CompareGood, MultiplyGood, DivideGood, UnaryGood,
     ShiftGood, StepGood

(***************************************************************************)
(* The invariant: what is being lifted is Good, and the record of the flags *)
(* names values handed out.                                                *)
(***************************************************************************)

IInv ==
  /\ Good(fn)
  /\ FlagsOK(flags, fn.next)
  /\ lifted \in 0 .. MaxInstrs

LEMMA EmptyGood == \A n \in Nat, b \in BOOLEAN :
  n >= 20 => Good([insts |-> <<>>, pushed |-> <<>>, next |-> n, thrown |-> b])
<1> SUFFICES ASSUME NEW n \in Nat, NEW b \in BOOLEAN, n >= 20
             PROVE  Good([insts |-> <<>>, pushed |-> <<>>, next |-> n, thrown |-> b])
  OBVIOUS
<1>1. [insts |-> <<>>, pushed |-> <<>>, next |-> n, thrown |-> b]
        \in [insts : Seq({}), pushed : Seq({}), next : Nat, thrown : BOOLEAN]
  BY EmptySeq
<1> QED
  BY <1>1, EmptySeq DEF Good, FirstTemp

LEMMA Init_IInv == Init => IInv
<1> SUFFICES ASSUME Init PROVE IInv
  OBVIOUS
<1>1. fn = [insts |-> <<>>, pushed |-> <<>>, next |-> 20, thrown |-> FALSE]
  BY DEF Init, Empty, FirstTemp
<1>2. Good(fn)
  <2>1. 20 \in Nat /\ FALSE \in BOOLEAN /\ 20 >= 20
    OBVIOUS
  <2>2. Good([insts |-> <<>>, pushed |-> <<>>, next |-> 20, thrown |-> FALSE])
    BY <2>1, EmptyGood, Zenon
  <2> QED
    BY <1>1, <2>2
<1>3. FlagsOK(flags, fn.next) /\ lifted \in 0 .. MaxInstrs
  BY NoFlagsOK, LifterAssumption DEF Init
<1> QED
  BY <1>2, <1>3 DEF IInv

LEMMA Next_IInv == IInv /\ [Next]_vars => IInv'
<1> SUFFICES ASSUME IInv, [Next]_vars PROVE IInv'
  OBVIOUS
<1>1. CASE LiftInstr
  <2>1. PICK i \in Instrs : fn' = liftInstr(fn, flags, i).c /\ flags' = liftInstr(fn, flags, i).flags
    BY <1>1 DEF LiftInstr
  <2>2. HandledOK(liftInstr(fn, flags, i), fn)
    BY LiftGood DEF IInv
  <2>3. Good(fn') /\ FlagsOK(flags', fn'.next)
    BY <2>1, <2>2 DEF HandledOK, Grown
  <2>4. lifted' \in 0 .. MaxInstrs
    BY <1>1, LifterAssumption DEF LiftInstr, IInv
  <2> QED
    BY <2>3, <2>4 DEF IInv
<1>2. CASE NextBlock
  <2>1. PICK S : fn \in [insts : Seq(S), pushed : Seq(S), next : Nat, thrown : BOOLEAN]
    BY DEF IInv, Good
  <2>2. fn' = [insts |-> <<>>, pushed |-> <<>>, next |-> fn.next, thrown |-> fn.thrown]
    BY <1>2, <2>1 DEF NextBlock
  <2>3. Good(fn') /\ fn'.next = fn.next
    BY <2>1, <2>2, EmptyGood, NextNat DEF IInv
  <2> QED
    BY <1>2, <2>3 DEF NextBlock, IInv
<1>3. CASE UNCHANGED vars
  BY <1>3 DEF vars, IInv
<1> QED
  BY <1>1, <1>2, <1>3 DEF Next

\* TypeOK for any instructions: whatever liftInstr pushes names only
\* registers, flags and temporaries allocVreg has handed out.
THEOREM TypeCorrect == Spec => []TypeOK
<1>1. IInv => TypeOK
  <2> SUFFICES ASSUME IInv PROVE TypeOK
    OBVIOUS
  <2>1. PICK S : fn \in [insts : Seq(S), pushed : Seq(S), next : Nat, thrown : BOOLEAN]
    BY DEF IInv, Good
  <2>2. fn.next \in Nat /\ fn.next >= FirstTemp /\ fn.thrown \in BOOLEAN
    BY <2>1 DEF IInv, Good
  <2>3. flags.valid \in BOOLEAN /\ lifted \in 0 .. MaxInstrs
    BY DEF IInv, FlagsOK
  <2>4. ASSUME NEW k \in 1 .. Len(fn.pushed)
        PROVE  VRegIds(fn.pushed[k]) \cup fn.pushed[k].dst \subseteq Reserved \cup Temps(fn)
    <3>1. IdsOK(fn.pushed[k], fn.next)
      BY DEF IInv, Good
    <3>2. 0 .. fn.next - 1 \subseteq Reserved \cup Temps(fn)
      <4>1. Reserved = 0 .. 19 /\ Temps(fn) = 20 .. fn.next - 1
        BY DEF Reserved, Temps, FirstTemp
      <4>2. \A n \in 0 .. fn.next - 1 : n \in 0 .. 19 \/ n \in 20 .. fn.next - 1
        BY <2>2
      <4> QED
        BY <4>1, <4>2
    <3> QED
      BY <3>1, <3>2 DEF IdsOK, IdOK, VRegIds, Operands
  <2> QED
    BY <2>2, <2>3, <2>4 DEF TypeOK
<1> QED
  BY <1>1, Init_IInv, Next_IInv, PTL DEF Spec

\* TerminatorLast for any instructions: pushInst refuses what would follow a
\* JMP, CJMP or RET, and every push of liftInstr goes through it.
THEOREM Terminators_Last == Spec => []TerminatorLast
<1>1. IInv => TerminatorLast
  BY DEF IInv, Good, TerminatorLast
<1> QED
  BY <1>1, Init_IInv, Next_IInv, PTL DEF Spec

\* TempsDefined for any instructions: allocVreg hands out an id no instruction
\* defines yet, and what uses a temporary is pushed after what defines it.
THEOREM Temps_Defined == Spec => []TempsDefined
<1>1. IInv => TempsDefined
  <2> SUFFICES ASSUME IInv, NEW k \in 1 .. Len(fn.pushed)
               PROVE  LET inst == fn.pushed[k]
                          defined(j) == fn.pushed[j].dst
                      IN  /\ inst.dst \ Reserved # {} => \A j \in 1 .. k - 1 : defined(j) # inst.dst
                          /\ \A id \in VRegIds(inst) \ Reserved :
                               id \notin UNION {defined(j) : j \in 1 .. k - 1} => inst.opcode = "FLAGS"
    BY DEF TempsDefined
  <2> DEFINE inst == fn.pushed[k]
             defined(j) == fn.pushed[j].dst
  <2>1. DefsOK(fn.pushed, k)
    BY DEF IInv, Good
  <2>2. inst.dst \ Reserved # {} => \A j \in 1 .. k - 1 : defined(j) # inst.dst
    BY <2>1 DEF DefsOK
  <2>3. ASSUME NEW id \in VRegIds(inst) \ Reserved, inst.opcode # "FLAGS"
        PROVE  id \in UNION {defined(j) : j \in 1 .. k - 1}
    <3>1. PICK m \in 1 .. Len(inst.operands) : inst.operands[m].kind = "vreg" /\ inst.operands[m].id = id
      BY DEF VRegIds, Operands
    <3>2. PICK j \in 1 .. k - 1 : id \in fn.pushed[j].dst
      BY <2>1, <2>3, <3>1 DEF DefsOK
    <3> QED
      BY <3>2
  <2> QED
    BY <2>2, <2>3
<1> QED
  BY <1>1, Init_IInv, Next_IInv, PTL DEF Spec
=============================================================================
