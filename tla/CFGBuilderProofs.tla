-------------------------- MODULE CFGBuilderProofs --------------------------
(***************************************************************************)
(* For a function of any length, at any address, over any instruction       *)
(* encodings: the linear sweep tiles it, the blocks partition what it gives, *)
(* control enters a block only at its first instruction, and the labels of  *)
(* jumps name blocks.                                                       *)
(*                                                                         *)
(* TypeOK alone is not inductive: the address of a new instruction is one  *)
(* only because the sweep has not passed the end, which SweepTiles says,   *)
(* and a first instruction exists in BeginBlocks only because an empty     *)
(* function skips the search for leaders.                                  *)
(***************************************************************************)
EXTENDS CFGBuilder, SequenceTheorems, WellFoundedInduction, TLAPS

Started == pc = "leaders" => instrs # <<>>

IInv == TypeOK /\ SweepTiles /\ Started

\* What disassemble decodes at an offset of the function is an instruction at
\* that offset, at least a byte long, that ends inside the function.
LEMMA DecodedInside ==
  ASSUME TypeOK, offset < len
  PROVE  /\ DecodedAt(offset) \in DecodedInstr
         /\ DecodedAt(offset).va = base + offset
         /\ DecodedAt(offset).length \in Nat \ {0}
         /\ offset + DecodedAt(offset).length <= len
<1> DEFINE e == code[offset + 1]
           bad == e.mnemonic = "bad" \/ offset + e.length > len
<1>1. e \in Encoding /\ len \in Nat
  BY CFGAssumption DEF TypeOK, len
<1>2. /\ e.mnemonic \in Mnemonic
      /\ e.length \in Nat \ {0}
      /\ e.relative \in BOOLEAN
      /\ e.rel \in Int
  BY <1>1 DEF Encoding
<1>3. base + offset \in Addr
  BY CFGAssumption, <1>1 DEF TypeOK, Addr, len
<1>4. (IF bad THEN 1 ELSE e.length) \in Nat \ {0}
  BY <1>2
<1>5. (IF bad THEN "plain" ELSE e.mnemonic) \in Mnemonic
  BY <1>2 DEF Mnemonic
<1>6. (~bad /\ e.relative) \in BOOLEAN
  OBVIOUS
<1>7. DecodedAt(offset) =
        [va |-> base + offset,
         mnemonic |-> IF bad THEN "plain" ELSE e.mnemonic,
         length |-> IF bad THEN 1 ELSE e.length,
         relative |-> ~bad /\ e.relative,
         rel |-> e.rel]
  BY Zenon DEF DecodedAt
<1> HIDE DEF bad
<1>8. DecodedAt(offset) \in DecodedInstr
  BY <1>2, <1>3, <1>4, <1>5, <1>6, <1>7 DEF DecodedInstr
<1>9. offset + (IF bad THEN 1 ELSE e.length) <= len
  BY <1>1, <1>2 DEF TypeOK, bad
<1> QED
  BY <1>4, <1>7, <1>8, <1>9

\* The instructions are instructions; without an instruction the sequence is empty.
LEMMA InstrAt ==
  ASSUME TypeOK
  PROVE  /\ Len(instrs) \in Nat
         /\ \A j \in 1 .. Len(instrs) : instrs[j] \in DecodedInstr
         /\ \A j \in 1 .. Len(instrs) : instrs[j].va \in Addr
         /\ instrs # <<>> => Len(instrs) > 0
<1>1. instrs \in Seq(DecodedInstr) /\ Len(instrs) \in Nat
  BY DEF TypeOK
<1>2. \A j \in 1 .. Len(instrs) : instrs[j] \in DecodedInstr
  BY <1>1
<1>3. \A d \in DecodedInstr : d.va \in Addr
  BY DEF DecodedInstr
<1>4. instrs # <<>> => Len(instrs) > 0
  BY <1>1, EmptySeq
<1> QED
  BY <1>1, <1>2, <1>3, <1>4

\* The target of an instruction is an address.
LEMMA TargetInAddr ==
  ASSUME NEW d \in DecodedInstr
  PROVE  directTarget(d) \in Addr
BY CFGAssumption DEF directTarget, DecodedInstr, Addr

\* The initial states.
LEMMA InitInv == Init => IInv
<1> SUFFICES ASSUME Init PROVE IInv
  OBVIOUS
<1>1. PICK n \in 0 .. MaxLen : code \in [1 .. n -> Encodings]
  BY DEF Init
<1>2. code \in Seq(Encodings) /\ Len(code) = n
  BY <1>1, CFGAssumption
<1>3. TypeOK
  BY <1>2, CFGAssumption DEF Init, TypeOK, Addr
<1> QED
  BY <1>2, <1>3, CFGAssumption DEF Init, IInv, SweepTiles, Started, len

\* Every iteration of every loop.
LEMMA NextInv == IInv /\ [Next]_vars => IInv'
<1> SUFFICES ASSUME IInv, [Next]_vars PROVE IInv'
  OBVIOUS
<1> USE DEF IInv
<1>1. CASE Disassemble
  <2> DEFINE d == DecodedAt(offset)
             n == Len(instrs)
  <2>1. /\ d \in DecodedInstr
        /\ d.va = base + offset
        /\ d.length \in Nat \ {0}
        /\ offset + d.length <= len
    BY <1>1, DecodedInside DEF Disassemble
  <2>2. /\ instrs' = Append(instrs, d)
        /\ offset' = offset + d.length
        /\ UNCHANGED <<pc, code, base, i, leaders, blocks, current, blockNames>>
    BY <1>1 DEF Disassemble
  <2> HIDE DEF d
  <2>3. /\ n \in Nat
        /\ Len(instrs') = n + 1
        /\ instrs' \in Seq(DecodedInstr)
        /\ instrs'[n + 1] = d
        /\ \A j \in 1 .. n : instrs'[j] = instrs[j]
    BY <2>1, <2>2 DEF TypeOK
  <2>4. TypeOK'
    BY <2>1, <2>2, <2>3 DEF TypeOK
  <2>5. SweepTiles'
    <3>1. offset' <= len'
      BY <2>1, <2>2 DEF len
    <3>2. instrs'[1].va = base'
      <4>1. CASE n = 0
        BY <2>1, <2>2, <2>3, <4>1, CFGAssumption DEF SweepTiles, TypeOK
      <4>2. CASE n > 0
        BY <2>2, <2>3, <4>2 DEF SweepTiles
      <4> QED
        BY <2>3, <4>1, <4>2
    <3>3. instrs'[n + 1].va + instrs'[n + 1].length = base' + offset'
      BY <2>1, <2>2, <2>3, CFGAssumption DEF TypeOK
    <3>4. ASSUME NEW j \in 1 .. n
          PROVE  instrs'[j + 1].va = instrs'[j].va + instrs'[j].length
      <4>1. CASE j < n
        BY <2>3, <4>1 DEF SweepTiles
      <4>2. CASE j = n
        BY <2>1, <2>3, <4>2 DEF SweepTiles
      <4> QED
        BY <2>3, <4>1, <4>2
    <3> QED
      BY <2>3, <3>1, <3>2, <3>3, <3>4 DEF SweepTiles
  <2>6. Started'
    BY <1>1, <2>2 DEF Started, Disassemble
  <2> QED
    BY <2>4, <2>5, <2>6
<1>2. CASE BeginCFG
  <2> USE <1>2 DEF BeginCFG
  <2>1. instrs # <<>> => instrs[1].va \in Addr
    BY InstrAt
  <2>2. TypeOK'
    BY <2>1 DEF TypeOK
  <2>3. SweepTiles'
    BY DEF SweepTiles, len
  <2> QED
    BY <2>2, <2>3 DEF Started
<1>3. CASE FindLeader
  <2> USE <1>3 DEF FindLeader
  <2>1. FollowedBy(i) \subseteq Addr
    BY InstrAt DEF FollowedBy, TypeOK
  <2>2. directTarget(instrs[i]) \in Addr
    BY InstrAt, TargetInAddr DEF TypeOK
  <2>3. leaders' \subseteq Addr
    BY <2>1, <2>2 DEF TypeOK
  <2>4. TypeOK'
    BY <2>3 DEF TypeOK
  <2>5. SweepTiles' /\ Started'
    BY DEF SweepTiles, len, Started
  <2> QED
    BY <2>4, <2>5
<1>4. CASE BeginBlocks
  <2> USE <1>4 DEF BeginBlocks
  <2>1. instrs[1].va \in Addr
    BY InstrAt DEF Started
  <2>2. /\ DOMAIN blocks' \subseteq Addr
        /\ \A b \in DOMAIN blocks' : blocks'[b] \in Seq(DecodedInstr)
    BY <2>1
  <2>3. TypeOK'
    BY <2>1, <2>2 DEF TypeOK
  <2>4. SweepTiles' /\ Started'
    BY DEF SweepTiles, len, Started
  <2> QED
    BY <2>3, <2>4
<1>5. CASE AddToBlock
  <2> DEFINE new(b) == IF b = current' THEN Append(Block(b), instrs[i]) ELSE blocks[b]
  <2>1. /\ i \in 1 .. Len(instrs)
        /\ current' = IF instrs[i].va \in leaders THEN instrs[i].va ELSE current
        /\ blocks' = [b \in DOMAIN blocks \cup {current'} |-> new(b)]
        /\ i' = i + 1
        /\ UNCHANGED <<pc, code, base, offset, instrs, leaders, blockNames>>
    BY <1>5 DEF AddToBlock, TypeOK
  <2>2. instrs[i] \in DecodedInstr /\ instrs[i].va \in Addr
    BY <2>1, InstrAt
  <2>3. current' \in Addr
    BY <2>1, <2>2 DEF TypeOK
  <2>4. \A b \in Addr : Block(b) \in Seq(DecodedInstr)
    BY DEF Block, TypeOK
  <2>5. ASSUME NEW b \in DOMAIN blocks \cup {current'}
        PROVE  new(b) \in Seq(DecodedInstr)
    <3>1. CASE b = current'
      BY <2>2, <2>3, <2>4, <3>1
    <3>2. CASE b # current'
      BY <3>2 DEF TypeOK
    <3> QED
      BY <3>1, <3>2
  <2> HIDE DEF new
  <2>6. /\ DOMAIN blocks' \subseteq Addr
        /\ \A b \in DOMAIN blocks' : blocks'[b] \in Seq(DecodedInstr)
    BY <2>1, <2>3, <2>5 DEF TypeOK
  <2>7. i' \in 1 .. Len(instrs') + 1
    BY <2>1, InstrAt
  <2>8. TypeOK'
    BY <2>1, <2>3, <2>6, <2>7 DEF TypeOK
  <2>9. SweepTiles' /\ Started'
    BY <2>1 DEF SweepTiles, len, Started
  <2> QED
    BY <2>8, <2>9
<1>6. CASE lift
  BY <1>6 DEF lift, TypeOK, SweepTiles, len, Started
<1>7. CASE UNCHANGED vars
  BY <1>7 DEF vars, TypeOK, SweepTiles, len, Started
<1> QED
  BY <1>1, <1>2, <1>3, <1>4, <1>5, <1>6, <1>7 DEF Next

\* The sweep of a function gives every byte to exactly one instruction and
\* stays inside it (X86Lifter.cpp:239-263).
THEOREM Sweep_Tiles == Spec => []SweepTiles
<1>1. IInv => SweepTiles
  BY DEF IInv
<1> QED
  BY InitInv, NextInv, <1>1, PTL DEF Spec

\* The locals of the sweep and of buildCFG keep their types; every leader and
\* every block key is an address.
THEOREM TypeCorrect == Spec => []TypeOK
<1>1. IInv => TypeOK
  BY DEF IInv
<1> QED
  BY InitInv, NextInv, <1>1, PTL DEF Spec

(***************************************************************************)
(* The blocks of buildCFG are straight and the labels of jumps resolve.    *)
(*                                                                         *)
(* The sweep is in address order (Ordered), so an address names at most one *)
(* instruction and a leader met later never returns to a block already     *)
(* closed.  Every instruction the leader loop has passed has made its       *)
(* leaders (LeadersFound).  Each leader the block loop has passed is the key *)
(* of a block (Keyed), and inside a block nothing leads (Cut).              *)
(***************************************************************************)

Ordered ==
  \A j, k \in 1 .. Len(instrs) :
    j < k => instrs[j].va + instrs[j].length <= instrs[k].va

\* What instruction j makes leaders has been made.
Leads(j) ==
  isControlFlow(instrs[j]) =>
    /\ FollowedBy(j) \subseteq leaders
    /\ directTarget(instrs[j]) # 0 => directTarget(instrs[j]) \in leaders

Cutting == pc \in {"blocks", "lifted"} /\ instrs # <<>>

LeadersFound ==
  /\ pc = "leaders" => /\ instrs[1].va \in leaders
                       /\ \A j \in 1 .. i - 1 : Leads(j)
  /\ Cutting => /\ instrs[1].va \in leaders
                /\ \A j \in 1 .. Len(instrs) : Leads(j)

\* The keys are the leaders among the instructions passed, and the first.
Keyed ==
  /\ ~Cutting => DOMAIN blocks = {}
  /\ Cutting =>
       /\ instrs[1].va \in DOMAIN blocks
       /\ current \in DOMAIN blocks
       /\ \A j \in 1 .. i - 1 :
            instrs[j].va \in leaders => instrs[j].va \in DOMAIN blocks
       /\ \A b \in DOMAIN blocks :
            \E j \in 1 .. Len(instrs) : (j < i \/ j = 1) /\ b = instrs[j].va

\* Entry p of a block is an instruction that leads only if it is the first
\* entry, and is followed by one that leads only if it is the last.
Inner(s, p) ==
  \E j \in 1 .. Len(instrs) :
    /\ j < i
    /\ s[p] = instrs[j]
    /\ p > 1 => j > 1 /\ instrs[j].va \notin leaders
    /\ p < Len(s) => j < Len(instrs) /\ instrs[j + 1].va \notin leaders

Cut ==
  Cutting =>
    /\ \A b \in DOMAIN blocks : \A p \in 1 .. Len(blocks[b]) : Inner(blocks[b], p)
    /\ i = 1 => blocks[instrs[1].va] = <<>>
    /\ i > 1 => /\ blocks[current] # <<>>
                /\ blocks[current][Len(blocks[current])] = instrs[i - 1]

Named ==
  pc = "lifted" => i = Len(instrs) + 1 /\ blockNames = DOMAIN blocks

BlockInv == IInv /\ Ordered /\ LeadersFound /\ Keyed /\ Cut /\ Named

LEMMA InitBlockInv == Init => BlockInv
BY InitInv DEF Init, BlockInv, Ordered, LeadersFound, Keyed, Cut, Named, Cutting

\* The next instruction starts where the last one ends.
LEMMA SweepOrdered ==
  ASSUME IInv, Ordered, Disassemble
  PROVE  Ordered'
<1> DEFINE d == DecodedAt(offset)
           n == Len(instrs)
<1>1. d \in DecodedInstr /\ d.va = base + offset
  BY DecodedInside DEF Disassemble, IInv
<1>2. instrs' = Append(instrs, d)
  BY DEF Disassemble
<1> HIDE DEF d
<1>3. /\ n \in Nat
      /\ Len(instrs') = n + 1
      /\ instrs'[n + 1] = d
      /\ \A j \in 1 .. n : instrs'[j] = instrs[j]
  BY <1>1, <1>2 DEF IInv, TypeOK
<1>4. \A j \in 1 .. n : /\ instrs[j].va \in Nat
                        /\ instrs[j].length \in Nat
  BY InstrAt, CFGAssumption DEF IInv, DecodedInstr, Addr
<1>5. ASSUME NEW j \in 1 .. n
      PROVE  instrs[j].va + instrs[j].length <= d.va
  <2>1. instrs[n].va + instrs[n].length = d.va
    BY <1>1, <1>5 DEF IInv, SweepTiles
  <2>2. CASE j = n
    BY <1>1, <1>4, <2>1, <2>2 DEF DecodedInstr, Addr
  <2>3. CASE j < n
    <3>1. instrs[j].va + instrs[j].length <= instrs[n].va
      BY <1>3, <1>5, <2>3 DEF Ordered
    <3>2. n \in 1 .. n /\ d.va \in Nat
      BY <1>1, <1>3, <1>5, CFGAssumption DEF DecodedInstr, Addr
    <3> QED
      BY <1>4, <1>5, <2>1, <3>1, <3>2
  <2> QED
    BY <1>3, <1>5, <2>2, <2>3
<1>6. ASSUME NEW j \in 1 .. n + 1, NEW k \in 1 .. n + 1, j < k
      PROVE  instrs'[j].va + instrs'[j].length <= instrs'[k].va
  <2>1. CASE k = n + 1
    <3>1. j \in 1 .. n
      BY <1>3, <1>6, <2>1
    <3> QED
      BY <1>3, <1>5, <2>1, <3>1
  <2>2. CASE k # n + 1
    <3>1. j \in 1 .. n /\ k \in 1 .. n
      BY <1>3, <1>6, <2>2
    <3> QED
      BY <1>3, <1>6, <3>1 DEF Ordered
  <2> QED
    BY <2>1, <2>2
<1> QED
  BY <1>3, <1>6 DEF Ordered

\* Two instructions of the sweep have two addresses.
LEMMA AddressesDiffer ==
  ASSUME IInv, Ordered,
         NEW j \in 1 .. Len(instrs), NEW k \in 1 .. Len(instrs), j < k
  PROVE  instrs[j].va < instrs[k].va
<1>1. /\ instrs[j].va \in Nat /\ instrs[j].length \in Nat \ {0}
      /\ instrs[k].va \in Nat
  BY InstrAt, CFGAssumption DEF IInv, DecodedInstr, Addr
<1>2. instrs[j].va + instrs[j].length <= instrs[k].va
  BY DEF Ordered
<1> QED
  BY <1>1, <1>2

\* An iteration of the leader loop.
LEMMA LeadersGrow ==
  ASSUME IInv, LeadersFound, FindLeader
  PROVE  LeadersFound'
<1>1. /\ pc = "leaders" /\ pc' = "leaders" /\ i \in Nat /\ i' = i + 1
      /\ UNCHANGED instrs
      /\ leaders \subseteq leaders'
      /\ isControlFlow(instrs[i]) =>
           leaders' = leaders \cup FollowedBy(i) \cup ({directTarget(instrs[i])} \ {0})
  BY DEF FindLeader, IInv, TypeOK
<1>2. \A j : FollowedBy(j)' = FollowedBy(j)
  BY <1>1 DEF FollowedBy
<1>3. \A j \in 1 .. i - 1 : Leads(j)'
  BY <1>1, <1>2 DEF LeadersFound, Leads
<1>4. \A j : j = i => Leads(j)'
  BY <1>1, <1>2 DEF Leads
<1>5. \A j \in 1 .. i' - 1 : Leads(j)'
  <2>1. \A j \in 1 .. i' - 1 : j \in 1 .. i - 1 \/ j = i
    BY <1>1
  <2> QED
    BY <1>3, <1>4, <2>1
<1> QED
  BY <1>1, <1>5 DEF LeadersFound, Cutting
\* An iteration of the block loop finds or makes the block of its instruction.
LEMMA KeysGrow ==
  ASSUME IInv, LeadersFound, Keyed, AddToBlock
  PROVE  Keyed'
<1>1. /\ pc = "blocks" /\ pc' = "blocks" /\ i \in 1 .. Len(instrs) /\ i' = i + 1
      /\ UNCHANGED <<instrs, leaders>>
      /\ current' = IF instrs[i].va \in leaders THEN instrs[i].va ELSE current
      /\ DOMAIN blocks' = DOMAIN blocks \cup {current'}
  BY DEF AddToBlock, IInv, TypeOK
<1>2. Cutting /\ Cutting'
  BY <1>1, InstrAt, EmptySeq DEF Cutting, IInv, TypeOK
<1>3. \A j \in 1 .. i' - 1 :
        instrs[j].va \in leaders => instrs[j].va \in DOMAIN blocks'
  <2>1. \A j \in 1 .. i' - 1 : j \in 1 .. i - 1 \/ j = i
    BY <1>1
  <2> QED
    BY <1>1, <1>2, <2>1 DEF Keyed
<1>4. \A b \in DOMAIN blocks' :
        \E j \in 1 .. Len(instrs) : (j < i' \/ j = 1) /\ b = instrs[j].va
  <2>1. \A b \in DOMAIN blocks :
          \E j \in 1 .. Len(instrs) : (j < i' \/ j = 1) /\ b = instrs[j].va
    BY <1>1, <1>2 DEF Keyed
  <2>2. current' \in DOMAIN blocks \/ (i < i' /\ current' = instrs[i].va)
    BY <1>1, <1>2 DEF Keyed
  <2> QED
    BY <1>1, <2>1, <2>2
<1>5. instrs[1].va \in DOMAIN blocks' /\ current' \in DOMAIN blocks'
  BY <1>1, <1>2 DEF Keyed
<1> QED
  BY <1>1, <1>2, <1>3, <1>4, <1>5 DEF Keyed

\* An iteration of the block loop appends to the block that ends with the
\* instruction before, or begins a block with an instruction that leads.
LEMMA BlocksCut ==
  ASSUME IInv, Ordered, LeadersFound, Keyed, Cut, AddToBlock
  PROVE  Cut'
<1> DEFINE old == Block(current')
<1>1. /\ pc = "blocks" /\ pc' = "blocks" /\ i \in 1 .. Len(instrs) /\ i' = i + 1
      /\ UNCHANGED <<instrs, leaders>>
      /\ current' = IF instrs[i].va \in leaders THEN instrs[i].va ELSE current
      /\ DOMAIN blocks' = DOMAIN blocks \cup {current'}
      /\ blocks'[current'] = Append(old, instrs[i])
      /\ \A b \in DOMAIN blocks : b # current' => blocks'[b] = blocks[b]
  BY DEF AddToBlock, IInv, TypeOK
<1>2. Cutting /\ Cutting' /\ Len(instrs) \in Nat
  BY <1>1, InstrAt, EmptySeq DEF Cutting, IInv, TypeOK
<1>3. old \in Seq(DecodedInstr) /\ instrs[i] \in DecodedInstr
  BY <1>1, InstrAt DEF Block, IInv, TypeOK
\* The block to append to is the one just written, or there is none yet.
<1>4. \/ old = <<>>
      \/ /\ i > 1
         /\ old # <<>>
         /\ old[Len(old)] = instrs[i - 1]
         /\ instrs[i].va \notin leaders
         /\ current' \in DOMAIN blocks
  <2>1. CASE i = 1
    <3>1. instrs[1].va \in leaders
      BY <1>2 DEF LeadersFound
    <3>2. current' = instrs[1].va /\ current' \in DOMAIN blocks
      BY <1>1, <1>2, <2>1, <3>1 DEF Keyed
    <3> QED
      BY <1>2, <2>1, <3>2 DEF Cut, Block
  <2>2. CASE i > 1 /\ instrs[i].va \in leaders
    <3>1. \A j \in 1 .. Len(instrs) : j < i => instrs[j].va < instrs[i].va
      BY <1>1, AddressesDiffer
    <3>2. instrs[i].va \notin DOMAIN blocks
      <4>1. SUFFICES ASSUME instrs[i].va \in DOMAIN blocks PROVE FALSE
        OBVIOUS
      <4>2. PICK j \in 1 .. Len(instrs) :
              (j < i \/ j = 1) /\ instrs[i].va = instrs[j].va
        BY <1>2, <4>1 DEF Keyed
      <4>3. instrs[j].va < instrs[i].va /\ instrs[i].va \in Nat
        BY <1>1, <2>2, <3>1, <4>2, InstrAt, CFGAssumption DEF IInv, Addr
      <4> QED
        BY <4>2, <4>3
    <3> QED
      BY <1>1, <2>2, <3>2 DEF Block
  <2>3. CASE i > 1 /\ instrs[i].va \notin leaders
    BY <1>1, <1>2, <2>3 DEF Cut, Keyed, Block
  <2> QED
    BY <1>1, <2>1, <2>2, <2>3
<1> DEFINE n == Len(old)
<1>5. PICK s : s = Append(old, instrs[i])
  OBVIOUS
<1>6. /\ n \in Nat
      /\ Len(s) = n + 1
      /\ s[n + 1] = instrs[i]
      /\ \A p \in 1 .. n : s[p] = old[p]
      /\ old = <<>> <=> n = 0
      /\ s # <<>>
  BY <1>3, <1>5, EmptySeq
\* Every entry of the block appended to.
<1>7. ASSUME NEW p \in 1 .. n + 1
      PROVE  Inner(s, p)'
  <2>1. CASE p = n + 1
    BY <1>1, <1>2, <1>4, <1>6, <2>1 DEF Inner
  <2>2. CASE p \in 1 .. n
    <3>1. Inner(old, p)
      BY <1>2, <1>4, <1>6, <2>2 DEF Cut, Block
    <3>2. PICK j \in 1 .. Len(instrs) :
            /\ j < i
            /\ old[p] = instrs[j]
            /\ p > 1 => j > 1 /\ instrs[j].va \notin leaders
            /\ p < n => j < Len(instrs) /\ instrs[j + 1].va \notin leaders
      BY <3>1 DEF Inner
    <3>3. CASE p < n
      BY <1>1, <1>6, <2>2, <3>2, <3>3 DEF Inner
    <3>4. CASE p = n
      <4>1. /\ i > 1 /\ instrs[i].va \notin leaders
            /\ s[p] = instrs[i - 1]
        BY <1>4, <1>6, <2>2, <3>4
      <4>2. p > 1 => i - 1 > 1 /\ instrs[i - 1].va \notin leaders
        <5>1. \A x, y \in 1 .. Len(instrs) : instrs[x] = instrs[y] => x = y
          BY AddressesDiffer, InstrAt, CFGAssumption DEF IInv, Addr
        <5> QED
          BY <1>1, <1>4, <1>6, <3>2, <3>4, <4>1, <5>1
      <4> QED
        BY <1>1, <1>2, <1>6, <3>4, <4>1, <4>2 DEF Inner
    <3> QED
      BY <1>6, <2>2, <3>3, <3>4
  <2> QED
    BY <1>6, <2>1, <2>2
\* The other blocks stay as they are.
<1>8. ASSUME NEW b \in DOMAIN blocks, b # current',
             NEW t, t = blocks[b],
             NEW p \in 1 .. Len(t)
      PROVE  Inner(t, p)'
  <2>1. Inner(t, p)
    BY <1>2, <1>8 DEF Cut
  <2> QED
    BY <1>1, <1>8, <2>1 DEF Inner
<1>9. ASSUME NEW b \in DOMAIN blocks',
             NEW t, t = blocks'[b],
             NEW p \in 1 .. Len(t)
      PROVE  Inner(t, p)'
  <2>1. CASE b = current'
    BY <1>1, <1>5, <1>6, <1>7, <1>9, <2>1
  <2>2. CASE b # current'
    BY <1>1, <1>8, <1>9, <2>2
  <2> QED
    BY <2>1, <2>2
<1>10. \A b \in DOMAIN blocks' : \A p \in 1 .. Len(blocks'[b]) : Inner(blocks[b], p)'
  BY <1>9 DEF Inner
<1>11. /\ i' > 1
       /\ blocks'[current'] # <<>>
       /\ blocks'[current'][Len(blocks'[current'])] = instrs'[i' - 1]
  BY <1>1, <1>5, <1>6
<1> QED
  BY <1>1, <1>10, <1>11 DEF Cut

LEMMA NextBlockInv == BlockInv /\ [Next]_vars => BlockInv'
<1> SUFFICES ASSUME BlockInv, [Next]_vars PROVE BlockInv'
  OBVIOUS
<1>0. /\ IInv /\ Ordered /\ LeadersFound /\ Keyed /\ Cut /\ Named
      /\ TypeOK /\ Started
      /\ IInv'
  BY NextInv DEF BlockInv, IInv
<1>1. CASE Disassemble
  <2>1. Ordered'
    BY <1>0, <1>1, SweepOrdered
  <2>2. LeadersFound' /\ Keyed' /\ Cut' /\ Named'
    BY <1>0, <1>1 DEF Disassemble, LeadersFound, Keyed, Cut, Named, Cutting
  <2> QED
    BY <1>0, <2>1, <2>2 DEF BlockInv
<1>2. CASE BeginCFG
  <2>1. Ordered' /\ LeadersFound' /\ Keyed' /\ Cut' /\ Named'
    BY <1>0, <1>2
    DEF BeginCFG, Ordered, LeadersFound, Keyed, Cut, Named, Cutting
  <2> QED
    BY <1>0, <2>1 DEF BlockInv
<1>3. CASE FindLeader
  <2>1. LeadersFound'
    BY <1>0, <1>3, LeadersGrow
  <2>2. Ordered' /\ Keyed' /\ Cut' /\ Named'
    BY <1>0, <1>3 DEF FindLeader, Ordered, Keyed, Cut, Named, Cutting
  <2> QED
    BY <1>0, <2>1, <2>2 DEF BlockInv
<1>4. CASE BeginBlocks
  <2>1. /\ pc = "leaders" /\ pc' = "blocks" /\ i > Len(instrs) /\ i' = 1
        /\ current' = instrs[1].va
        /\ blocks' = [b \in {instrs[1].va} |-> <<>>]
        /\ UNCHANGED <<instrs, leaders>>
    BY <1>4 DEF BeginBlocks
  <2>2. /\ Cutting'
        /\ Len(instrs) \in Nat /\ 1 \in 1 .. Len(instrs)
        /\ i = Len(instrs) + 1
    BY <1>0, <2>1, InstrAt DEF Started, Cutting, TypeOK
  <2>3. Ordered' /\ Keyed' /\ Cut' /\ Named'
    BY <1>0, <2>1, <2>2 DEF Ordered, Keyed, Cut, Named
  <2>4. LeadersFound'
    <3>1. \A j : Leads(j) => Leads(j)'
      BY <2>1 DEF Leads, FollowedBy
    <3> QED
      BY <1>0, <2>1, <2>2, <3>1 DEF LeadersFound
  <2> QED
    BY <1>0, <2>3, <2>4 DEF BlockInv
<1>5. CASE AddToBlock
  <2>1. Keyed' /\ Cut'
    BY <1>0, <1>5, KeysGrow, BlocksCut
  <2>2. pc = "blocks" /\ pc' = "blocks" /\ UNCHANGED <<instrs, leaders>>
    BY <1>5 DEF AddToBlock
  <2>3. Ordered' /\ Named'
    BY <1>0, <2>2 DEF Ordered, Named
  <2>4. LeadersFound'
    <3>1. \A j : Leads(j) => Leads(j)'
      BY <2>2 DEF Leads, FollowedBy
    <3> QED
      BY <1>0, <2>2, <3>1 DEF LeadersFound, Cutting
  <2> QED
    BY <1>0, <2>1, <2>3, <2>4 DEF BlockInv
<1>6. CASE lift
  <2>1. /\ pc = "blocks" /\ pc' = "lifted" /\ i = Len(instrs) + 1
        /\ blockNames' = DOMAIN blocks
        /\ UNCHANGED <<instrs, i, leaders, blocks, current>>
    BY <1>0, <1>6, InstrAt DEF lift, TypeOK
  <2>2. Cutting' <=> Cutting
    BY <2>1 DEF Cutting
  <2>3. Ordered' /\ Keyed' /\ Named'
    BY <1>0, <2>1, <2>2 DEF Ordered, Keyed, Named
  <2>4. Cut'
    BY <1>0, <2>1, <2>2 DEF Cut, Inner
  <2>5. LeadersFound'
    <3>1. \A j : Leads(j) => Leads(j)'
      BY <2>1 DEF Leads, FollowedBy
    <3> QED
      BY <1>0, <2>1, <2>2, <3>1 DEF LeadersFound
  <2> QED
    BY <1>0, <2>3, <2>4, <2>5 DEF BlockInv
<1>7. CASE UNCHANGED vars
  BY <1>0, <1>7
  DEF vars, BlockInv, Ordered, LeadersFound, Leads, FollowedBy, Keyed, Cut, Inner,
      Named, Cutting
<1> QED
  BY <1>1, <1>2, <1>3, <1>4, <1>5, <1>6, <1>7 DEF Next

LEMMA BlockInvAlways == Spec => []BlockInv
BY InitBlockInv, NextBlockInv, PTL DEF Spec

\* Once the blocks are made, what a jump targets leads if it is an instruction
\* at all: directTarget's 0 for "none" loses only a jump to the first one.
LEMMA TargetLeads ==
  ASSUME BlockInv, Cutting,
         NEW j \in 1 .. Len(instrs), isControlFlow(instrs[j]), instrs[j].relative,
         NEW e \in 1 .. Len(instrs),
         (instrs[j].va + instrs[j].length + instrs[j].rel) % Mod = instrs[e].va
  PROVE  instrs[e].va \in leaders
<1>1. directTarget(instrs[j]) = instrs[e].va
  BY DEF directTarget
<1>2. CASE instrs[e].va # 0
  BY <1>1, <1>2 DEF BlockInv, LeadersFound, Leads
<1>3. CASE instrs[e].va = 0
  <2>1. e = 1
    <3>1. SUFFICES ASSUME 1 < e PROVE FALSE
      BY InstrAt DEF BlockInv, IInv
    <3>2. 1 \in 1 .. Len(instrs) /\ instrs[1].va \in Nat
      BY InstrAt, CFGAssumption DEF BlockInv, IInv, Addr
    <3>3. instrs[1].va < instrs[e].va
      BY <3>1, <3>2, AddressesDiffer DEF BlockInv
    <3> QED
      BY <1>3, <3>2, <3>3
  <2> QED
    BY <2>1 DEF BlockInv, LeadersFound
<1> QED
  BY <1>2, <1>3

LEMMA AddrMod == ASSUME NEW a \in Addr PROVE a % Mod = a
<1>1. \A x \in Nat, m \in Nat \ {0} : x < m => x % m = x
  OBVIOUS
<1>2. a \in Nat /\ a < Mod /\ Mod \in Nat \ {0}
  BY CFGAssumption DEF Addr
<1> QED
  BY <1>1, <1>2, Zenon

\* A jump to an instruction of the function finds that instruction's label and
\* a conditional jump the label it falls through to (X86Lifter.cpp:1164-1222).
THEOREM Labels_Resolve == Spec => []LabelsResolve
<1>1. BlockInv => LabelsResolve
  <2> SUFFICES ASSUME BlockInv, pc = "lifted",
                      NEW j \in 1 .. Len(instrs)
               PROVE  LET d == instrs[j]
                          target == (d.va + d.length + d.rel) % Mod
                      IN  /\ /\ d.mnemonic \in {"jcc", "jmp"}
                             /\ d.relative
                             /\ \E e \in 1 .. Len(instrs) : instrs[e].va = target
                             => trueSymLabel(d) = target
                          /\ d.mnemonic = "jcc" /\ j < Len(instrs) =>
                               falseSymLabel(d) = instrs[j + 1].va
    BY DEF LabelsResolve
  <2> DEFINE target == (instrs[j].va + instrs[j].length + instrs[j].rel) % Mod
  <2>1. Cutting /\ i = Len(instrs) + 1 /\ blockNames = DOMAIN blocks
    BY InstrAt DEF BlockInv, IInv, Cutting, Named
  <2>2. \A e \in 1 .. Len(instrs) :
          instrs[e].va \in leaders => instrs[e].va \in blockNames
    BY <2>1, InstrAt DEF BlockInv, IInv, Keyed
  <2>3. ASSUME instrs[j].mnemonic \in {"jcc", "jmp"}, instrs[j].relative,
               NEW e \in 1 .. Len(instrs), instrs[e].va = target
        PROVE  trueSymLabel(instrs[j]) = target
    <3>1. instrs[e].va \in leaders
      BY <2>1, <2>3, TargetLeads DEF isControlFlow
    <3> QED
      BY <2>2, <2>3, <3>1 DEF trueSymLabel, LabelOf
  <2>4. ASSUME instrs[j].mnemonic = "jcc", j < Len(instrs)
        PROVE  falseSymLabel(instrs[j]) = instrs[j + 1].va
    <3>1. Len(instrs) \in Nat /\ j + 1 \in 1 .. Len(instrs)
      BY <2>4, InstrAt DEF BlockInv, IInv
    <3>2. /\ instrs[j + 1].va = instrs[j].va + instrs[j].length
          /\ instrs[j + 1].va \in Addr
      BY <2>4, <3>1, InstrAt DEF BlockInv, IInv, SweepTiles
    <3>3. (instrs[j].va + instrs[j].length) % Mod = instrs[j + 1].va
      <4>1. instrs[j + 1].va % Mod = instrs[j + 1].va
        BY <3>2, AddrMod
      <4> QED
        BY <3>2, <4>1, Zenon
    <3>4. instrs[j + 1].va \in leaders
      BY <2>1, <2>4 DEF BlockInv, LeadersFound, Leads, isControlFlow, FollowedBy
    <3> QED
      BY <2>2, <3>1, <3>3, <3>4 DEF falseSymLabel, LabelOf
  <2> QED
    BY <2>3, <2>4
<1> QED
  BY <1>1, BlockInvAlways, PTL

\* Control enters a block at its first instruction and leaves it after its
\* last (X86Lifter.cpp:275-311).
THEOREM Blocks_Straight == Spec => []BlocksStraight
<1>1. BlockInv => BlocksStraight
  <2> SUFFICES ASSUME BlockInv, pc = "lifted",
                      NEW b \in DOMAIN blocks,
                      NEW p \in 1 .. Len(blocks[b])
               PROVE  /\ p < Len(blocks[b]) => ~isControlFlow(blocks[b][p])
                      /\ p > 1 => \A j \in 1 .. Len(instrs) :
                           isControlFlow(instrs[j]) /\ instrs[j].relative
                             => (instrs[j].va + instrs[j].length + instrs[j].rel) % Mod
                                  # blocks[b][p].va
    BY DEF BlocksStraight
  <2>1. Cutting
    BY DEF BlockInv, Keyed, Cutting
  <2>2. PICK e \in 1 .. Len(instrs) :
          /\ blocks[b][p] = instrs[e]
          /\ p > 1 => instrs[e].va \notin leaders
          /\ p < Len(blocks[b]) =>
               e < Len(instrs) /\ instrs[e + 1].va \notin leaders
    BY <2>1 DEF BlockInv, Cut, Inner
  <2>3. p < Len(blocks[b]) => ~isControlFlow(blocks[b][p])
    BY <2>1, <2>2 DEF BlockInv, LeadersFound, Leads, FollowedBy
  <2>4. ASSUME p > 1, NEW j \in 1 .. Len(instrs),
               isControlFlow(instrs[j]), instrs[j].relative
        PROVE  (instrs[j].va + instrs[j].length + instrs[j].rel) % Mod
                 # blocks[b][p].va
    BY <2>1, <2>2, <2>4, TargetLeads
  <2> QED
    BY <2>3, <2>4
<1> QED
  BY <1>1, BlockInvAlways, PTL

(***************************************************************************)
(* The blocks partition the instructions.                                  *)
(*                                                                         *)
(* A block is a run of instructions m .. n that begins with its key, a      *)
(* leader, and has no other leader in it.  The current block reaches the   *)
(* instruction added last; a block left is followed by a leader, which is   *)
(* why it is never appended to again.                                      *)
(***************************************************************************)

IsRun(b, m, n) ==
  /\ instrs[m].va = b
  /\ blocks[b] = SubSeq(instrs, m, n)
  /\ m <= n \/ (m = 1 /\ n = 0 /\ b = current)
  /\ \A j \in m + 1 .. n : instrs[j].va \notin leaders
  /\ b = current => n = i - 1
  /\ b # current => n < i - 1 /\ instrs[n + 1].va \in leaders

Runs ==
  Cutting =>
    /\ DOMAIN blocks \subseteq leaders
    /\ \A b \in DOMAIN blocks : \E m \in 1 .. Len(instrs), n \in 0 .. Len(instrs) :
         IsRun(b, m, n)

\* A run grows by the instruction after it.
LEMMA RunGrows ==
  ASSUME TypeOK, NEW n \in 1 .. Len(instrs), NEW m \in 1 .. n
  PROVE  SubSeq(instrs, m, n) = Append(SubSeq(instrs, m, n - 1), instrs[n])
<1>1. /\ Len(instrs) \in Nat
      /\ \A j \in 1 .. Len(instrs) : instrs[j] \in DecodedInstr
  BY InstrAt
<1>2. /\ SubSeq(instrs, m, n) \in Seq(DecodedInstr)
      /\ Len(SubSeq(instrs, m, n)) = n - m + 1
      /\ \A j \in 1 .. n - m + 1 : SubSeq(instrs, m, n)[j] = instrs[m + j - 1]
  BY <1>1, SubSeqProperties
<1>3. /\ SubSeq(instrs, m, n - 1) \in Seq(DecodedInstr)
      /\ Len(SubSeq(instrs, m, n - 1)) = n - m
      /\ \A j \in 1 .. n - m : SubSeq(instrs, m, n - 1)[j] = instrs[m + j - 1]
  <2>1. \A j \in m .. n - 1 : instrs[j] \in DecodedInstr
    BY <1>1
  <2>2. n - 1 \in Int /\ (n - 1) - m + 1 = n - m
        /\ (IF m <= n - 1 THEN (n - 1) - m + 1 ELSE 0) = n - m
    OBVIOUS
  <2> QED
    BY <2>1, <2>2, SubSeqProperties
<1> DEFINE s == SubSeq(instrs, m, n)
           t == SubSeq(instrs, m, n - 1)
<1> HIDE DEF s, t
<1>4. Append(t, instrs[n]) \in Seq(DecodedInstr) /\ Len(Append(t, instrs[n])) = n - m + 1
  BY <1>1, <1>3 DEF t
<1>5. ASSUME NEW j \in 1 .. n - m + 1
      PROVE  s[j] = Append(t, instrs[n])[j]
  <2>1. CASE j = n - m + 1
    BY <1>1, <1>2, <1>3, <2>1 DEF s, t
  <2>2. CASE j # n - m + 1
    BY <1>1, <1>2, <1>3, <2>2 DEF s, t
  <2> QED
    BY <2>1, <2>2
<1>6. s = Append(t, instrs[n])
  BY <1>2, <1>4, <1>5 DEF s
<1> QED
  BY <1>6 DEF s, t

\* A run of one instruction.
LEMMA RunBegins ==
  ASSUME TypeOK, NEW n \in 1 .. Len(instrs)
  PROVE  SubSeq(instrs, n, n) = Append(<<>>, instrs[n])
<1>1. n \in Int /\ n - 1 \in Int /\ n - 1 < n /\ n \in 1 .. n
  BY InstrAt
<1>2. SubSeq(instrs, n, n - 1) = <<>>
  BY <1>1, SubSeqEmpty
<1> QED
  BY <1>1, <1>2, RunGrows

\* An iteration of the block loop extends the current run or begins one.
LEMMA RunsGrow ==
  ASSUME IInv, Ordered, LeadersFound, Keyed, Runs, AddToBlock
  PROVE  Runs'
<1>1. /\ pc = "blocks" /\ pc' = "blocks" /\ i \in 1 .. Len(instrs) /\ i' = i + 1
      /\ UNCHANGED <<instrs, leaders>>
      /\ current' = IF instrs[i].va \in leaders THEN instrs[i].va ELSE current
      /\ DOMAIN blocks' = DOMAIN blocks \cup {current'}
      /\ blocks'[current'] = Append(Block(current'), instrs[i])
      /\ \A b \in DOMAIN blocks : b # current' => blocks'[b] = blocks[b]
  BY DEF AddToBlock, IInv, TypeOK
<1>2. Cutting /\ Cutting' /\ Len(instrs) \in Nat /\ TypeOK
  BY <1>1, InstrAt, EmptySeq DEF Cutting, IInv, TypeOK
<1>3. current \in DOMAIN blocks /\ instrs[1].va \in leaders
  BY <1>2 DEF Keyed, LeadersFound
<1>4. DOMAIN blocks' \subseteq leaders'
  BY <1>1, <1>2, <1>3 DEF Runs
<1> PICK c, h : c = current' /\ h = i
  OBVIOUS
<1>5. CASE i = 1
  <2>1. \A b \in DOMAIN blocks : b = instrs[1].va
    <3>1. \A j \in 1 .. Len(instrs) : j < i => FALSE
      BY <1>5
    <3> QED
      BY <1>2, <1>5, <3>1 DEF Keyed
  <2>2. current' = current /\ current = instrs[1].va /\ DOMAIN blocks = {current}
    BY <1>1, <1>3, <1>5, <2>1
  <2>3. Block(current') = <<>>
    <3>1. PICK m \in 1 .. Len(instrs), n \in 0 .. Len(instrs) : IsRun(current, m, n)
      BY <1>2, <1>3 DEF Runs
    <3>2. n = 0 /\ n < m
      BY <1>5, <3>1 DEF IsRun
    <3>3. blocks[current] = <<>>
      BY <3>1, <3>2, SubSeqEmpty DEF IsRun
    <3> QED
      BY <1>3, <2>2, <3>3 DEF Block
  <2>4. blocks'[current'] = SubSeq(instrs, 1, 1)
    BY <1>1, <1>2, <1>5, <2>3, RunBegins
  <2>5. IsRun(c, 1, 1)'
    BY <1>1, <1>5, <2>2, <2>4 DEF IsRun
  <2> QED
    BY <1>1, <1>2, <1>4, <1>5, <2>2, <2>5 DEF Runs
<1>6. CASE i > 1 /\ instrs[i].va \in leaders
  <2>1. instrs[i].va \notin DOMAIN blocks
    <3>1. SUFFICES ASSUME instrs[i].va \in DOMAIN blocks PROVE FALSE
      OBVIOUS
    <3>2. PICK j \in 1 .. Len(instrs) : (j < i \/ j = 1) /\ instrs[i].va = instrs[j].va
      BY <1>2, <3>1 DEF Keyed
    <3>3. instrs[j].va < instrs[i].va /\ instrs[i].va \in Nat
      BY <1>1, <1>6, <3>2, AddressesDiffer, InstrAt, CFGAssumption DEF IInv, Addr
    <3> QED
      BY <3>2, <3>3
  <2>2. current' = instrs[i].va /\ Block(current') = <<>>
    BY <1>1, <1>6, <2>1 DEF Block
  <2>3. blocks'[current'] = SubSeq(instrs, i, i)
    BY <1>1, <1>2, <2>2, RunBegins
  <2>4. IsRun(c, h, h)'
    BY <1>1, <2>2, <2>3 DEF IsRun
  <2>5. ASSUME NEW b \in DOMAIN blocks, NEW m \in 1 .. Len(instrs), NEW n \in 0 .. Len(instrs),
               IsRun(b, m, n)
        PROVE  IsRun(b, m, n)'
    <3>1. b # current' /\ blocks'[b] = blocks[b]
      BY <1>1, <2>1, <2>2
    <3>2. n < i /\ instrs[n + 1].va \in leaders
      BY <1>1, <1>6, <2>5 DEF IsRun
    <3>3. m <= n
      BY <1>1, <1>6, <2>5 DEF IsRun
    <3> QED
      BY <1>1, <2>5, <3>1, <3>2, <3>3 DEF IsRun
  <2>6. \A b \in DOMAIN blocks : 
          \E x \in 1 .. Len(instrs), y \in 0 .. Len(instrs) : IsRun(b, x, y)'
    BY <1>2, <2>5 DEF Runs
  <2>7. h \in 1 .. Len(instrs) /\ h \in 0 .. Len(instrs) /\ UNCHANGED instrs /\ DOMAIN blocks' = DOMAIN blocks \cup {c}
    BY <1>1, <1>2
  <2> QED
    BY <1>1, <1>4, <2>4, <2>6, <2>7 DEF Runs
<1>7. CASE i > 1 /\ instrs[i].va \notin leaders
  <2>1. current' = current /\ DOMAIN blocks' = DOMAIN blocks /\ Block(current') = blocks[current]
    BY <1>1, <1>3, <1>7 DEF Block
  <2>2. PICK m \in 1 .. Len(instrs), n \in 0 .. Len(instrs) : IsRun(current, m, n)
    BY <1>2, <1>3 DEF Runs
  <2>3. n = i - 1 /\ m \in 1 .. i
    BY <1>1, <1>7, <2>2 DEF IsRun
  <2>4. blocks'[c] = SubSeq(instrs, m, i)
    BY <1>1, <1>2, <2>1, <2>2, <2>3, RunGrows DEF IsRun
  <2>5. IsRun(c, m, h)'
    <3>1. \A j \in m + 1 .. i : instrs[j].va \notin leaders
      <4>1. \A j \in m + 1 .. i : j \in m + 1 .. n \/ j = i
        BY <1>1, <2>3
      <4> QED
        BY <1>7, <2>2, <4>1 DEF IsRun
    <3>2. m <= i /\ instrs[m].va = current /\ i' - 1 = i
      BY <1>1, <2>2, <2>3 DEF IsRun
    <3> QED
      BY <1>1, <2>1, <2>4, <3>1, <3>2 DEF IsRun
  <2>6. ASSUME NEW b \in DOMAIN blocks, b # current,
               NEW x \in 1 .. Len(instrs), NEW y \in 0 .. Len(instrs), IsRun(b, x, y)
        PROVE  IsRun(b, x, y)'
    <3>1. blocks'[b] = blocks[b]
      BY <1>1, <2>1, <2>6
    <3>2. y < i' - 1 /\ instrs[y + 1].va \in leaders
      BY <1>1, <2>6 DEF IsRun
    <3> QED
      BY <1>1, <2>1, <2>6, <3>1, <3>2 DEF IsRun
  <2>7. \A b \in DOMAIN blocks' : b # c =>
          \E x \in 1 .. Len(instrs), y \in 0 .. Len(instrs) : IsRun(b, x, y)'
    BY <1>2, <2>1, <2>6 DEF Runs
  <2>8. h \in 0 .. Len(instrs) /\ UNCHANGED instrs
    BY <1>1, <1>2
  <2> QED
    BY <1>2, <1>4, <2>5, <2>7, <2>8 DEF Runs
<1> QED
  BY <1>1, <1>5, <1>6, <1>7

\* A set of numbers up to j that is not empty has a greatest one.
LEMMA Greatest ==
  ASSUME NEW j \in Nat, NEW S \in SUBSET (1 .. j), S # {}
  PROVE  \E x \in S : \A y \in S : y <= x
<1> DEFINE R == OpToRel(<, Nat)
           T == {j - x : x \in S}
<1>1. T \in SUBSET Nat /\ T # {}
  <2>1. \A x \in S : x \in 1 .. j /\ j - x \in Nat
    OBVIOUS
  <2> QED
    BY <2>1
<1>2. PICK t \in T : \A u \in T : ~ (<<u, t>> \in R)
  <2>1. IsWellFoundedOn(R, Nat)
    BY NatLessThanWellFounded
  <2> HIDE DEF R, T
  <2> QED
    BY <1>1, <2>1, WFMin
<1>3. PICK x \in S : t = j - x
  OBVIOUS
<1>4. ASSUME NEW y \in S
      PROVE  y <= x
  <2>1. j - y \in T
    OBVIOUS
  <2>2. j - y < t => <<j - y, t>> \in R
    BY <1>1, <2>1 DEF OpToRel
  <2>3. ~ (j - y < t)
    <3> HIDE DEF R
    <3> QED
      BY <1>2, <2>1, <2>2
  <2> QED
    BY <1>3, <2>3
<1> QED
  BY <1>4

LEMMA NextRuns == BlockInv /\ Runs /\ [Next]_vars => Runs'
<1> SUFFICES ASSUME BlockInv, Runs, [Next]_vars PROVE Runs'
  OBVIOUS
<1>0. /\ IInv /\ Ordered /\ LeadersFound /\ Keyed /\ TypeOK /\ Started
  BY DEF BlockInv, IInv
<1>1. CASE Disassemble \/ BeginCFG \/ FindLeader
  <2>1. Cutting' => Cutting' /\ instrs' = <<>>
    BY <1>1 DEF Disassemble, BeginCFG, FindLeader, Cutting
  <2> QED
    BY <2>1 DEF Runs, Cutting
<1>2. CASE BeginBlocks
  <2>1. /\ pc = "leaders" /\ i' = 1 /\ current' = instrs[1].va
        /\ blocks' = [b \in {instrs[1].va} |-> <<>>]
        /\ UNCHANGED <<instrs, leaders>>
    BY <1>2 DEF BeginBlocks
  <2>2. 1 \in 1 .. Len(instrs) /\ 0 \in 0 .. Len(instrs)
    BY <1>0, <2>1, InstrAt DEF Started
  <2>3. SubSeq(instrs, 1, 0) = <<>>
    BY SubSeqEmpty
  <2>4. IsRun(instrs[1].va, 1, 0)'
    BY <2>1, <2>3 DEF IsRun
  <2>5. instrs[1].va \in leaders
    BY <1>0, <2>1 DEF LeadersFound
  <2> QED
    BY <2>1, <2>2, <2>4, <2>5 DEF Runs
<1>3. CASE AddToBlock
  BY <1>0, <1>3, RunsGrow
<1>4. CASE lift \/ UNCHANGED vars
  <2>1. UNCHANGED <<instrs, i, leaders, blocks, current>> /\ (Cutting' => Cutting)
    BY <1>4 DEF lift, vars, Cutting
  <2>2. \A b, m, n : IsRun(b, m, n) => IsRun(b, m, n)'
    BY <2>1 DEF IsRun
  <2> QED
    BY <2>1, <2>2 DEF Runs
<1> QED
  BY <1>1, <1>2, <1>3, <1>4 DEF Next

\* Every instruction is in exactly one block, the one whose key is the greatest
\* not above its address, and a block has its instructions in order
\* (X86Lifter.cpp:302-311): for functions of any length.
THEOREM Blocks_Partition == Spec => []BlocksPartition
<1> DEFINE inBlock(b, d) == b <= d.va /\ \A c \in DOMAIN blocks : c <= d.va => c <= b
<1>1. ASSUME BlockInv, Runs, pc = "lifted",
             NEW b \in DOMAIN blocks
      PROVE  \E m, n \in 1 .. Len(instrs) :
               /\ instrs[m].va = b
               /\ blocks[b] = SubSeq(instrs, m, n)
               /\ \A j \in 1 .. Len(instrs) : j \in m .. n <=> inBlock(b, instrs[j])
  <2>1. Cutting /\ i = Len(instrs) + 1 /\ Len(instrs) \in Nat /\ Len(instrs) > 0
    BY <1>1, InstrAt DEF BlockInv, IInv, Keyed, Named, Cutting
  <2>2. PICK m \in 1 .. Len(instrs), n \in 0 .. Len(instrs) : IsRun(b, m, n)
    BY <1>1, <2>1 DEF Runs
  <2>3. /\ instrs[m].va = b /\ blocks[b] = SubSeq(instrs, m, n)
        /\ \A j \in m + 1 .. n : instrs[j].va \notin leaders
        /\ n < Len(instrs) => instrs[n + 1].va \in leaders
        /\ m <= n
    <3>1. CASE b = current
      BY <2>1, <2>2, <3>1 DEF IsRun
    <3>2. CASE b # current
      BY <2>1, <2>2, <3>2 DEF IsRun
    <3> QED
      BY <3>1, <3>2
  <2>4. \A j \in 1 .. Len(instrs) : instrs[j].va \in Nat
    BY <1>1, InstrAt, CFGAssumption DEF BlockInv, IInv, Addr
  <2>5. \A x, y \in 1 .. Len(instrs) : x < y => instrs[x].va < instrs[y].va
    BY <1>1, AddressesDiffer DEF BlockInv
  <2>6. \A c \in DOMAIN blocks :
          c \in leaders /\ \E q \in 1 .. Len(instrs) : c = instrs[q].va
    BY <1>1, <2>1 DEF Runs, BlockInv, Keyed
  <2>7. ASSUME NEW j \in 1 .. Len(instrs), j \in m .. n
        PROVE  inBlock(b, instrs[j])
    <3>1. b <= instrs[j].va
      BY <2>3, <2>4, <2>5, <2>7
    <3>2. ASSUME NEW c \in DOMAIN blocks, c <= instrs[j].va
          PROVE  c <= b
      <4>1. PICK q \in 1 .. Len(instrs) : c = instrs[q].va
        BY <2>6, <3>2
      <4>2. c \in leaders
        BY <2>6, <3>2
      <4>3. ~ (j < q)
        BY <2>4, <2>5, <3>2, <4>1
      <4>4. q <= m
        BY <2>3, <2>7, <4>1, <4>2, <4>3
      <4> QED
        BY <2>3, <2>4, <2>5, <4>1, <4>4
    <3> QED
      BY <3>1, <3>2
  <2>8. ASSUME NEW j \in 1 .. Len(instrs), inBlock(b, instrs[j])
        PROVE  j \in m .. n
    <3>1. ~ (j < m)
      BY <2>3, <2>4, <2>5, <2>8
    <3>2. ~ (n < j)
      <4>1. SUFFICES ASSUME n < j PROVE FALSE
        OBVIOUS
      <4>2. n + 1 \in 1 .. Len(instrs) /\ n < Len(instrs) /\ m < n + 1
        BY <2>1, <2>3, <4>1
      <4>3. instrs[n + 1].va \in DOMAIN blocks
        BY <1>1, <2>1, <2>3, <4>2 DEF BlockInv, Keyed
      <4>4. instrs[n + 1].va <= instrs[j].va
        BY <2>4, <2>5, <4>1, <4>2
      <4>5. b < instrs[n + 1].va
        BY <2>3, <2>5, <4>2
      <4> QED
        BY <2>3, <2>4, <2>8, <4>2, <4>3, <4>4, <4>5
    <3> QED
      BY <3>1, <3>2
  <2>9. n \in 1 .. Len(instrs)
    BY <2>3
  <2> HIDE DEF inBlock
  <2> QED
    BY <2>3, <2>7, <2>8, <2>9
<1>2. ASSUME BlockInv, Runs, pc = "lifted",
             NEW j \in 1 .. Len(instrs)
      PROVE  \E b \in DOMAIN blocks : inBlock(b, instrs[j])
  <2> DEFINE before == {x \in 1 .. j : instrs[x].va \in DOMAIN blocks}
  <2>1. Cutting /\ Len(instrs) \in Nat
    BY <1>2, InstrAt DEF BlockInv, IInv, Cutting
  <2>2. \A x \in 1 .. Len(instrs) : instrs[x].va \in Nat
    BY <1>2, InstrAt, CFGAssumption DEF BlockInv, IInv, Addr
  <2>3. \A x, y \in 1 .. Len(instrs) : x < y => instrs[x].va < instrs[y].va
    BY <1>2, AddressesDiffer DEF BlockInv
  <2>4. 1 \in before
    BY <1>2, <2>1 DEF BlockInv, Keyed
  <2>5. PICK x \in before : \A y \in before : y <= x
    <3>1. before \in SUBSET (1 .. j) /\ before # {} /\ j \in Nat
      BY <2>4
    <3> HIDE DEF before
    <3> QED
      BY <3>1, Greatest
  <2>6. ASSUME NEW c \in DOMAIN blocks, c <= instrs[j].va
        PROVE  c <= instrs[x].va
    <3>1. PICK q \in 1 .. Len(instrs) : c = instrs[q].va
      BY <1>2, <2>1, <2>6 DEF BlockInv, Keyed
    <3>2. ~ (j < q)
      BY <2>2, <2>3, <2>6, <3>1
    <3>3. q \in before
      BY <2>6, <3>1, <3>2
    <3> QED
      BY <2>2, <2>3, <2>5, <3>1, <3>3
  <2>7. instrs[x].va <= instrs[j].va
    BY <2>2, <2>3
  <2> QED
    BY <2>6, <2>7
<1> HIDE DEF inBlock
<1>3. BlockInv /\ Runs => BlocksPartition
  BY <1>1, <1>2 DEF BlocksPartition, inBlock
<1>4. Init => Runs
  BY DEF Init, Runs, Cutting
<1> QED
  BY <1>3, <1>4, NextRuns, BlockInvAlways, PTL DEF Spec
=============================================================================
