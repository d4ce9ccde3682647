---------------------------- MODULE LoaderProofs ----------------------------
(***************************************************************************)
(* load is a client of GuestMemory like any other: with the client that may *)
(* pass every argument (AnyClient), each step of a load is one of           *)
(* GuestMemoryClient's calls, or changes nothing there.  What the client's *)
(* proofs say then holds of every load of every file: the window is kept   *)
(* to the end, and no page of the rest of the process is taken.  The       *)
(* invariant is about load's own state: with it every argument load        *)
(* computes, from headers nobody checked, is an address again.             *)
(***************************************************************************)
EXTENDS Loader, GuestMemoryProofs, FiniteSetTheorems, WellFoundedInduction

\* The client that may pass anything, as often as it likes.  These are the
\* parameters of GuestMemoryClient: nothing in Loader depends on them, so the
\* hypothesis narrows no theorem about load.
AnyClient ==
  /\ Images = Addr \X Addr \X Addr
  /\ Ranges = Addr \X Addr
  /\ Accesses = Addr \X Addr
  /\ Prots = SUBSET {"r", "w", "x"}
  /\ MaxRegions = Cardinality(Region) + 1

(***************************************************************************)
(* The least and the greatest of some addresses.                           *)
(***************************************************************************)

LEMMA SmallestNat ==
  ASSUME NEW S \in SUBSET Nat, S # {}
  PROVE  \E x \in S : \A y \in S : x <= y
<1> DEFINE R == OpToRel(<, Nat)
<1>1. PICK x \in S : \A y \in S : ~ (<<y, x>> \in R)
  <2>1. IsWellFoundedOn(R, Nat)
    BY NatLessThanWellFounded
  <2> HIDE DEF R
  <2> QED
    BY <2>1, WFMin
<1>2. \A y \in S : y < x => <<y, x>> \in R
  <2>1. SUFFICES ASSUME NEW y \in S, y < x
                 PROVE  <<y, x>> \in R
    OBVIOUS
  <2>2. <<y, x>> \in Nat \X Nat /\ <<y, x>>[1] < <<y, x>>[2]
    BY <2>1
  <2> QED
    BY <2>2 DEF OpToRel
<1>3. SUFFICES ASSUME NEW y \in S
               PROVE  x <= y
  OBVIOUS
<1>4. ~ (y < x)
  <2> HIDE DEF R
  <2> QED
    BY <1>1, <1>2
<1>5. x \in Int /\ y \in Int
  OBVIOUS
<1> HIDE DEF R
<1> QED
  BY <1>4, <1>5

LEMMA MinAddr ==
  ASSUME NEW S \in SUBSET Addr, S # {}
  PROVE  Min(S) \in Addr
<1>1. S \in SUBSET Nat
  BY DEF Addr
<1>2. PICK x \in S : \A y \in S : x <= y
  BY <1>1, SmallestNat
<1> QED
  BY <1>2 DEF Min

LEMMA MaxAddr ==
  ASSUME NEW S \in SUBSET Addr, S # {}
  PROVE  Max(S) \in Addr
<1> DEFINE T == {Mod - 1 - x : x \in S}
<1>1. Mod \in Nat \ {0} /\ \A x \in S : x \in Nat /\ Mod - 1 - x \in Nat
  BY PagingAssumption DEF Addr
<1>2. T \in SUBSET Nat
  BY <1>1
<1>3. T # {}
  OBVIOUS
<1>4. PICK t \in T : \A u \in T : t <= u
  <2> HIDE DEF T
  <2> QED
    BY <1>2, <1>3, SmallestNat
<1>5. PICK x \in S : t = Mod - 1 - x
  OBVIOUS
<1>6. \A y \in S : Mod - 1 - y \in T
  OBVIOUS
<1>7. ASSUME NEW y \in S
      PROVE  x >= y
  <2>1. t <= Mod - 1 - y
    BY <1>4, <1>6
  <2> QED
    BY <1>1, <1>5, <2>1
<1>8. \E m \in S : \A y \in S : m >= y
  BY <1>7
<1>9. Max(S) \in S
  BY <1>8 DEF Max
<1> QED
  BY <1>9

(***************************************************************************)
(* Each call load makes is one the client may make.                        *)
(***************************************************************************)

\* There is room for every region there can be.
LEMMA RegionsBounded ==
  ASSUME AnyClient, TypeOK
  PROVE  Cardinality(regions) < MaxRegions
<1> DEFINE Triples == (Addr \X Addr) \X SUBSET {"r", "w", "x"}
           f == [t \in Triples |-> [addr |-> t[1][1], length |-> t[1][2], prot |-> t[2]]]
<1>1. IsFiniteSet(Addr)
  BY FS_Interval, PagingAssumption DEF Addr
<1>2. IsFiniteSet(Addr \X Addr)
  BY <1>1, FS_Product
<1>3. IsFiniteSet({"r", "w", "x"})
  <2>1. IsFiniteSet({} \cup {"r"})
    BY FS_EmptySet, FS_AddElement
  <2>2. IsFiniteSet(({} \cup {"r"}) \cup {"w"})
    BY <2>1, FS_AddElement
  <2>3. IsFiniteSet((({} \cup {"r"}) \cup {"w"}) \cup {"x"})
    BY <2>2, FS_AddElement
  <2>4. {"r", "w", "x"} = (({} \cup {"r"}) \cup {"w"}) \cup {"x"}
    OBVIOUS
  <2> QED
    BY <2>3, <2>4
<1>4. IsFiniteSet(SUBSET {"r", "w", "x"})
  BY <1>3, FS_SUBSET
<1>5. IsFiniteSet(Triples)
  BY <1>2, <1>4, FS_Product
<1>6. f \in Surjection(Triples, Region)
  <2>1. ASSUME NEW t \in Triples
        PROVE  f[t] \in Region
    BY DEF Region
  <2>2. ASSUME NEW r \in Region
        PROVE  \E t \in Triples : f[t] = r
    <3>1. <<<<r.addr, r.length>>, r.prot>> \in Triples
      BY DEF Region
    <3>2. r = [addr |-> r.addr, length |-> r.length, prot |-> r.prot]
      BY DEF Region
    <3>3. f[<<<<r.addr, r.length>>, r.prot>>] = r
      BY <3>1, <3>2
    <3> QED
      BY <3>1, <3>3
  <2> QED
    BY <2>1, <2>2 DEF Surjection
<1>7. IsFiniteSet(Region)
  <2> HIDE DEF Triples, f
  <2> QED
    BY <1>5, <1>6, FS_Surjection
<1>8. Cardinality(regions) <= Cardinality(Region) /\ IsFiniteSet(regions)
  BY <1>7, FS_Subset DEF TypeOK
<1>9. Cardinality(Region) \in Nat /\ Cardinality(regions) \in Nat
  BY <1>7, <1>8, FS_CardinalityType
<1> QED
  BY <1>8, <1>9 DEF AnyClient

\* A call of the object has returned, or has thrown or killed the process.
Returned == Next /\ live' = TRUE /\ Running'
Stopped == Next /\ live' = TRUE

LEMMA MapCall ==
  ASSUME AnyClient, TypeOK,
         NEW g \in Addr, NEW n \in Addr, NEW prot \in SUBSET {"r", "w", "x"}
  PROVE  /\ MapOk(g, n, prot) => Returned
         /\ MapThrows(g, n) => Stopped
<1> DEFINE rng == <<g, n>>
<1>1. rng \in Ranges /\ prot \in Prots /\ rng[1] = g /\ rng[2] = n
  BY DEF AnyClient
<1>2. MapOk(g, n, prot) => Map
  BY <1>1, RegionsBounded DEF Map
<1>3. MapThrows(g, n) => Map
  BY <1>1 DEF Map
<1>4. MapOk(g, n, prot) => live' = TRUE /\ Running'
  BY DEF MapOk, Running, TypeOK
<1>5. MapThrows(g, n) => live' = TRUE
  BY DEF MapThrows, TypeOK
<1> QED
  BY <1>2, <1>3, <1>4, <1>5 DEF Returned, Stopped, Next

LEMMA ProtectCall ==
  ASSUME AnyClient, TypeOK,
         NEW g \in Addr, NEW n \in Addr, NEW prot \in SUBSET {"r", "w", "x"}
  PROVE  /\ ProtectOk(g, n, prot) => Returned
         /\ ProtectThrows(g, n) => Stopped
<1> DEFINE rng == <<g, n>>
<1>1. rng \in Ranges /\ prot \in Prots /\ rng[1] = g /\ rng[2] = n
  BY DEF AnyClient
<1>2. ProtectOk(g, n, prot) => Protect
  BY <1>1 DEF Protect
<1>3. ProtectThrows(g, n) => Protect
  BY <1>1 DEF Protect
<1>4. ProtectOk(g, n, prot) => live' = TRUE /\ Running'
  BY DEF ProtectOk, Running, TypeOK
<1>5. ProtectThrows(g, n) => live' = TRUE
  BY DEF ProtectThrows, TypeOK
<1> QED
  BY <1>2, <1>3, <1>4, <1>5 DEF Returned, Stopped, Next

LEMMA AccessCall ==
  ASSUME AnyClient, TypeOK, NEW g \in Addr, NEW n \in Addr
  PROVE  /\ WriteOk(g, n) \/ ZeroOk(g, n) \/ ReadOk(g, n) => Returned
         /\ AccessThrows(g, n) => Stopped
         /\ \A access \in {"r", "w"} : AccessFaults(g, n, access) => Stopped
<1> DEFINE rng == <<g, n>>
<1>1. rng \in Accesses /\ rng[1] = g /\ rng[2] = n
  BY DEF AnyClient
<1>2. WriteOk(g, n) \/ ZeroOk(g, n) \/ ReadOk(g, n) \/ AccessThrows(g, n) => Access
  BY <1>1 DEF Access
<1>3. \A access \in {"r", "w"} : AccessFaults(g, n, access) => Access
  BY <1>1 DEF Access
<1>4. WriteOk(g, n) \/ ZeroOk(g, n) \/ ReadOk(g, n) => live' = TRUE /\ Running'
  BY DEF WriteOk, ZeroOk, ReadOk, Running, TypeOK
<1>5. AccessThrows(g, n) => live' = TRUE
  BY DEF AccessThrows, TypeOK
<1>6. \A access \in {"r", "w"} : AccessFaults(g, n, access) => live' = TRUE
  BY DEF AccessFaults, TypeOK
<1> QED
  BY <1>2, <1>3, <1>4, <1>5, <1>6 DEF Returned, Stopped, Next

(***************************************************************************)
(* What load computes from a file is an address, whatever wraps.           *)
(***************************************************************************)

LEMMA Wrapped ==
  ASSUME NEW x \in Int, NEW y \in Int
  PROVE  Add(x, y) \in Addr /\ Sub(x, y) \in Addr
  BY PagingAssumption DEF Add, Sub, Addr

LEMMA FileTypes ==
  ASSUME file \in Files, options \in Options
  PROVE  /\ file.readable \in BOOLEAN
         /\ file.fixed \in BOOLEAN
         /\ file.interp \in BOOLEAN
         /\ file.segs \in Seq(Segment)
         /\ file.dynamic \in Seq(Dynamic)
         /\ file.relas \subseteq [vaddr : Addr, type : STRING, offset : Addr]
         /\ file.relro \in Seq([vaddr : Addr, memsz : Addr])
         /\ options \in [pieBase : Addr, stackTop : Addr, stackSize : Addr,
                         fallbackWindowSize : Addr]
  BY LoaderAssumption

LEMMA BiasedType ==
  ASSUME file \in Files, options \in Options, NEW v \in Addr
  PROVE  Biased(v) \in Addr
<1>1. loadBias \in Addr
  BY FileTypes, PagingAssumption DEF loadBias, Addr
<1> QED
  BY <1>1, AddCases DEF Biased

LEMMA SpanTypes ==
  ASSUME file \in Files, options \in Options, file.segs # <<>>
  PROVE  /\ spanLow \in Addr /\ spanHigh \in Addr
         /\ loadLow \in Addr /\ loadHigh \in Addr
         /\ Sub(loadHigh, loadLow) \in Addr
<1> DEFINE segs == ToSet(file.segs)
<1>1. segs # {} /\ segs \subseteq Segment
  <2>1. file.segs \in Seq(Segment)
    BY FileTypes
  <2>2. DOMAIN file.segs = 1 .. Len(file.segs) /\ Len(file.segs) \in Nat \ {0}
    BY <2>1
  <2>3. \A i \in DOMAIN file.segs : file.segs[i] \in Segment
    BY <2>1
  <2>4. 1 \in DOMAIN file.segs
    BY <2>2
  <2> QED
    BY <2>3, <2>4 DEF ToSet
<1>2. \A s \in segs : s.vaddr \in Addr /\ s.memsz \in Addr
  BY <1>1 DEF Segment
<1> HIDE DEF segs
<1>3. Min({s.vaddr : s \in segs}) \in Addr
  <2>1. {s.vaddr : s \in segs} \subseteq Addr /\ {s.vaddr : s \in segs} # {}
    BY <1>1, <1>2
  <2> QED
    BY <2>1, MinAddr
<1>4. Max({Add(s.vaddr, s.memsz) : s \in segs}) \in Addr
  <2>1. \A s \in segs : Add(s.vaddr, s.memsz) \in Addr
    BY <1>2, AddCases
  <2>2. {Add(s.vaddr, s.memsz) : s \in segs} \subseteq Addr
        /\ {Add(s.vaddr, s.memsz) : s \in segs} # {}
    BY <1>1, <2>1
  <2> QED
    BY <2>2, MaxAddr
<1>5. spanLow \in Addr
  BY <1>3, AlignDownAddr, PageBelowMod DEF spanLow, GuestPageAlignDown, segs
<1>6. spanHigh \in Addr
  BY <1>4, AlignUpPage DEF spanHigh, GuestPageAlignUp, segs
<1>7. loadLow \in Addr /\ loadHigh \in Addr
  BY <1>5, <1>6, BiasedType DEF loadLow, loadHigh
<1> QED
  BY <1>5, <1>6, <1>7, SubCases

LEMMA StackTypes ==
  ASSUME TypeOK, file \in Files, options \in Options
  PROVE  top \in Addr /\ size \in Addr /\ low \in Addr
<1>1. GuardGap \in Addr
  BY LoaderAssumption
<1>2. stackTop \in Addr
  BY <1>1, FileTypes, SubCases DEF stackTop, TypeOK
<1>3. top \in Addr /\ size \in Addr
  BY <1>2, FileTypes, AlignUpPage DEF top, size, GuestPageAlignUp
<1> QED
  BY <1>3, SubCases DEF low

(***************************************************************************)
(* The invariant of load.                                                  *)
(***************************************************************************)

\* The stages in which there is a GuestMemory.
Loading == Stages \ {"idle", "construct"}

\* The types of load's variables, a process that is alive unless load is
\* unwinding, and at each stage what the index it uses is an index of.
LoaderInv ==
  /\ LoaderTypeOK
  /\ file \in Files
  /\ options \in Options
  /\ dyn \in [rela : Addr, relasz : Addr, relaent : Addr, jmprel : Addr, pltrelsz : Addr]
  /\ pc # "unwind" => Running
  /\ pc = "map" => file.segs # <<>>
  /\ pc = "zero" => k \in Loadable
  /\ pc = "walk" => file.dynamic # <<>>
  /\ pc \in {"headers", "walk", "push"} => k > 0

\* A step of load that leaves its object there and goes on at next, if it can.
Outcome(next) ==
  /\ [Next]_vars
  /\ live' = TRUE
  /\ pc' = "unwind" \/ (pc' = next /\ Running')

\* What such a step owes the invariant.
LEMMA OutcomeKeeps ==
  ASSUME LoaderInv, NEW next \in Loading, Outcome(next),
         UNCHANGED <<file, options>>,
         k' \in Nat,
         dyn' \in [rela : Addr, relasz : Addr, relaent : Addr, jmprel : Addr, pltrelsz : Addr],
         relocs' \in [applied : Nat, skipped : Nat],
         cursor' \in Addr, rsp' \in Addr,
         next # "map",
         next = "zero" => k' \in Loadable,
         next = "walk" => file.dynamic # <<>>,
         next \in {"headers", "walk", "push"} => k' > 0
  PROVE  LoaderInv'
<1>1. file' = file /\ options' = options
  OBVIOUS
<1>2. pc' \in Stages /\ pc' \notin {"idle", "construct"}
  BY DEF Outcome, Loading, Stages
<1>3. LoaderTypeOK'
  <2>1. live' <=> pc' \notin {"idle", "construct"}
    BY <1>2 DEF Outcome
  <2>2. {dyn.rela, dyn.jmprel, cursor, rsp}' \subseteq Addr
    OBVIOUS
  <2> QED
    BY <1>2, <2>1, <2>2 DEF LoaderTypeOK
<1>4. Loadable' = Loadable
  BY <1>1 DEF Loadable
<1>5. pc' # "unwind" => Running' /\ pc' = next
  BY DEF Outcome
<1> QED
  BY <1>1, <1>3, <1>4, <1>5 DEF LoaderInv

LEMMA QuietOutcome ==
  ASSUME LoaderInv, pc \in Loading \ {"unwind"}, Quiet,
         NEW next, pc' = next \/ pc' = "unwind"
  PROVE  Outcome(next)
<1>1. live = TRUE /\ Running
  BY DEF LoaderInv, LoaderTypeOK, Loading
<1>2. live' = live /\ result' = result /\ UNCHANGED vars
  BY DEF Quiet, vars
<1> QED
  BY <1>1, <1>2 DEF Outcome, Running

LEMMA WriteOutcome ==
  ASSUME AnyClient, TypeOK, NEW g \in Addr, NEW n \in Addr, NEW next
  PROVE  /\ WriteTo(g, n, next) => Outcome(next)
         /\ ReadFrom(g, n, next) => Outcome(next)
<1>1. CASE WriteTo(g, n, next)
  <2>1. WriteOk(g, n) => Returned
    BY AccessCall
  <2>2. AccessThrows(g, n) \/ AccessFaults(g, n, "w") => Stopped
    BY AccessCall
  <2> QED
    BY <1>1, <2>1, <2>2 DEF WriteTo, Calls, Returned, Stopped, Outcome
<1>2. CASE ReadFrom(g, n, next)
  <2>1. ReadOk(g, n) => Returned
    BY AccessCall
  <2>2. AccessThrows(g, n) \/ AccessFaults(g, n, "r") => Stopped
    BY AccessCall
  <2> QED
    BY <1>2, <2>1, <2>2 DEF ReadFrom, Calls, Returned, Stopped, Outcome
<1> QED
  BY <1>1, <1>2

(***************************************************************************)
(* One lemma for each step of load.                                        *)
(***************************************************************************)

LEMMA ConstructStep ==
  ASSUME AnyClient, TypeOK, LoaderInv, ConstructMemory
  PROVE  Next /\ LoaderInv'
<1>1. /\ pc = "construct" /\ Running /\ live = FALSE
      /\ UNCHANGED <<file, options, k, dyn, table, relocs, cursor, rsp, loads>>
  BY DEF ConstructMemory, LoaderInv, LoaderTypeOK, locals, TypeOK
<1>2. options.fallbackWindowSize \in Addr
  BY FileTypes DEF LoaderInv
<1>3. CASE /\ file.segs # <<>>
           /\ \/ ConstructIdentity(loadLow, loadHigh)
              \/ \E base \in HostPages :
                   ConstructBiased(loadLow, loadHigh, options.fallbackWindowSize, base)
           /\ pc' = "map"
  <2> DEFINE img == <<loadLow, loadHigh, options.fallbackWindowSize>>
  <2>1. loadLow \in Addr /\ loadHigh \in Addr
    BY <1>3, SpanTypes DEF LoaderInv
  <2>2. img \in Images /\ img[1] = loadLow /\ img[2] = loadHigh
        /\ img[3] = options.fallbackWindowSize
    BY <1>2, <2>1 DEF AnyClient
  <2>3. Construct
    <3> HIDE DEF img
    <3> QED
      BY <1>1, <1>3, <2>2 DEF Construct
  <2>4. live' = TRUE /\ Running'
    BY <1>3 DEF ConstructIdentity, ConstructBiased, Running
  <2> QED
    BY <1>1, <1>3, <2>3, <2>4 DEF Next, LoaderInv, LoaderTypeOK, Stages
<1>4. CASE ConstructThrows /\ pc' = "idle"
  <2> DEFINE img == <<0, 0, 0>>
  <2>1. img \in Images
    BY PagingAssumption DEF AnyClient, Addr
  <2>2. Construct
    BY <1>1, <1>4, <2>1 DEF Construct
  <2>3. live' = FALSE /\ Running'
    BY <1>1, <1>4 DEF ConstructThrows, Running
  <2> QED
    BY <1>1, <1>4, <2>2, <2>3 DEF Next, LoaderInv, LoaderTypeOK, Stages
<1> QED
  BY <1>3, <1>4 DEF ConstructMemory

LEMMA MapImageStep ==
  ASSUME AnyClient, TypeOK, LoaderInv, MapImage
  PROVE  [Next]_vars /\ LoaderInv'
<1>1. loadLow \in Addr /\ Sub(loadHigh, loadLow) \in Addr
  BY SpanTypes DEF MapImage, LoaderInv
<1>2. Outcome("write")
  <2>1. MapOk(loadLow, Sub(loadHigh, loadLow), {"r", "w"}) => Returned
    BY <1>1, MapCall
  <2>2. MapThrows(loadLow, Sub(loadHigh, loadLow)) => Stopped
    BY <1>1, MapCall
  <2>3. EmptyCall => Returned
    BY DEF EmptyCall, Returned, Next, Running, TypeOK
  <2> QED
    BY <2>1, <2>2, <2>3 DEF MapImage, Calls, Returned, Stopped, Outcome
<1>3. /\ k' = 1
      /\ UNCHANGED <<file, options, dyn, table, relocs, cursor, rsp>>
  BY DEF MapImage, locals
<1> QED
  BY <1>2, <1>3, OutcomeKeeps DEF LoaderInv, LoaderTypeOK, Outcome, Loading, Stages

LEMMA WriteSegmentStep ==
  ASSUME AnyClient, TypeOK, LoaderInv, WriteSegment
  PROVE  [Next]_vars /\ LoaderInv'
<1>1. /\ pc = "write"
      /\ UNCHANGED <<file, options, dyn, table, relocs, cursor, rsp>>
  BY DEF WriteSegment, locals
<1>2. k \in Nat /\ Loadable' = Loadable
  BY <1>1 DEF LoaderInv, LoaderTypeOK, Loadable
<1>3. CASE Quiet /\ k' \in Nat /\ pc' \in {"protect", "write"}
  <2>1. Outcome(pc')
    BY <1>1, <1>3, QuietOutcome DEF Loading, Stages
  <2> QED
    BY <1>1, <1>3, <2>1, OutcomeKeeps DEF LoaderInv, LoaderTypeOK, Outcome, Loading, Stages
<1>4. CASE k \in Loadable /\ k' = k /\ (pc' = "zero" \/ pc' = "unwind") /\ Quiet
  <2>1. Outcome("zero")
    BY <1>1, <1>4, QuietOutcome DEF Loading, Stages
  <2> QED
    BY <1>1, <1>2, <1>4, <2>1, OutcomeKeeps DEF LoaderInv, LoaderTypeOK, Outcome, Loading, Stages
<1>5. CASE /\ k \in Loadable /\ k' = k
           /\ WriteTo(Biased(file.segs[k].vaddr), file.segs[k].filesz, "zero")
  <2>1. file.segs[k] \in Segment
    BY <1>5, FileTypes DEF Loadable, LoaderInv
  <2>2. Biased(file.segs[k].vaddr) \in Addr /\ file.segs[k].filesz \in Addr
    BY <2>1, BiasedType DEF Segment, LoaderInv
  <2>3. Outcome("zero")
    BY <1>5, <2>2, WriteOutcome
  <2> QED
    BY <1>1, <1>2, <1>5, <2>3, OutcomeKeeps DEF LoaderInv, LoaderTypeOK, Outcome, Loading, Stages
<1> QED
  BY <1>2, <1>3, <1>4, <1>5 DEF WriteSegment, Throw, Quiet

LEMMA ZeroSegmentStep ==
  ASSUME AnyClient, TypeOK, LoaderInv, ZeroSegment
  PROVE  [Next]_vars /\ LoaderInv'
<1> DEFINE seg == file.segs[k]
           start == Add(Biased(seg.vaddr), seg.filesz)
           n == seg.memsz - seg.filesz
<1>1. /\ pc = "zero" /\ k' = k + 1 /\ k \in Loadable
      /\ UNCHANGED <<file, options, dyn, table, relocs, cursor, rsp>>
  BY DEF ZeroSegment, locals, LoaderInv
<1>2. k' \in Nat
  BY <1>1 DEF LoaderInv, LoaderTypeOK
<1>3. seg \in Segment
  BY <1>1, FileTypes DEF Loadable, LoaderInv
<1>4. seg.vaddr \in Addr /\ seg.filesz \in Addr /\ seg.memsz \in Addr
  BY <1>3 DEF Segment
<1>5. Outcome("write")
  <2>1. CASE n > 0
    <3>1. n \in Addr
      BY <1>4, <2>1, PagingAssumption DEF Addr
    <3>2. start \in Addr
      BY <1>4, BiasedType, AddCases DEF LoaderInv
    <3>3. /\ ZeroOk(start, n) => Returned
          /\ AccessThrows(start, n) \/ AccessFaults(start, n, "w") => Stopped
      BY <3>1, <3>2, AccessCall
    <3>4. Calls(ZeroOk(start, n),
                AccessThrows(start, n) \/ AccessFaults(start, n, "w"), "write")
      BY <2>1 DEF ZeroSegment
    <3> QED
      BY <3>3, <3>4 DEF Calls, Returned, Stopped, Outcome
  <2>2. CASE ~ (n > 0)
    <3>1. pc' = "write" /\ Quiet
      BY <2>2 DEF ZeroSegment
    <3> QED
      BY <1>1, <3>1, QuietOutcome DEF Loading, Stages
  <2> QED
    BY <2>1, <2>2
<1> QED
  BY <1>1, <1>2, <1>5, OutcomeKeeps DEF LoaderInv, LoaderTypeOK, Outcome, Loading, Stages

LEMMA ProtectSegmentStep ==
  ASSUME AnyClient, TypeOK, LoaderInv, ProtectSegment
  PROVE  [Next]_vars /\ LoaderInv'
<1>1. /\ pc = "protect"
      /\ UNCHANGED <<file, options, dyn, table, relocs, cursor, rsp>>
  BY DEF ProtectSegment, locals
<1>2. k \in Nat
  BY DEF LoaderInv, LoaderTypeOK
<1>3. CASE Quiet /\ ((k' = 1 /\ pc' = "headers") \/ (k' = k + 1 /\ pc' = "protect"))
  <2>1. Outcome(pc')
    BY <1>1, <1>3, QuietOutcome DEF Loading, Stages
  <2> QED
    BY <1>1, <1>2, <1>3, <2>1, OutcomeKeeps DEF LoaderInv, LoaderTypeOK, Outcome, Loading, Stages
<1>4. CASE /\ k \in Loadable /\ k' = k + 1
           /\ LET seg == file.segs[k]
              IN  \/ ProtectOk(Biased(seg.vaddr), seg.memsz, seg.prot) /\ pc' = "protect"
                  \/ ProtectThrows(Biased(seg.vaddr), seg.memsz) /\ pc' = "unwind"
  <2> DEFINE seg == file.segs[k]
  <2>1. seg \in Segment
    BY <1>4, FileTypes DEF Loadable, LoaderInv
  <2>2. seg.vaddr \in Addr /\ seg.memsz \in Addr /\ seg.prot \in SUBSET {"r", "w", "x"}
    BY <2>1 DEF Segment
  <2>3. Biased(seg.vaddr) \in Addr
    BY <2>2, BiasedType DEF LoaderInv
  <2>4. /\ ProtectOk(Biased(seg.vaddr), seg.memsz, seg.prot) => Returned
        /\ ProtectThrows(Biased(seg.vaddr), seg.memsz) => Stopped
    BY <2>2, <2>3, ProtectCall
  <2>5. Outcome("protect")
    BY <1>4, <2>4 DEF Returned, Stopped, Outcome
  <2> QED
    BY <1>1, <1>2, <1>4, <2>5, OutcomeKeeps DEF LoaderInv, LoaderTypeOK, Outcome, Loading, Stages
<1> QED
  BY <1>3, <1>4 DEF ProtectSegment, Calls

LEMMA ReadHeadersStep ==
  ASSUME TypeOK, LoaderInv, ReadHeaders
  PROVE  [Next]_vars /\ LoaderInv'
<1>1. /\ pc = "headers"
      /\ UNCHANGED <<file, options, k, dyn, table, relocs, cursor, rsp>>
      /\ Quiet
      /\ pc' = "unwind" \/ (isDynamic /\ pc' = "walk") \/ pc' = "relro"
  BY DEF ReadHeaders, locals, Throw, Quiet
<1>2. CASE isDynamic /\ pc' = "walk"
  <2>1. file.dynamic # <<>> /\ k > 0
    BY <1>1, <1>2 DEF isDynamic, LoaderInv
  <2>2. Outcome("walk")
    BY <1>1, <1>2, QuietOutcome DEF Loading, Stages
  <2> QED
    BY <1>1, <2>1, <2>2, OutcomeKeeps DEF LoaderInv, LoaderTypeOK, Outcome, Loading, Stages
<1>3. CASE pc' \in {"unwind", "relro"}
  <2>1. Outcome("relro")
    BY <1>1, <1>3, QuietOutcome DEF Loading, Stages
  <2> QED
    BY <1>1, <2>1, OutcomeKeeps DEF LoaderInv, LoaderTypeOK, Outcome, Loading, Stages
<1> QED
  BY <1>1, <1>2, <1>3

LEMMA WalkDynamicStep ==
  ASSUME AnyClient, TypeOK, LoaderInv, WalkDynamic
  PROVE  [Next]_vars /\ LoaderInv'
<1> DEFINE addr == Add(Biased(dynamicHeader.vaddr), (k - 1) * DynSize)
           entry == DynEntry(k)
<1>1. /\ pc = "walk" /\ k' = k + 1 /\ k \in Nat /\ k > 0
      /\ UNCHANGED <<file, options, table, relocs, cursor, rsp>>
  BY DEF WalkDynamic, LoaderInv, LoaderTypeOK
<1>2. DynSize \in Addr /\ DynSize \in Nat
  BY LoaderAssumption DEF Addr
<1>3. dynamicHeader \in Dynamic
  <2>1. file.dynamic \in Seq(Dynamic) /\ file.dynamic # <<>>
    BY <1>1, FileTypes DEF LoaderInv
  <2>2. Len(file.dynamic) \in 1 .. Len(file.dynamic)
    BY <2>1
  <2> QED
    BY <2>1, <2>2 DEF dynamicHeader
<1>4. addr \in Addr
  <2>1. Biased(dynamicHeader.vaddr) \in Addr
    BY <1>3, BiasedType DEF Dynamic, LoaderInv
  <2>2. (k - 1) * DynSize \in Int
    BY <1>1, <1>2
  <2> QED
    BY <2>1, <2>2, Wrapped DEF Addr
<1>5. entry[2] \in Addr
  <2> DEFINE entries == dynamicHeader.entries
  <2>1. entries \in Seq(STRING \X Addr)
    BY <1>3 DEF Dynamic
  <2>2. CASE k <= Len(entries)
    <3>1. entries[k] \in STRING \X Addr
      BY <1>1, <2>1, <2>2
    <3> QED
      BY <2>2, <3>1 DEF DynEntry
  <2>3. CASE ~ (k <= Len(entries))
    BY <2>3, PagingAssumption DEF DynEntry, Addr
  <2> QED
    BY <2>2, <2>3
<1>6. dyn' \in [rela : Addr, relasz : Addr, relaent : Addr, jmprel : Addr, pltrelsz : Addr]
  <2>1. dyn \in [rela : Addr, relasz : Addr, relaent : Addr, jmprel : Addr, pltrelsz : Addr]
    BY DEF LoaderInv
  <2>2. Biased(entry[2]) \in Addr
    BY <1>5, BiasedType DEF LoaderInv
  <2> HIDE DEF entry
  <2>3. Recorded(entry[1], entry[2]) \in
          [rela : Addr, relasz : Addr, relaent : Addr, jmprel : Addr, pltrelsz : Addr]
    BY <1>5, <2>1, <2>2 DEF Recorded
  <2>4. dyn' = dyn \/ dyn' = Recorded(entry[1], entry[2])
    BY DEF WalkDynamic, entry
  <2> QED
    BY <2>1, <2>3, <2>4
<1>7. Outcome("table") \/ Outcome("walk")
  <2>1. CASE pc' = "table" /\ Quiet
    BY <1>1, <2>1, QuietOutcome DEF Loading, Stages
  <2>2. CASE ReadFrom(addr, DynSize, IF entry[1] = "NULL" THEN "table" ELSE "walk")
    <3> HIDE DEF addr, entry
    <3>1. Outcome(IF entry[1] = "NULL" THEN "table" ELSE "walk")
      BY <1>2, <1>4, <2>2, WriteOutcome
    <3> QED
      BY <3>1
  <2> QED
    BY <2>1, <2>2 DEF WalkDynamic
<1>8. file.dynamic # <<>>
  BY <1>1 DEF LoaderInv
<1>9. k' \in Nat /\ k' > 0 /\ relocs' \in [applied : Nat, skipped : Nat]
      /\ cursor' \in Addr /\ rsp' \in Addr
  BY <1>1 DEF LoaderInv, LoaderTypeOK
<1>10. [Next]_vars
  BY <1>7 DEF Outcome
<1> QED
  BY <1>1, <1>6, <1>7, <1>8, <1>9, <1>10, OutcomeKeeps DEF Loading, Stages

LEMMA BeginTableStep ==
  ASSUME TypeOK, LoaderInv, BeginTable
  PROVE  [Next]_vars /\ LoaderInv'
<1>1. /\ pc = "table" /\ k' = 1 /\ Quiet /\ pc' \in {"relro", "entry"}
      /\ UNCHANGED <<file, options, dyn, table, relocs, cursor, rsp>>
  BY DEF BeginTable, locals
<1>2. Outcome(pc')
  BY <1>1, QuietOutcome DEF Loading, Stages
<1> QED
  BY <1>1, <1>2, OutcomeKeeps DEF LoaderInv, LoaderTypeOK, Outcome, Loading, Stages

LEMMA ReadEntryStep ==
  ASSUME AnyClient, TypeOK, LoaderInv, ReadEntry
  PROVE  [Next]_vars /\ LoaderInv'
<1>1. /\ pc = "entry" /\ k \in Nat
      /\ UNCHANGED <<file, options, k, dyn, relocs, cursor, rsp>>
  BY DEF ReadEntry, LoaderInv, LoaderTypeOK
<1>2. RelaSize \in Addr
  BY LoaderAssumption
<1>3. EntryAddr \in Addr
  <2>1. TableAddr \in Addr /\ dyn.relaent \in Addr
    BY DEF TableAddr, LoaderInv
  <2>2. (k - 1) * dyn.relaent \in Int
    BY <1>1, <2>1 DEF Addr
  <2> QED
    BY <2>1, <2>2, Wrapped DEF EntryAddr, Addr
<1>4. Outcome("table") \/ Outcome("apply")
  <2>1. CASE pc' = "table" /\ Quiet
    BY <1>1, <2>1, QuietOutcome DEF Loading, Stages
  <2>2. CASE ReadFrom(EntryAddr, RelaSize, "apply")
    BY <1>2, <1>3, <2>2, WriteOutcome
  <2> QED
    BY <2>1, <2>2 DEF ReadEntry
<1> QED
  BY <1>1, <1>4, OutcomeKeeps DEF LoaderInv, LoaderTypeOK, Outcome, Loading, Stages

LEMMA ApplyEntryStep ==
  ASSUME AnyClient, TypeOK, LoaderInv, ApplyEntry
  PROVE  [Next]_vars /\ LoaderInv'
<1> DEFINE targets == {Biased(r.offset) : r \in RelativeAt(EntryAddr)}
           mapped == {t \in targets : isMapped(t, WordSize)}
<1>1. /\ pc = "apply" /\ k' = k + 1
      /\ UNCHANGED <<file, options, dyn, cursor, rsp>>
  BY DEF ApplyEntry
<1>2. WordSize \in Addr
  BY LoaderAssumption
<1>3. \A t \in targets : t \in Addr
  <2>1. \A r \in file.relas : r.offset \in Addr
    BY FileTypes DEF LoaderInv
  <2> QED
    BY <2>1, BiasedType DEF RelativeAt, LoaderInv
<1>4. CASE \E t \in mapped : /\ WriteTo(t, WordSize, "entry")
                            /\ relocs' = [relocs EXCEPT !.applied = @ + 1]
  <2>1. Outcome("entry")
    BY <1>2, <1>3, <1>4, WriteOutcome
  <2>2. relocs' \in [applied : Nat, skipped : Nat]
    BY <1>4 DEF LoaderInv, LoaderTypeOK
  <2> QED
    BY <1>1, <2>1, <2>2, OutcomeKeeps DEF LoaderInv, LoaderTypeOK, Outcome, Loading, Stages
<1>5. CASE /\ relocs' = [relocs EXCEPT !.skipped = @ + 1]
           /\ pc' = "entry" /\ Quiet
  <2>1. Outcome("entry")
    BY <1>1, <1>5, QuietOutcome DEF Loading, Stages
  <2>2. relocs' \in [applied : Nat, skipped : Nat]
    BY <1>5 DEF LoaderInv, LoaderTypeOK
  <2> QED
    BY <1>1, <2>1, <2>2, OutcomeKeeps DEF LoaderInv, LoaderTypeOK, Outcome, Loading, Stages
<1> QED
  BY <1>4, <1>5 DEF ApplyEntry

LEMMA ProtectRelroStep ==
  ASSUME AnyClient, TypeOK, LoaderInv, ProtectRelro
  PROVE  [Next]_vars /\ LoaderInv'
<1>1. /\ pc = "relro" /\ k \in Nat
      /\ UNCHANGED <<file, options, dyn, table, relocs, cursor, rsp>>
  BY DEF ProtectRelro, locals, LoaderInv, LoaderTypeOK
<1>2. CASE Quiet /\ k' \in Nat /\ pc' \in {"stack", "relro"}
  <2>1. Outcome(pc')
    BY <1>1, <1>2, QuietOutcome DEF Loading, Stages
  <2> QED
    BY <1>1, <1>2, <2>1, OutcomeKeeps DEF LoaderInv, LoaderTypeOK, Outcome, Loading, Stages
<1>3. CASE /\ k \in Relro /\ k' = k + 1
           /\ LET part == file.relro[k]
              IN  \/ ProtectOk(Biased(part.vaddr), part.memsz, {"r"}) /\ pc' = "relro"
                  \/ ProtectThrows(Biased(part.vaddr), part.memsz) /\ pc' = "unwind"
  <2> DEFINE part == file.relro[k]
  <2>1. part \in [vaddr : Addr, memsz : Addr]
    <3> DEFINE Entries == [vaddr : Addr, memsz : Addr]
    <3>1. file.relro \in Seq(Entries)
      BY FileTypes DEF LoaderInv
    <3>2. k \in 1 .. Len(file.relro)
      BY <1>3 DEF Relro
    <3> HIDE DEF Entries
    <3>3. file.relro[k] \in Entries
      BY <3>1, <3>2
    <3> QED
      BY <3>3 DEF Entries
  <2>2. Biased(part.vaddr) \in Addr
    BY <2>1, BiasedType DEF LoaderInv
  <2>3. /\ ProtectOk(Biased(part.vaddr), part.memsz, {"r"}) => Returned
        /\ ProtectThrows(Biased(part.vaddr), part.memsz) => Stopped
    BY <2>1, <2>2, ProtectCall
  <2>4. Outcome("relro")
    BY <1>3, <2>3 DEF Returned, Stopped, Outcome
  <2> QED
    BY <1>1, <1>3, <2>4, OutcomeKeeps DEF LoaderInv, LoaderTypeOK, Outcome, Loading, Stages
<1> QED
  BY <1>1, <1>2, <1>3 DEF ProtectRelro, Calls

LEMMA MapStackStep ==
  ASSUME AnyClient, TypeOK, LoaderInv, MapStack
  PROVE  [Next]_vars /\ LoaderInv'
<1>1. /\ pc = "stack" /\ k' = 1 /\ cursor' = top
      /\ UNCHANGED <<file, options, dyn, table, relocs, rsp>>
  BY DEF MapStack
<1>2. top \in Addr /\ size \in Addr /\ low \in Addr
  BY StackTypes DEF LoaderInv
<1>3. Outcome("push")
  <2>1. CASE Throw
    BY <1>1, <2>1, QuietOutcome DEF Throw, Quiet, Loading, Stages
  <2>2. CASE Calls(MapOk(low, size, {"r", "w"}) \/ (size = 0 /\ EmptyCall),
                   MapThrows(low, size), "push")
    <3>1. /\ MapOk(low, size, {"r", "w"}) => Returned
          /\ MapThrows(low, size) => Stopped
      BY <1>2, MapCall
    <3>2. EmptyCall => Returned
      BY DEF EmptyCall, Returned, Next, Running, TypeOK
    <3> QED
      BY <2>2, <3>1, <3>2 DEF Calls, Returned, Stopped, Outcome
  <2> QED
    BY <2>1, <2>2 DEF MapStack
<1> QED
  BY <1>1, <1>2, <1>3, OutcomeKeeps DEF LoaderInv, LoaderTypeOK, Outcome, Loading, Stages

LEMMA PushStringStep ==
  ASSUME AnyClient, TypeOK, LoaderInv, PushString
  PROVE  [Next]_vars /\ LoaderInv'
<1>1. /\ pc = "push" /\ k \in Nat /\ k > 0 /\ cursor \in Addr
      /\ UNCHANGED <<file, options, dyn, table, relocs, rsp>>
  BY DEF PushString, LoaderInv, LoaderTypeOK
<1>2. CASE pc' = "random" /\ UNCHANGED <<k, cursor>> /\ Quiet
  <2>1. Outcome("random")
    BY <1>1, <1>2, QuietOutcome DEF Loading, Stages
  <2> QED
    BY <1>1, <1>2, <2>1, OutcomeKeeps DEF LoaderInv, LoaderTypeOK, Outcome, Loading, Stages
<1>3. CASE /\ ~ (k > Len(Strings))
           /\ cursor' = Sub(cursor, Strings[k])
           /\ WriteTo(cursor', Strings[k], "push")
           /\ k' = k + 1
  <2>1. Strings[k] \in Addr
    BY <1>1, <1>3, LoaderAssumption
  <2>2. cursor' \in Addr
    BY <1>1, <1>3, <2>1, SubCases
  <2>3. Outcome("push")
    BY <1>3, <2>1, <2>2, WriteOutcome
  <2> QED
    BY <1>1, <1>3, <2>2, <2>3, OutcomeKeeps DEF LoaderInv, LoaderTypeOK, Outcome, Loading, Stages
<1> QED
  BY <1>2, <1>3 DEF PushString

LEMMA PushRandomStep ==
  ASSUME AnyClient, TypeOK, LoaderInv, PushRandom
  PROVE  [Next]_vars /\ LoaderInv'
<1>1. /\ pc = "random" /\ cursor \in Addr
      /\ UNCHANGED <<file, options, k, dyn, table, relocs, rsp>>
      /\ cursor' = Sub(AlignDown(cursor, StackAlign), RandomBytes)
      /\ WriteTo(cursor', RandomBytes, "rsp")
  BY DEF PushRandom, LoaderInv, LoaderTypeOK
<1>2. RandomBytes \in Addr /\ StackAlign \in Nat \ {0}
  BY LoaderAssumption DEF Addr
<1>3. cursor' \in Addr
  BY <1>1, <1>2, AlignDownAddr, SubCases
<1>4. Outcome("rsp")
  BY <1>1, <1>2, <1>3, WriteOutcome
<1> QED
  BY <1>1, <1>3, <1>4, OutcomeKeeps DEF LoaderInv, LoaderTypeOK, Outcome, Loading, Stages

\* The stack's words, as an offset from its pointer.
LEMMA WordOffset ==
  ASSUME NEW n \in Nat
  PROVE  n * WordSize \in Int /\ WordSize \in Addr
<1>1. WordSize \in Addr /\ WordSize \in Nat
  BY LoaderAssumption DEF Addr
<1> QED
  BY <1>1

LEMMA SetRspStep ==
  ASSUME AnyClient, TypeOK, LoaderInv, SetRsp
  PROVE  [Next]_vars /\ LoaderInv'
<1>1. /\ pc = "rsp" /\ k' = 0 /\ cursor \in Addr
      /\ UNCHANGED <<file, options, dyn, table, relocs, cursor>>
      /\ rsp' = AlignDown(Sub(cursor, Slots * WordSize), StackAlign)
      /\ Quiet /\ pc' \in {"unwind", "vector"}
  BY DEF SetRsp, Throw, Quiet, LoaderInv, LoaderTypeOK
<1>2. Slots \in Nat /\ StackAlign \in Nat \ {0}
  BY LoaderAssumption DEF Addr
<1>3. Sub(cursor, Slots * WordSize) \in Addr
  <2>1. Slots * WordSize \in Int
    BY <1>2, WordOffset
  <2> QED
    BY <1>1, <2>1, Wrapped DEF Addr
<1>4. rsp' \in Addr
  BY <1>1, <1>2, <1>3, AlignDownAddr
<1>5. Outcome("vector")
  BY <1>1, QuietOutcome DEF Loading, Stages
<1> QED
  BY <1>1, <1>4, <1>5, OutcomeKeeps DEF LoaderInv, LoaderTypeOK, Outcome, Loading, Stages

LEMMA PushWordStep ==
  ASSUME AnyClient, TypeOK, LoaderInv, PushWord
  PROVE  [Next]_vars /\ LoaderInv'
<1>1. /\ pc = "vector" /\ k \in Nat /\ rsp \in Addr
      /\ UNCHANGED <<file, options, dyn, table, relocs, cursor, rsp>>
  BY DEF PushWord, locals, LoaderInv, LoaderTypeOK
<1>2. CASE pc' = "running" /\ UNCHANGED k /\ Quiet
  <2>1. Outcome("running")
    BY <1>1, <1>2, QuietOutcome DEF Loading, Stages
  <2> QED
    BY <1>1, <1>2, <2>1, OutcomeKeeps DEF LoaderInv, LoaderTypeOK, Outcome, Loading, Stages
<1>3. CASE WriteTo(Add(rsp, k * WordSize), WordSize, "vector") /\ k' = k + 1
  <2> DEFINE offset == k * WordSize
  <2>1. offset \in Int /\ WordSize \in Addr /\ rsp \in Int
    BY <1>1, WordOffset DEF Addr
  <2>2. Add(rsp, offset) \in Addr
    <3> HIDE DEF offset
    <3> QED
      BY <2>1, Wrapped
  <2>3. Outcome("vector")
    BY <1>3, <2>1, <2>2, WriteOutcome
  <2> QED
    BY <1>1, <1>3, <2>3, OutcomeKeeps DEF LoaderInv, LoaderTypeOK, Outcome, Loading, Stages
<1> QED
  BY <1>2, <1>3 DEF PushWord

\* The destruction, by a throw or by the owner.
LEMMA DestroyStep ==
  ASSUME LoaderInv, Unwind \/ Release
  PROVE  Next /\ LoaderInv'
<1>1. Destroy /\ pc' = "idle" /\ Reset /\ UNCHANGED <<file, options, loads>>
  BY DEF Unwind, Release
<1>2. Running' /\ live' = FALSE
  BY <1>1 DEF Destroy, Running
<1>3. RelaSize \in Addr /\ 0 \in Addr
  BY LoaderAssumption, PagingAssumption DEF Addr
<1>4. /\ k' \in Nat /\ {dyn.rela, dyn.jmprel, cursor, rsp}' \subseteq Addr
      /\ relocs' \in [applied : Nat, skipped : Nat]
      /\ dyn' \in [rela : Addr, relasz : Addr, relaent : Addr, jmprel : Addr, pltrelsz : Addr]
  BY <1>1, <1>3 DEF Reset, NoTables
<1> QED
  BY <1>1, <1>2, <1>4 DEF Next, LoaderInv, LoaderTypeOK, Stages

\* Beginning a load, the rest of the process and stuttering.
LEMMA BeginStep ==
  ASSUME LoaderInv, Begin
  PROVE  UNCHANGED vars /\ LoaderInv'
  BY DEF Begin, Quiet, vars, locals, LoaderInv, LoaderTypeOK, Stages, Running, Loadable

LEMMA HostLoaderStep ==
  ASSUME LoaderInv, HostStep, UNCHANGED loaderVars
  PROVE  Next /\ LoaderInv'
<1>1. live' = live /\ result' = result
  BY DEF HostStep, HostMaps, HostUnmaps
<1> QED
  BY <1>1 DEF Next, loaderVars, locals, LoaderInv, LoaderTypeOK, Running, Loadable

LEMMA IdleStep ==
  ASSUME LoaderInv, UNCHANGED allVars
  PROVE  UNCHANGED vars /\ LoaderInv'
  BY DEF allVars, vars, loaderVars, locals, LoaderInv, LoaderTypeOK, Running, Loadable

LEMMA LoaderStep ==
  ASSUME AnyClient, TypeOK, LoaderInv, [LoaderNext]_allVars
  PROVE  [Next]_vars /\ LoaderInv'
<1>1. CASE Begin
  BY <1>1, BeginStep
<1>2. CASE LoadStep
  BY <1>2, ConstructStep, MapImageStep, WriteSegmentStep, ZeroSegmentStep,
     ProtectSegmentStep, ReadHeadersStep, WalkDynamicStep, BeginTableStep,
     ReadEntryStep, ApplyEntryStep, ProtectRelroStep, MapStackStep, PushStringStep,
     PushRandomStep, SetRspStep, PushWordStep, DestroyStep DEF LoadStep
<1>3. CASE Release
  BY <1>3, DestroyStep
<1>4. CASE HostStep /\ UNCHANGED loaderVars
  BY <1>4, HostLoaderStep
<1>5. CASE UNCHANGED allVars
  BY <1>5, IdleStep
<1> QED
  BY <1>1, <1>2, <1>3, <1>4, <1>5 DEF LoaderNext

LEMMA LoaderStart == LoaderInit => LoaderInv
<1>1. RelaSize \in Addr /\ 0 \in Addr
  BY LoaderAssumption, PagingAssumption DEF Addr
<1> QED
  BY <1>1 DEF LoaderInit, Init, LoaderInv, LoaderTypeOK, NoTables, Stages, Running

(***************************************************************************)
(* The theorems.                                                           *)
(***************************************************************************)

LEMMA ClientInvariant == AnyClient /\ LoaderSpec => [](LoaderInv /\ IInv)
<1> SUFFICES ASSUME AnyClient PROVE LoaderSpec => [](LoaderInv /\ IInv)
  OBVIOUS
<1>1. LoaderInit => LoaderInv /\ IInv
  BY LoaderStart, InitInvariant DEF LoaderInit
<1>2. LoaderInv /\ IInv /\ [LoaderNext]_allVars => LoaderInv' /\ IInv'
  BY LoaderStep, NextInvariant DEF IInv
<1> QED
  BY <1>1, <1>2, PTL DEF LoaderSpec

\* Every load of every file is a behaviour of a GuestMemory's client: what
\* load computes from the headers are addresses again, so each of its steps is
\* one call of the class or none.
THEOREM LoadIsAClient == AnyClient => (LoaderSpec => Spec)
<1> SUFFICES ASSUME AnyClient PROVE LoaderSpec => Spec
  OBVIOUS
<1>1. LoaderInit => Init
  BY DEF LoaderInit
<1>2. LoaderInv /\ IInv /\ [LoaderNext]_allVars => [Next]_vars
  BY LoaderStep DEF IInv
<1>3. LoaderSpec => [](LoaderInv /\ IInv)
  BY ClientInvariant
<1> QED
  BY <1>1, <1>2, <1>3, PTL DEF LoaderSpec, Spec

\* load's variables keep their types, and a GuestMemory exists exactly from the
\* constructor's return to the end of the load or of its process, whatever the
\* headers of the file say.
THEOREM LoaderTypeCorrect == AnyClient => (LoaderSpec => []LoaderTypeOK)
<1> SUFFICES ASSUME AnyClient PROVE LoaderSpec => []LoaderTypeOK
  OBVIOUS
<1>1. LoaderInv => LoaderTypeOK
  BY DEF LoaderInv
<1> QED
  BY <1>1, ClientInvariant, PTL

\* While a file is loaded and while it runs, its window is the object's.
THEOREM LoadKeepsWindow == AnyClient => (LoaderSpec => []WindowHeld)
<1> SUFFICES ASSUME AnyClient PROVE LoaderSpec => []WindowHeld
  OBVIOUS
<1> QED
  BY LoadIsAClient, WindowNeverLost, PTL

\* No load takes, frees or replaces a page of the rest of the process.
THEOREM LoadKeepsForeign == AnyClient => (LoaderSpec => ForeignKept)
<1> SUFFICES ASSUME AnyClient PROVE LoaderSpec => ForeignKept
  OBVIOUS
<1> QED
  BY LoadIsAClient, ForeignPagesKept, PTL

(***************************************************************************)
(* What a load can leave behind.  The image is mapped inside the window:   *)
(* the constructor rounds the span out as map does.  Only the stack can be *)
(* elsewhere, and only in identity mode.                                   *)
(***************************************************************************)

\* User space is less than half of the addresses, 2^47 of 2^64, so that twice
\* the size of an image the kernel grants does not wrap in the constructor.
SmallUserSpace == 2 * TaskSize < Mod

\* A page of the stack that some options ask for.
StackPage(p) ==
  \E o \in Options :
    LET bytes == GuestPageAlignUp(o.stackSize)
        from == Sub(GuestPageAlignUp(o.stackTop), bytes)
    IN  p \in PageRange(HostBase(from), HostSize(from, bytes))

\* The constructor's reservation has room for the map of the image.
ImageInside ==
  isIdentity /\ UserRange(Desired(loadLow), HostSize(loadLow, Sub(loadHigh, loadLow)))
    => insideReservation(loadLow, Sub(loadHigh, loadLow))

LeakInv ==
  /\ \A p \in HostPages : owner[p] = "leaked" => StackPage(p)
  /\ \A p \in HostPages : owner[p] = "guest" => p \in Window \/ StackPage(p)
  /\ pc = "map" => ImageInside

\* A host page is a number of guest pages.
LEMMA HostAlignedIsGuestAligned ==
  ASSUME NEW x \in Addr, x % HostPage = 0
  PROVE  x % GuestPage = 0
<1>1. /\ GuestPage \in Nat \ {0} /\ HostPage \in Nat \ {0}
      /\ HostPage % GuestPage = 0 /\ x \in Nat
  BY PagingAssumption DEF Addr
<1>2. x = HostPage * (x \div HostPage) /\ x \div HostPage \in Int
  BY <1>1, AlignedProduct
<1>3. HostPage = GuestPage * (HostPage \div GuestPage) /\ HostPage \div GuestPage \in Int
  BY <1>1, AlignedProduct
<1> DEFINE i == x \div HostPage
           j == HostPage \div GuestPage
<1>4. x = GuestPage * (j * i)
  <2>1. i \in Int /\ j \in Int /\ x = HostPage * i /\ HostPage = GuestPage * j
    BY <1>2, <1>3
  <2> HIDE DEF i, j
  <2>2. x = (GuestPage * j) * i
    BY <2>1
  <2> QED
    BY <1>1, <2>1, <2>2
<1> DEFINE n == j * i
<1>5. n \in Int /\ x = GuestPage * n
  BY <1>2, <1>3, <1>4
<1> HIDE DEF i, j, n
<1> QED
  BY <1>1, <1>5, ProductAligned

\* How the span of an image is rounded, by the constructor and by map.
LEMMA ImageRounding ==
  ASSUME file \in Files, options \in Options, file.segs # <<>>
  PROVE  LET n == Sub(loadHigh, loadLow)
             lo == ProbeLow(loadLow)
             hi == AlignUp(loadHigh, HostPage)
         IN  /\ loadLow \in Addr /\ loadHigh \in Addr /\ n \in Addr
             /\ lo \in Addr /\ lo % HostPage = 0
             /\ hi \in Addr /\ hi % HostPage = 0
             /\ lo <= MapStart(loadLow)
             /\ HostBase(loadLow) = lo
             /\ MapEnd(loadLow, n) = GuestPageAlignUp(loadHigh)
             /\ loadHigh <= hi => MapEnd(loadLow, n) <= hi
<1> DEFINE n == Sub(loadHigh, loadLow)
           lo == ProbeLow(loadLow)
           hi == AlignUp(loadHigh, HostPage)
<1>1. loadLow \in Addr /\ loadHigh \in Addr /\ n \in Addr
  BY SpanTypes
<1>2. HostPage \in Nat \ {0} /\ GuestPage \in Nat \ {0} /\ loadLow \in Nat
  BY <1>1, PagingAssumption DEF Addr
<1>3. lo \in Addr /\ lo \in Nat /\ lo % HostPage = 0 /\ lo <= loadLow
  BY <1>1, <1>2, AlignDownAddr, AlignDownPage DEF ProbeLow
<1>4. hi \in Addr /\ hi % HostPage = 0
  BY <1>1, AlignUpPage
<1>5. lo <= MapStart(loadLow)
  BY <1>2, <1>3, HostAlignedIsGuestAligned, AlignDownLargest
     DEF MapStart, GuestPageAlignDown
<1>6. MapStart(loadLow) \in Nat /\ MapStart(loadLow) <= loadLow
  BY <1>2, AlignDownPage DEF MapStart, GuestPageAlignDown
<1>7. HostBase(loadLow) = lo
  <2>1. lo <= HostBase(loadLow)
    BY <1>2, <1>3, <1>5, <1>6, AlignDownLargest DEF HostBase
  <2>2. /\ HostBase(loadLow) \in Nat /\ HostBase(loadLow) <= MapStart(loadLow)
        /\ HostBase(loadLow) % HostPage = 0
    BY <1>2, <1>6, AlignDownPage DEF HostBase
  <2>3. HostBase(loadLow) <= loadLow
    BY <1>2, <1>6, <2>2
  <2>4. HostBase(loadLow) <= lo
    BY <1>2, <2>2, <2>3, AlignDownLargest DEF ProbeLow
  <2> QED
    BY <1>3, <2>1, <2>2, <2>4
<1>8. Add(loadLow, n) = loadHigh
  <2>1. n = IF loadLow <= loadHigh THEN loadHigh - loadLow ELSE loadHigh - loadLow + Mod
    BY <1>1, SubCases
  <2>2. Add(loadLow, n) = IF loadLow + n < Mod THEN loadLow + n ELSE loadLow + n - Mod
    BY <1>1, AddCases
  <2> QED
    BY <1>1, <2>1, <2>2, PagingAssumption DEF Addr
<1>9. MapEnd(loadLow, n) = GuestPageAlignUp(loadHigh)
  BY <1>8 DEF MapEnd
<1>10. loadHigh <= hi => MapEnd(loadLow, n) <= hi
  BY <1>1, <1>4, <1>9, HostAlignedIsGuestAligned, AlignUpBelow DEF GuestPageAlignUp
<1> QED
  BY <1>1, <1>3, <1>4, <1>5, <1>7, <1>9, <1>10

\* A window at the image's own addresses has room for the map of the image, if
\* the kernel grants it: the constructor's fallback is no smaller than the image,
\* unless doubling it wraps.
LEMMA FallbackRoom ==
  ASSUME SmallUserSpace, file \in Files, options \in Options, file.segs # <<>>,
         NEW fallback \in Addr
  PROVE  LET n == Sub(loadHigh, loadLow)
             lo == ProbeLow(loadLow)
             window == FallbackSize(ProbeSize(loadLow, loadHigh), fallback)
         IN  /\ UserRange(lo, window)
             /\ UserRange(HostBase(loadLow), HostSize(loadLow, n))
             => MapEnd(loadLow, n) <= lo + window
<1> DEFINE n == Sub(loadHigh, loadLow)
           en == MapEnd(loadLow, n)
           lo == ProbeLow(loadLow)
           hi == AlignUp(loadHigh, HostPage)
           he == AlignUp(en, HostPage)
           probe == ProbeSize(loadLow, loadHigh)
           window == FallbackSize(probe, fallback)
<1>1. SUFFICES ASSUME UserRange(lo, window), UserRange(HostBase(loadLow), HostSize(loadLow, n))
               PROVE  en <= lo + window
  OBVIOUS
<1>2. /\ loadLow \in Addr /\ loadHigh \in Addr /\ n \in Addr
      /\ lo \in Addr /\ lo % HostPage = 0 /\ hi \in Addr /\ hi % HostPage = 0
      /\ HostBase(loadLow) = lo
      /\ en = GuestPageAlignUp(loadHigh)
      /\ loadHigh <= hi => en <= hi
  BY ImageRounding
<1>3. /\ HostPage \in Nat \ {0} /\ GuestPage \in Nat \ {0} /\ Mod \in Nat \ {0}
      /\ TaskSize \in Nat /\ TaskSize % HostPage = 0 /\ TaskSize + HostPage <= Mod
      /\ 2 * TaskSize < Mod
  BY PagingAssumption DEF SmallUserSpace
<1>4. en \in Addr /\ he \in Addr /\ he % HostPage = 0
  BY <1>2, AlignUpPage DEF GuestPageAlignUp
\* The map of the image is granted, so its end did not wrap.
<1>5. lo < he /\ he <= TaskSize
  <2>1. HostSize(loadLow, n) = Sub(he, lo)
    BY <1>2 DEF HostSize
  <2>2. Sub(he, lo) = IF lo <= he THEN he - lo ELSE he - lo + Mod
    BY <1>2, <1>4, SubCases
  <2>3. HostSize(loadLow, n) > 0 /\ lo + HostSize(loadLow, n) <= TaskSize
    BY <1>1, <1>2 DEF UserRange
  <2> QED
    BY <1>2, <1>3, <1>4, <2>1, <2>2, <2>3 DEF Addr
<1>6. en > 0
  <2>1. SUFFICES ASSUME en = 0 PROVE FALSE
    BY <1>4 DEF Addr
  <2>2. 0 \in Addr /\ 0 % HostPage = 0
    BY <1>3 DEF Addr
  <2>3. he <= 0
    BY <1>4, <2>1, <2>2, AlignUpBelow DEF Addr
  <2> QED
    BY <1>2, <1>4, <1>5, <2>3 DEF Addr
<1>7. loadHigh <= en /\ en <= he
  <2>1. Mod > loadHigh + GuestPage - 1
    BY <1>2, <1>3, <1>6, AlignUpPage DEF GuestPageAlignUp, Addr
  <2>2. loadHigh <= en
    BY <1>2, <1>3, <2>1, AlignUpPage DEF GuestPageAlignUp
  <2>3. Mod > en + HostPage - 1
    <3>1. SUFFICES ASSUME Mod <= en + HostPage - 1 PROVE FALSE
      BY <1>3, <1>4 DEF Addr
    <3>2. he = 0
      BY <1>4, <3>1, AlignUpPage
    <3> QED
      BY <1>2, <1>5, <3>2 DEF Addr
  <2>4. en <= he
    BY <1>3, <1>4, <2>3, AlignUpPage DEF Addr
  <2> QED
    BY <2>2, <2>4
\* Neither did the span's, rounded to host pages.
<1>8. loadHigh <= hi /\ en <= hi /\ he <= hi
  <2>1. loadHigh + HostPage - 1 < Mod
    BY <1>2, <1>3, <1>4, <1>5, <1>7 DEF Addr
  <2>2. loadHigh <= hi
    BY <1>2, <1>3, <2>1, AlignUpPage
  <2>3. he <= hi
    BY <1>2, <1>4, <2>2, AlignUpBelow
  <2> QED
    BY <1>2, <2>2, <2>3
<1>9. hi <= TaskSize
  <2>1. TaskSize \in Addr /\ loadHigh <= TaskSize
    BY <1>2, <1>3, <1>4, <1>5, <1>7 DEF Addr
  <2> QED
    BY <1>2, <1>3, <2>1, AlignUpBelow
<1>10. probe = hi - lo /\ probe \in Addr /\ 2 * probe < Mod
  <2>1. probe = Sub(hi, lo)
    BY DEF ProbeSize
  <2>2. Sub(hi, lo) = IF lo <= hi THEN hi - lo ELSE hi - lo + Mod
    BY <1>2, SubCases
  <2> QED
    BY <1>2, <1>3, <1>4, <1>5, <1>8, <1>9, <2>1, <2>2 DEF Addr
<1>11. window >= probe
  <2> DEFINE asked == AlignUp(fallback, HostPage)
             twice == Add(probe, probe)
  <2>1. asked \in Addr
    BY AlignUpPage
  <2>2. CASE ~ (asked < probe)
    BY <2>1, <2>2, <1>10 DEF FallbackSize, Addr
  <2>3. CASE asked < probe
    <3>1. window = AlignUp(twice, HostPage)
      BY <2>3 DEF FallbackSize
    <3>2. twice = 2 * probe /\ twice \in Addr
      <4>1. twice \in Addr /\ twice = IF probe + probe < Mod THEN probe + probe ELSE probe + probe - Mod
        BY <1>10, AddCases
      <4> QED
        BY <1>3, <1>10, <4>1 DEF Addr
    <3>3. window > 0
      BY <1>1 DEF UserRange
    <3>4. twice <= AlignUp(twice, HostPage)
      BY <1>3, <3>1, <3>2, <3>3, AlignUpPage DEF Addr
    <3> QED
      BY <1>10, <3>1, <3>2, <3>4, AlignUpPage DEF Addr
  <2> QED
    BY <2>2, <2>3
<1>12. window \in Int
  BY ProbeTypes, <1>2 DEF Addr
<1> QED
  BY <1>2, <1>4, <1>8, <1>10, <1>11, <1>12 DEF Addr

LEMMA NoOffset ==
  ASSUME NEW x \in Addr, NEW y \in Addr
  PROVE  /\ Sub(x, y) = 0 => x = y
         /\ Add(x, 0) = x
<1>1. Mod \in Nat \ {0} /\ 0 \in Addr
  BY PagingAssumption DEF Addr
<1>2. Sub(x, y) = IF y <= x THEN x - y ELSE x - y + Mod
  BY SubCases
<1>3. Add(x, 0) = IF x + 0 < Mod THEN x + 0 ELSE x + 0 - Mod
  BY <1>1, AddCases
<1> QED
  BY <1>1, <1>2, <1>3 DEF Addr

\* Both constructors reserve room for the map of the image.
LEMMA ConstructInside ==
  ASSUME SmallUserSpace, file \in Files, options \in Options, file.segs # <<>>,
         UNCHANGED <<file, options>>,
         \/ ConstructIdentity(loadLow, loadHigh)
         \/ \E base \in HostPages :
              ConstructBiased(loadLow, loadHigh, options.fallbackWindowSize, base)
  PROVE  ImageInside'
<1> DEFINE n == Sub(loadHigh, loadLow)
           en == MapEnd(loadLow, n)
           lo == ProbeLow(loadLow)
           hi == AlignUp(loadHigh, HostPage)
           probe == ProbeSize(loadLow, loadHigh)
<1>1. loadLow' = loadLow /\ loadHigh' = loadHigh
  BY DEF loadLow, loadHigh, spanLow, spanHigh, Biased, loadBias
<1>2. /\ loadLow \in Addr /\ loadHigh \in Addr /\ n \in Addr
      /\ lo \in Addr /\ hi \in Addr
      /\ lo <= MapStart(loadLow)
      /\ HostBase(loadLow) = lo
      /\ loadHigh <= hi => en <= hi
  BY ImageRounding
<1>3. /\ HostPage \in Nat \ {0} /\ Mod \in Nat \ {0} /\ TaskSize \in Nat
      /\ TaskSize + HostPage <= Mod
  BY PagingAssumption
<1>4. options.fallbackWindowSize \in Addr
  BY FileTypes
<1>5. CASE ConstructIdentity(loadLow, loadHigh)
  <2>1. UserRange(lo, probe) /\ reservedLow' = lo /\ reservedHigh' = Add(lo, probe)
    BY <1>5 DEF ConstructIdentity
  <2>2. Add(lo, probe) = hi /\ probe \in Addr
    BY <1>2, <1>4, ProbeTypes
  <2>3. Add(lo, probe) = IF lo + probe < Mod THEN lo + probe ELSE lo + probe - Mod
    BY <1>2, <2>2, AddCases
  <2>4. hi > 0
    BY <1>2, <1>3, <2>1, <2>2, <2>3 DEF UserRange, Addr
  <2>5. loadHigh <= hi
    BY <1>2, <1>3, <2>4, AlignUpPage DEF Addr
  <2>6. MapStart(loadLow) >= reservedLow' /\ en <= reservedHigh'
    BY <1>2, <2>1, <2>2, <2>5
  <2> QED
    BY <1>1, <2>6 DEF ImageInside, insideReservation
<1>6. ASSUME NEW base \in HostPages,
             ConstructBiased(loadLow, loadHigh, options.fallbackWindowSize, base)
      PROVE  ImageInside'
  <2> DEFINE window == FallbackSize(probe, options.fallbackWindowSize)
  <2>1. /\ UserRange(base, window) /\ reservedLow' = lo
        /\ reservedHigh' = Add(lo, window) /\ hostOffset' = Sub(base, lo)
    BY <1>6 DEF ConstructBiased
  <2>2. window \in Addr
    BY <1>2, <1>4, ProbeTypes
  <2>3. SUFFICES ASSUME hostOffset' = 0,
                        UserRange(Add(HostBase(loadLow), hostOffset'), HostSize(loadLow, n))
                 PROVE  MapStart(loadLow) >= reservedLow' /\ en <= reservedHigh'
    BY <1>1 DEF ImageInside, insideReservation, isIdentity, Desired
  <2>4. base \in Addr
    BY <1>3 DEF HostPages, Addr
  <2>5. base = lo
    BY <1>2, <2>1, <2>3, <2>4, NoOffset
  <2>6. Add(lo, 0) = lo
    BY <1>2, NoOffset
  <2>7. en <= lo + window
    BY <1>2, <1>4, <2>1, <2>3, <2>5, <2>6, FallbackRoom
  <2>8. Add(lo, window) = lo + window
    <3>1. lo + window <= TaskSize
      BY <2>1, <2>5 DEF UserRange
    <3> HIDE DEF window
    <3>2. Add(lo, window) = IF lo + window < Mod THEN lo + window ELSE lo + window - Mod
      BY <1>2, <2>2, AddCases
    <3>3. lo \in Nat /\ window \in Nat
      BY <1>2, <2>2 DEF Addr
    <3> HIDE DEF lo
    <3> QED
      BY <1>3, <3>1, <3>2, <3>3
  <2> HIDE DEF window
  <2> QED
    BY <1>2, <2>1, <2>7, <2>8
<1> QED
  BY <1>5, <1>6

LEMMA ConstructLeaks ==
  ASSUME SmallUserSpace, LoaderInv, IInv, LeakInv, ConstructMemory
  PROVE  LeakInv'
<1>1. /\ pc = "construct" /\ live = FALSE
      /\ UNCHANGED <<file, options>>
  BY DEF ConstructMemory, LoaderInv, LoaderTypeOK, IInv, TypeOK
<1>2. \A p \in HostPages : owner[p] # "guest"
  BY <1>1 DEF IInv, Unowned
<1>3. CASE /\ file.segs # <<>>
           /\ \/ ConstructIdentity(loadLow, loadHigh)
              \/ \E base \in HostPages :
                   ConstructBiased(loadLow, loadHigh, options.fallbackWindowSize, base)
  <2>1. ImageInside'
    BY <1>1, <1>3, ConstructInside DEF LoaderInv
  <2>2. \A p \in HostPages :
          owner'[p] = IF p \in Window' THEN "guest" ELSE owner[p]
    BY <1>3 DEF ConstructIdentity, ConstructBiased, Take, Window, PageRange
  <2> QED
    BY <1>2, <2>1, <2>2 DEF LeakInv, StackPage
<1>4. CASE ConstructThrows /\ pc' = "idle"
  BY <1>4 DEF ConstructThrows, LeakInv, StackPage, kernel, object, Window, PageRange
<1> QED
  BY <1>3, <1>4 DEF ConstructMemory

\* The map of the image takes pages of the window.
LEMMA MapImageLeaks ==
  ASSUME LoaderInv, IInv, LeakInv, MapImage
  PROVE  LeakInv'
<1> DEFINE n == Sub(loadHigh, loadLow)
           pages == PageRange(Desired(loadLow), HostSize(loadLow, n))
<1>1. pc = "map" /\ pc' # "map"
  BY DEF MapImage, Calls
<1>2. loadLow \in Addr /\ n \in Addr
  BY <1>1, SpanTypes DEF LoaderInv
<1>3. CASE MapOk(loadLow, n, {"r", "w"})
  <2>1. live /\ MapAccepted(loadLow, n) /\ Take(pages, {"r", "w"}) /\ UNCHANGED object
    BY <1>3 DEF MapOk
  <2>2. pages \subseteq Window
    <3>1. CASE ~isIdentity
      BY <1>2, <2>1, <3>1, MapPages
    <3>2. CASE isIdentity
      <4>1. /\ UserRange(Desired(loadLow), HostSize(loadLow, n))
            /\ isAddressable(MapStart(loadLow), MapSize(loadLow, n))
        BY <2>1 DEF MapAccepted
      <4>2. insideReservation(loadLow, n)
        BY <1>1, <3>2, <4>1 DEF LeakInv, ImageInside
      <4> QED
        BY <1>2, <2>1, <4>1, <4>2, InsideStaysInWindow DEF IInv
    <3> QED
      BY <3>1, <3>2
  <2>3. Window' = Window
    BY <2>1 DEF object, Window, PageRange
  <2>4. \A p \in HostPages : owner'[p] = IF p \in pages THEN "guest" ELSE owner[p]
    BY <2>1 DEF Take
  <2> HIDE DEF pages
  <2> QED
    BY <1>1, <2>2, <2>3, <2>4 DEF LeakInv, StackPage
<1>4. CASE MapThrows(loadLow, n) \/ EmptyCall
  BY <1>1, <1>4 DEF MapThrows, EmptyCall, object, kernel, Window, PageRange, LeakInv, StackPage
<1> QED
  BY <1>3, <1>4 DEF MapImage, Calls

\* The map of the stack takes pages of the window or, in identity mode, the
\* pages the options ask for.
LEMMA MapStackLeaks ==
  ASSUME LoaderInv, IInv, LeakInv, MapStack
  PROVE  LeakInv'
<1> DEFINE pages == PageRange(Desired(low), HostSize(low, size))
<1>1. pc' # "map"
  BY DEF MapStack, Calls, Throw
<1>2. top \in Addr /\ size \in Addr /\ low \in Addr
  BY StackTypes DEF LoaderInv, IInv
<1>3. CASE MapOk(low, size, {"r", "w"})
  <2>1. live /\ MapAccepted(low, size) /\ Take(pages, {"r", "w"}) /\ UNCHANGED object
    BY <1>3 DEF MapOk
  <2>2. \A p \in pages : p \in Window \/ StackPage(p)
    <3>1. CASE ~isIdentity
      BY <1>2, <2>1, <3>1, MapPages
    <3>2. CASE isIdentity
      <4>1. HostBase(low) \in Addr
        BY <1>2, RoundingTypes DEF IInv, TypeOK
      <4>2. Desired(low) = HostBase(low)
        BY <3>2, <4>1, NoOffset DEF Desired, isIdentity
      <4>3. /\ size = GuestPageAlignUp(options.stackSize)
            /\ low = Sub(GuestPageAlignUp(options.stackTop), GuestPageAlignUp(options.stackSize))
        BY <3>2 DEF low, size, top, stackTop
      <4>4. options \in Options
        BY DEF LoaderInv
      <4> QED
        BY <4>2, <4>3, <4>4 DEF StackPage
    <3> QED
      BY <3>1, <3>2
  <2>3. Window' = Window
    BY <2>1 DEF object, Window, PageRange
  <2>4. \A p \in HostPages : owner'[p] = IF p \in pages THEN "guest" ELSE owner[p]
    BY <2>1 DEF Take
  <2> HIDE DEF pages
  <2> QED
    BY <1>1, <2>2, <2>3, <2>4 DEF LeakInv, StackPage
<1>4. CASE UNCHANGED <<object, kernel>>
  BY <1>1, <1>4 DEF object, kernel, Window, PageRange, LeakInv, StackPage
<1>5. MapThrows(low, size) \/ EmptyCall \/ Throw => UNCHANGED <<object, kernel>>
  BY DEF MapThrows, EmptyCall, Throw, vars, object, kernel
<1> QED
  BY <1>3, <1>4, <1>5 DEF MapStack, Calls

\* The destructor frees the window; the other pages of the object are left.
LEMMA DestroyLeaks ==
  ASSUME LeakInv, Unwind \/ Release
  PROVE  LeakInv'
<1>1. Destroy /\ pc' = "idle"
  BY DEF Unwind, Release
<1>2. \A p \in HostPages :
        owner'[p] = IF p \in Window THEN "free"
                    ELSE IF owner[p] = "guest" THEN "leaked" ELSE owner[p]
  BY <1>1 DEF Destroy
<1> QED
  BY <1>1, <1>2 DEF LeakInv, StackPage

LEMMA HostLeaks ==
  ASSUME IInv, LeakInv, HostStep, UNCHANGED loaderVars
  PROVE  LeakInv'
<1>1. UNCHANGED object /\ pc' = pc /\ file' = file /\ options' = options
  BY DEF HostStep, HostMaps, HostUnmaps, loaderVars
<1>2. \A p \in HostPages :
        owner'[p] = owner[p] \/ owner'[p] \in {"other", "free"}
  BY DEF HostStep, HostMaps, HostUnmaps, IInv, TypeOK
<1>3. Window' = Window /\ (ImageInside => ImageInside')
  BY <1>1 DEF object, Window, PageRange, ImageInside, isIdentity, Desired, insideReservation,
              loadLow, loadHigh, spanLow, spanHigh, Biased, loadBias
<1> QED
  BY <1>1, <1>2, <1>3 DEF LeakInv, StackPage

\* Every other step leaves the pages as they are.
SamePages == UNCHANGED <<object, owner>> /\ pc' # "map"

LEMMA AccessSamePages ==
  ASSUME NEW g, NEW n, NEW access, NEW next
  PROVE  /\ WriteTo(g, n, next) /\ next # "map" => SamePages
         /\ ReadFrom(g, n, next) /\ next # "map" => SamePages
         /\ ZeroOk(g, n) \/ AccessThrows(g, n) \/ AccessFaults(g, n, access)
              => UNCHANGED <<object, owner>>
  BY DEF WriteTo, ReadFrom, Calls, WriteOk, ReadOk, ZeroOk, AccessThrows, AccessFaults,
         kernel, SamePages

LEMMA ProtectSamePages ==
  ASSUME NEW g, NEW n, NEW prot
  PROVE  ProtectOk(g, n, prot) \/ ProtectThrows(g, n) => UNCHANGED <<object, owner>>
  BY DEF ProtectOk, ProtectThrows, kernel

LEMMA QuietSamePages == Quiet => UNCHANGED <<object, owner>>
  BY DEF Quiet, vars, kernel

LEMMA OtherSteps ==
  ASSUME \/ Begin \/ WriteSegment \/ ZeroSegment \/ ProtectSegment \/ ReadHeaders
         \/ WalkDynamic \/ BeginTable \/ ReadEntry \/ ApplyEntry \/ ProtectRelro
         \/ PushString \/ PushRandom \/ SetRsp \/ PushWord
  PROVE  SamePages
<1>1. CASE Begin
  BY <1>1, QuietSamePages DEF Begin, SamePages
<1>2. CASE WriteSegment
  BY <1>2, AccessSamePages, QuietSamePages DEF WriteSegment, Throw, Quiet, SamePages
<1>3. CASE ZeroSegment
  BY <1>3, AccessSamePages, QuietSamePages DEF ZeroSegment, Calls, SamePages
<1>4. CASE ProtectSegment
  BY <1>4, ProtectSamePages, QuietSamePages DEF ProtectSegment, Calls, SamePages
<1>5. CASE ReadHeaders
  BY <1>5, QuietSamePages DEF ReadHeaders, Throw, Quiet, SamePages
<1>6. CASE WalkDynamic
  BY <1>6, AccessSamePages, QuietSamePages DEF WalkDynamic, SamePages
<1>7. CASE BeginTable
  BY <1>7, QuietSamePages DEF BeginTable, SamePages
<1>8. CASE ReadEntry
  BY <1>8, AccessSamePages, QuietSamePages DEF ReadEntry, SamePages
<1>9. CASE ApplyEntry
  <2>1. (\E t : WriteTo(t, WordSize, "entry")) \/ (pc' = "entry" /\ Quiet)
    BY <1>9 DEF ApplyEntry
  <2> QED
    BY <2>1, AccessSamePages, QuietSamePages DEF SamePages
<1>10. CASE ProtectRelro
  BY <1>10, ProtectSamePages, QuietSamePages DEF ProtectRelro, Calls, SamePages
<1>11. CASE PushString
  BY <1>11, AccessSamePages, QuietSamePages DEF PushString, SamePages
<1>12. CASE PushRandom
  BY <1>12, AccessSamePages DEF PushRandom
<1>13. CASE SetRsp
  BY <1>13, QuietSamePages DEF SetRsp, Throw, Quiet, SamePages
<1>14. CASE PushWord
  BY <1>14, AccessSamePages, QuietSamePages DEF PushWord, SamePages
<1> QED
  BY <1>1, <1>2, <1>3, <1>4, <1>5, <1>6, <1>7, <1>8, <1>9, <1>10, <1>11, <1>12, <1>13, <1>14

LEMMA SamePagesLeaks == LeakInv /\ SamePages => LeakInv'
  BY DEF LeakInv, SamePages, object, Window, PageRange, StackPage

LEMMA IdleLeaks == LeakInv /\ UNCHANGED allVars => LeakInv'
  BY DEF allVars, vars, loaderVars, object, kernel, LeakInv, Window, PageRange, StackPage,
         ImageInside, isIdentity, Desired, insideReservation,
         loadLow, loadHigh, spanLow, spanHigh, Biased, loadBias

LEMMA LeakStep ==
  ASSUME SmallUserSpace, LoaderInv, IInv, LeakInv, [LoaderNext]_allVars
  PROVE  LeakInv'
<1>1. CASE ConstructMemory
  BY <1>1, ConstructLeaks
<1>2. CASE MapImage
  BY <1>2, MapImageLeaks
<1>3. CASE MapStack
  BY <1>3, MapStackLeaks
<1>4. CASE Unwind \/ Release
  BY <1>4, DestroyLeaks
<1>5. CASE HostStep /\ UNCHANGED loaderVars
  BY <1>5, HostLeaks
<1>6. CASE UNCHANGED allVars
  BY <1>6, IdleLeaks
<1>7. CASE \/ Begin \/ WriteSegment \/ ZeroSegment \/ ProtectSegment \/ ReadHeaders
           \/ WalkDynamic \/ BeginTable \/ ReadEntry \/ ApplyEntry \/ ProtectRelro
           \/ PushString \/ PushRandom \/ SetRsp \/ PushWord
  BY <1>7, OtherSteps, SamePagesLeaks
<1> QED
  BY <1>1, <1>2, <1>3, <1>4, <1>5, <1>6, <1>7 DEF LoaderNext, LoadStep

\* Of all that loads claimed and gave up, by a throw or at the end of their
\* process, only stacks outside the window are left behind: the image never is.
THEOREM LoadLeaksOnlyStacks ==
  AnyClient /\ SmallUserSpace => (LoaderSpec => []LeaksOnlyStacks)
<1> SUFFICES ASSUME AnyClient, SmallUserSpace PROVE LoaderSpec => []LeaksOnlyStacks
  OBVIOUS
<1>1. LoaderInit => LeakInv
  BY DEF LoaderInit, Init, LeakInv
<1>2. LeakInv /\ LoaderInv /\ IInv /\ [LoaderNext]_allVars => LeakInv'
  BY LeakStep
<1>3. LoaderSpec => [](LoaderInv /\ IInv)
  BY ClientInvariant
<1>4. LeakInv => LeaksOnlyStacks
  BY DEF LeakInv, StackPage, LeaksOnlyStacks
<1> QED
  BY <1>1, <1>2, <1>3, <1>4, PTL DEF LoaderSpec
=============================================================================
