------------------------- MODULE LoaderImageProofs -------------------------
(***************************************************************************)
(* What a load has made when the CPU starts, and why none of its steps is   *)
(* killed by a signal, for every file a linker makes (WellLinked), whatever *)
(* else the process maps and wherever a step throws.                       *)
(*                                                                         *)
(* Layout: the segments lie in the image on pages of their own, above room  *)
(* for a stack (ImageLaid, RelroLaid, EntryLaid, DynamicLaid).  Permissions: *)
(* LinkInv gives at each stage what protAt answers for every address.       *)
(* Contents: ImageInv gives at each stage the bytes of the image and of the  *)
(* stack that hold data, and that no access so far has faulted.  Accesses:   *)
(* ReadSafe and WriteSafe turn the one into the other.                      *)
(***************************************************************************)
EXTENDS LoaderProofs, GuestSpaceProofs

(***************************************************************************)
(* The bytes a stack takes.                                                *)
(***************************************************************************)

\* The sums of the first strings are what the recursion says.
LEMMA StringBytesDef ==
  \A j \in 0 .. Len(Strings) :
    StringBytes[j] = IF j = 0 THEN 0 ELSE StringBytes[j - 1] + Strings[j]
<1> DEFINE L == Len(Strings)
           Sums(f, n) == f = [j \in 0 .. n |-> IF j = 0 THEN 0 ELSE f[j - 1] + Strings[j]]
           Bad == {n \in 0 .. L : ~ \E f : Sums(f, n)}
<1>1. L \in Nat
  BY LoaderAssumption
<1> HIDE DEF L
<1>2. Bad = {}
  <2>1. SUFFICES ASSUME Bad # {} PROVE FALSE
    OBVIOUS
  <2>2. Bad \in SUBSET Nat
    BY <1>1
  <2>3. PICK x \in Bad : \A y \in Bad : x <= y
    <3> HIDE DEF Bad
    <3> QED
      BY <2>1, <2>2, SmallestNat
  <2>4. CASE x = 0
    <3> DEFINE f == [j \in 0 .. 0 |-> 0]
    <3>1. Sums(f, 0)
      OBVIOUS
    <3> QED
      BY <2>4, <3>1
  <2>5. CASE x > 0
    <3>1. x - 1 \in 0 .. L /\ x - 1 \notin Bad
      BY <1>1, <2>3, <2>5
    <3>2. PICK f : Sums(f, x - 1)
      BY <3>1
    <3> DEFINE h == [j \in 0 .. x |-> IF j = x THEN f[x - 1] + Strings[x] ELSE f[j]]
    <3>3. ASSUME NEW j \in 0 .. x
          PROVE  h[j] = IF j = 0 THEN 0 ELSE h[j - 1] + Strings[j]
      <4>1. CASE j = x
        BY <1>1, <2>3, <2>5, <4>1
      <4>2. CASE j # x
        <5>1. j \in 0 .. x - 1 /\ (j # 0 => j - 1 \in 0 .. x - 1)
          BY <1>1, <2>3, <4>2
        <5>2. f[j] = IF j = 0 THEN 0 ELSE f[j - 1] + Strings[j]
          BY <3>2, <5>1
        <5>3. h[j] = f[j] /\ (j # 0 => h[j - 1] = f[j - 1])
          BY <1>1, <2>3, <4>2, <5>1
        <5> QED
          BY <5>2, <5>3
      <4> QED
        BY <4>1, <4>2
    <3>4. Sums(h, x)
      <4>1. h = [j \in 0 .. x |-> h[j]]
        OBVIOUS
      <4> HIDE DEF h
      <4> QED
        BY <3>3, <4>1
    <3> HIDE DEF h, Sums
    <3> QED
      BY <3>4
  <2> QED
    BY <1>1, <2>3, <2>4, <2>5
<1>3. \E f : Sums(f, L)
  <2>1. L \in 0 .. L /\ L \notin Bad
    BY <1>1, <1>2
  <2> HIDE DEF Sums
  <2> QED
    BY <2>1
<1>4. Sums(StringBytes, L)
  <2>1. StringBytes = CHOOSE f : Sums(f, L)
    BY DEF StringBytes, L
  <2> HIDE DEF Sums
  <2> QED
    BY <1>3, <2>1
<1> QED
  BY <1>4 DEF L

LEMMA StringBytesType ==
  /\ \A j \in 0 .. Len(Strings) : StringBytes[j] \in Nat
  /\ Len(Strings) \in Nat \ {0}
  /\ \A j \in 1 .. Len(Strings) :
       /\ Strings[j] \in Addr \ {0}
       /\ StringBytes[j] = StringBytes[j - 1] + Strings[j]
<1> DEFINE L == Len(Strings)
           Bad == {n \in 0 .. L : StringBytes[n] \notin Nat}
<1>1. L \in Nat \ {0} /\ \A j \in 1 .. L : Strings[j] \in Addr \ {0}
  BY LoaderAssumption
<1> HIDE DEF L
<1>2. \A j \in 0 .. L : StringBytes[j] = IF j = 0 THEN 0 ELSE StringBytes[j - 1] + Strings[j]
  BY StringBytesDef DEF L
<1>3. Bad = {}
  <2>1. SUFFICES ASSUME Bad # {} PROVE FALSE
    OBVIOUS
  <2>2. Bad \in SUBSET Nat
    BY <1>1
  <2>3. PICK x \in Bad : \A y \in Bad : x <= y
    <3> HIDE DEF Bad
    <3> QED
      BY <2>1, <2>2, SmallestNat
  <2>4. x # 0
    BY <1>1, <1>2, <2>3
  <2>5. x - 1 \in 0 .. L /\ x - 1 \notin Bad /\ x \in 1 .. L
    BY <1>1, <2>3, <2>4
  <2>6. StringBytes[x - 1] \in Nat /\ Strings[x] \in Nat
    BY <1>1, <2>5 DEF Addr
  <2>7. StringBytes[x] = StringBytes[x - 1] + Strings[x]
    BY <1>2, <2>4, <2>3
  <2> QED
    BY <2>3, <2>6, <2>7
<1>4. \A j \in 1 .. L : StringBytes[j] = StringBytes[j - 1] + Strings[j]
  BY <1>1, <1>2
<1> QED
  BY <1>1, <1>3, <1>4 DEF L

LEMMA StringBytesGrow ==
  \A i \in 0 .. Len(Strings) : \A j \in 0 .. i : StringBytes[j] <= StringBytes[i]
<1> DEFINE L == Len(Strings)
           Bad == {i \in 0 .. L : \E j \in 0 .. i : ~ (StringBytes[j] <= StringBytes[i])}
<1>1. L \in Nat
  BY StringBytesType DEF L
<1>2. SUFFICES ASSUME Bad # {} PROVE FALSE
  OBVIOUS
<1>3. Bad \in SUBSET Nat
  BY <1>1
<1>4. PICK x \in Bad : \A y \in Bad : x <= y
  <2> HIDE DEF Bad
  <2> QED
    BY <1>2, <1>3, SmallestNat
<1>5. PICK j \in 0 .. x : ~ (StringBytes[j] <= StringBytes[x])
  OBVIOUS
<1> HIDE DEF L
<1>6. x \in 0 .. L /\ j \in 0 .. L
  BY <1>1, <1>4, <1>5
<1>7. StringBytes[x] \in Nat /\ StringBytes[j] \in Nat
  BY <1>6, StringBytesType DEF L
<1>8. j # x
  BY <1>5, <1>7
<1>9. x - 1 \in 0 .. L /\ x - 1 \notin Bad /\ x \in 1 .. L /\ j \in 0 .. x - 1
  BY <1>1, <1>4, <1>5, <1>6, <1>8
<1>10. StringBytes[j] <= StringBytes[x - 1]
  BY <1>9
<1>11. /\ StringBytes[x] = StringBytes[x - 1] + Strings[x]
       /\ Strings[x] \in Nat /\ StringBytes[x - 1] \in Nat
  BY <1>9, StringBytesType DEF L, Addr
<1> QED
  BY <1>5, <1>7, <1>10, <1>11

(***************************************************************************)
(* Where a linked file lies.                                               *)
(***************************************************************************)

LEMMA MinLeast ==
  ASSUME NEW S \in SUBSET Addr, S # {}
  PROVE  Min(S) \in S /\ \A x \in S : Min(S) <= x
<1>1. S \in SUBSET Nat
  BY DEF Addr
<1>2. PICK x \in S : \A y \in S : x <= y
  BY <1>1, SmallestNat
<1> QED
  BY <1>2 DEF Min

\* What is above all of a set is its greatest member.
LEMMA MaxIs ==
  ASSUME NEW S \in SUBSET Int, NEW m \in S, \A x \in S : x <= m
  PROVE  Max(S) = m
<1>1. \E x \in S : \A y \in S : x >= y
  OBVIOUS
<1>2. Max(S) \in S /\ \A y \in S : Max(S) >= y
  BY <1>1 DEF Max
<1>3. Max(S) \in Int /\ m \in Int /\ Max(S) <= m /\ Max(S) >= m
  BY <1>2
<1> QED
  BY <1>3

LEMMA MaxGreatest ==
  ASSUME NEW bound \in Nat, NEW S \in SUBSET (0 .. bound), S # {}
  PROVE  Max(S) \in S /\ \A x \in S : x <= Max(S)
<1> DEFINE T == {bound - x : x \in S}
<1>1. \A x \in S : x \in Nat /\ bound - x \in Nat
  OBVIOUS
<1>2. T \in SUBSET Nat /\ T # {}
  BY <1>1
<1>3. PICK t \in T : \A u \in T : t <= u
  <2> HIDE DEF T
  <2> QED
    BY <1>2, SmallestNat
<1>4. PICK m \in S : t = bound - m
  OBVIOUS
<1>5. ASSUME NEW y \in S PROVE y <= m
  <2>1. bound - y \in T
    OBVIOUS
  <2>2. t <= bound - y
    BY <1>3, <2>1
  <2> QED
    BY <1>1, <1>4, <2>2
<1>6. S \in SUBSET Int
  BY <1>1
<1>7. Max(S) = m
  BY <1>5, <1>6, MaxIs
<1> QED
  BY <1>5, <1>7

\* A shift by whole pages moves the page.
LEMMA AlignShift ==
  ASSUME NEW v \in Addr, NEW b \in Addr, v + b < Mod, b % GuestPage = 0
  PROVE  GuestPageAlignDown(v + b) = GuestPageAlignDown(v) + b
<1> DEFINE x == GuestPageAlignDown(v)
           y == GuestPageAlignDown(v + b)
<1>1. GuestPage \in Nat \ {0} /\ v \in Nat /\ b \in Nat /\ Mod \in Nat
  BY PagingAssumption DEF Addr
<1>2. x \in Nat /\ x <= v /\ v < x + GuestPage /\ x % GuestPage = 0
  BY <1>1, AlignDownPage DEF GuestPageAlignDown
<1>3. /\ y \in Nat /\ y <= v + b /\ v + b < y + GuestPage
      /\ y % GuestPage = 0
  <2>1. v + b \in Nat
    BY <1>1
  <2> QED
    BY <1>1, <2>1, AlignDownPage DEF GuestPageAlignDown
<1> HIDE DEF x, y
<1>4. (x + b) % GuestPage = 0
  <2>1. x \in Addr /\ x + b < Mod
    BY <1>1, <1>2 DEF Addr
  <2>2. Add(x, b) = x + b
    BY <2>1, AddCases
  <2> QED
    BY <1>2, <2>1, <2>2, GuestSums
<1> DEFINE z == x + b
<1>0. z \in Nat /\ z % GuestPage = 0
  BY <1>1, <1>2, <1>4
<1> HIDE DEF z
<1>5. ~ (z < y)
  <2>1. z < y => z + GuestPage <= y
    BY <1>0, <1>1, <1>3, MultipleGap
  <2> QED
    BY <1>1, <1>2, <1>3, <2>1 DEF z
<1>6. ~ (y < z)
  <2>1. y < z => y + GuestPage <= z
    BY <1>0, <1>1, <1>3, MultipleGap
  <2> QED
    BY <1>1, <1>2, <1>3, <2>1 DEF z
<1> QED
  BY <1>0, <1>3, <1>5, <1>6 DEF x, y, z

LEMMA Bias ==
  ASSUME WellLinked, file \in Files, options \in Options
  PROVE  /\ LinkedAt(file, loadBias)
         /\ loadBias \in Addr /\ loadBias % GuestPage = 0
         /\ \A v \in Addr : v + loadBias < Mod => Biased(v) = v + loadBias
<1>1. LinkedAt(file, loadBias) /\ options.pieBase % GuestPage = 0
  BY DEF WellLinked, loadBias
<1>2. loadBias \in Addr
  BY FileTypes, PagingAssumption DEF loadBias, Addr
<1>3. 0 % GuestPage = 0
  BY PagingAssumption
<1> QED
  BY <1>1, <1>2, <1>3, AddCases DEF loadBias, Biased

\* User space in the terms the layout needs.
LEMMA UserSpace ==
  /\ TaskSize \in Addr /\ TaskSize % GuestPage = 0
  /\ GuestPage \in Nat \ {0} /\ TaskSize + GuestPage <= Mod /\ Mod \in Nat \ {0}
  /\ SmallUserSpace => 2 * TaskSize < Mod
<1>1. TaskSize \in Addr /\ TaskSize % HostPage = 0
  BY PagingAssumption DEF Addr
<1>2. GuestPage <= HostPage
  <2>1. 0 % GuestPage = 0 /\ HostPage % GuestPage = 0
    BY PagingAssumption
  <2> QED
    BY <2>1, PagingAssumption, MultipleGap
<1> QED
  BY <1>1, <1>2, HostAlignedIsGuestAligned, PagingAssumption DEF SmallUserSpace

LEMMA StackBytesType ==
  /\ StackBytes \in Nat \ {0}
  /\ StackBytes = StringBytes[Len(Strings)] + RandomBytes + StackAlign + Slots * WordSize
  /\ StringBytes[Len(Strings)] \in Nat
  /\ RandomBytes \in Nat \ {0} /\ StackAlign \in Nat \ {0} /\ WordSize \in Nat \ {0}
  /\ Slots \in Nat /\ Slots * WordSize \in Nat
<1>1. StringBytes[Len(Strings)] \in Nat
  BY StringBytesType
<1>2. /\ RandomBytes \in Nat \ {0} /\ StackAlign \in Nat \ {0} /\ WordSize \in Nat \ {0}
      /\ Slots \in Nat
  BY LoaderAssumption DEF Addr
<1>3. Slots * WordSize \in Nat
  BY <1>2
<1> QED
  BY <1>1, <1>2, <1>3 DEF StackBytes

\* A segment lies in user space where its header says, moved by the bias.
LEMMA SegmentLaid ==
  ASSUME WellLinked, file \in Files, options \in Options, NEW i \in 1 .. Len(file.segs)
  PROVE  LET seg == file.segs[i]
             at == Biased(seg.vaddr)
         IN  /\ seg \in Segment
             /\ at = seg.vaddr + loadBias /\ at \in Addr
             /\ at + seg.memsz <= TaskSize
             /\ StackBytes <= GuestPageAlignDown(at)
             /\ i \in Loadable =>
                  /\ seg.filesz <= seg.memsz
                  /\ seg.prot # {}
                  /\ \A j \in Loadable \ {i} :
                       Span(at, seg.memsz)
                         \cap Span(Biased(file.segs[j].vaddr), file.segs[j].memsz) = {}
<1>1. /\ LinkedAt(file, loadBias) /\ loadBias \in Addr
      /\ \A v \in Addr : v + loadBias < Mod => Biased(v) = v + loadBias
  BY Bias
<1>2. \A j \in 1 .. Len(file.segs) : file.segs[j] \in Segment
  BY FileTypes
<1>3. ASSUME NEW j \in 1 .. Len(file.segs)
      PROVE  /\ file.segs[j].vaddr \in Addr /\ file.segs[j].memsz \in Addr
             /\ file.segs[j].vaddr + loadBias + file.segs[j].memsz <= TaskSize
             /\ StackBytes <= GuestPageAlignDown(file.segs[j].vaddr + loadBias)
  BY <1>1, <1>2 DEF LinkedAt, Segment
<1>4. ASSUME NEW j \in 1 .. Len(file.segs)
      PROVE  /\ Biased(file.segs[j].vaddr) = file.segs[j].vaddr + loadBias
             /\ Biased(file.segs[j].vaddr) \in Addr
             /\ Biased(file.segs[j].vaddr) + file.segs[j].memsz <= TaskSize
             /\ StackBytes <= GuestPageAlignDown(Biased(file.segs[j].vaddr))
  <2> DEFINE v == file.segs[j].vaddr
             n == file.segs[j].memsz
  <2>0. v \in Addr /\ n \in Addr /\ loadBias \in Addr /\ v + loadBias + n <= TaskSize
    BY <1>1, <1>3
  <2> HIDE DEF v, n
  <2>1. v + loadBias < Mod /\ v + loadBias \in Addr
    BY <2>0, UserSpace DEF Addr
  <2> USE DEF v, n
  <2> QED
    BY <1>1, <1>3, <2>1
<1>5. ASSUME i \in Loadable
      PROVE  /\ file.segs[i].filesz <= file.segs[i].memsz
             /\ file.segs[i].prot # {}
             /\ \A j \in Loadable \ {i} :
                  Span(file.segs[i].vaddr + loadBias, file.segs[i].memsz)
                    \cap Span(file.segs[j].vaddr + loadBias, file.segs[j].memsz) = {}
  BY <1>1, <1>5 DEF LinkedAt, Loadable, Span
<1>6. Loadable \subseteq 1 .. Len(file.segs)
  BY DEF Loadable
<1> QED
  BY <1>2, <1>4, <1>5, <1>6

\* The image is a range of whole pages of user space, above room for a stack,
\* and every segment's pages are among them.
LEMMA ImageLaid ==
  ASSUME WellLinked, file \in Files, options \in Options, file.segs # <<>>
  PROVE  /\ loadLow \in Addr /\ loadLow % GuestPage = 0
         /\ loadHigh \in Addr /\ loadHigh % GuestPage = 0
         /\ StackBytes <= loadLow /\ loadLow <= loadHigh /\ loadHigh <= TaskSize
         /\ \A i \in Loadable :
              /\ loadLow <= MapStart(Biased(file.segs[i].vaddr))
              /\ MapEnd(Biased(file.segs[i].vaddr), file.segs[i].memsz) <= loadHigh
<1> DEFINE Segs == ToSet(file.segs)
           starts == {s.vaddr : s \in Segs}
           ends == {Add(s.vaddr, s.memsz) : s \in Segs}
<1>1. Len(file.segs) \in Nat \ {0} /\ DOMAIN file.segs = 1 .. Len(file.segs)
  BY FileTypes
<1>2. Segs = {file.segs[i] : i \in 1 .. Len(file.segs)}
  BY <1>1 DEF ToSet
<1>3. /\ loadBias \in Addr /\ loadBias % GuestPage = 0
      /\ \A v \in Addr : v + loadBias < Mod => Biased(v) = v + loadBias
  BY Bias
<1>4. \A s \in Segs : /\ s.vaddr \in Addr /\ s.memsz \in Addr
                      /\ s.vaddr + loadBias + s.memsz <= TaskSize
                      /\ StackBytes <= GuestPageAlignDown(s.vaddr + loadBias)
  <2>1. ASSUME NEW i \in 1 .. Len(file.segs)
        PROVE  LET s == file.segs[i]
               IN  /\ s.vaddr \in Addr /\ s.memsz \in Addr
                   /\ s.vaddr + loadBias + s.memsz <= TaskSize
                   /\ StackBytes <= GuestPageAlignDown(s.vaddr + loadBias)
    BY SegmentLaid DEF Segment
  <2> QED
    BY <1>2, <2>1
<1>5. \A s \in Segs : Add(s.vaddr, s.memsz) = s.vaddr + s.memsz
                     /\ s.vaddr + s.memsz \in Addr
  <2>1. ASSUME NEW v \in Addr, NEW n \in Addr, v + loadBias + n <= TaskSize
        PROVE  Add(v, n) = v + n /\ v + n \in Addr
    <3>1. v + n < Mod /\ v + n \in Addr
      BY <1>3, <2>1, UserSpace DEF Addr
    <3> QED
      BY <3>1, AddCases
  <2> QED
    BY <1>4, <2>1
<1>6. Segs # {}
  <2>1. 1 \in 1 .. Len(file.segs)
    BY <1>1
  <2> QED
    BY <1>2, <2>1
<1> HIDE DEF Segs
<1>7. Min(starts) \in starts /\ \A x \in starts : Min(starts) <= x
  <2>1. starts \in SUBSET Addr /\ starts # {}
    BY <1>4, <1>6
  <2> HIDE DEF starts
  <2> QED
    BY <2>1, MinLeast
<1>8. Max(ends) \in ends /\ \A x \in ends : x <= Max(ends)
  <2>1. ends \in SUBSET (0 .. Mod - 1) /\ ends # {} /\ Mod - 1 \in Nat
    BY <1>5, <1>6, UserSpace DEF Addr
  <2> HIDE DEF ends
  <2> QED
    BY <2>1, MaxGreatest
<1>9. PICK first \in Segs : Min(starts) = first.vaddr
  BY <1>7
<1>10. PICK last \in Segs : Max(ends) = last.vaddr + last.memsz
  BY <1>5, <1>8
<1> DEFINE m == first.vaddr
           M == last.vaddr + last.memsz
<1>11. /\ m \in Addr /\ M \in Addr /\ m + loadBias <= TaskSize /\ M + loadBias <= TaskSize
       /\ StackBytes <= GuestPageAlignDown(m + loadBias)
       /\ \A s \in Segs : m <= s.vaddr /\ s.vaddr + s.memsz <= M
  <2>1. \A s \in Segs : m <= s.vaddr
    BY <1>7, <1>9
  <2>2. \A s \in Segs : s.vaddr + s.memsz <= M
    BY <1>5, <1>8, <1>10
  <2>3. /\ m \in Addr /\ first.memsz \in Addr /\ m + loadBias + first.memsz <= TaskSize
        /\ StackBytes <= GuestPageAlignDown(m + loadBias)
    BY <1>4
  <2>4. /\ M \in Addr /\ last.vaddr \in Addr /\ last.memsz \in Addr
        /\ last.vaddr + loadBias + last.memsz <= TaskSize
    BY <1>4, <1>5
  <2>5. m + loadBias <= TaskSize
    <3> HIDE DEF m
    <3> QED
      BY <1>3, <2>3, UserSpace DEF Addr
  <2>6. M + loadBias <= TaskSize
    BY <1>3, <2>4, UserSpace DEF Addr
  <2> QED
    BY <2>1, <2>2, <2>3, <2>4, <2>5, <2>6
<1>12. spanLow = GuestPageAlignDown(m) /\ spanHigh = GuestPageAlignUp(M)
  BY <1>9, <1>10 DEF spanLow, spanHigh, Segs
<1> HIDE DEF m, M
<1>13. /\ GuestPageAlignDown(m) \in Addr /\ GuestPageAlignDown(m) <= m
       /\ GuestPageAlignDown(m) % GuestPage = 0
       /\ GuestPageAlignDown(m + loadBias) = GuestPageAlignDown(m) + loadBias
  <2>1. m \in Nat /\ m + loadBias < Mod
    BY <1>3, <1>11, UserSpace DEF Addr
  <2> QED
    BY <1>3, <1>11, <2>1, UserSpace, AlignDownPage, AlignDownAddr, AlignShift
       DEF GuestPageAlignDown
<1>14. /\ loadLow = GuestPageAlignDown(m) + loadBias
       /\ loadLow \in Addr /\ loadLow % GuestPage = 0
  <2>1. GuestPageAlignDown(m) + loadBias < Mod
    BY <1>3, <1>11, <1>13, UserSpace DEF Addr
  <2>2. loadLow = GuestPageAlignDown(m) + loadBias
    BY <1>3, <1>12, <1>13, <2>1 DEF loadLow
  <2>3. Add(GuestPageAlignDown(m), loadBias) = loadLow
    BY <1>12 DEF loadLow, Biased
  <2> QED
    BY <1>3, <1>13, <2>2, <2>3, GuestSums, AddCases
<1>15. /\ GuestPageAlignUp(M) \in Addr /\ M <= GuestPageAlignUp(M)
       /\ GuestPageAlignUp(M) + loadBias <= TaskSize
       /\ GuestPageAlignUp(M) % GuestPage = 0
  <2>1. M + GuestPage - 1 < Mod
    BY <1>3, <1>11, UserSpace DEF Addr
  <2>2. /\ TaskSize - loadBias \in Addr /\ (TaskSize - loadBias) % GuestPage = 0
        /\ M <= TaskSize - loadBias
    <3>0. loadBias <= TaskSize
      BY <1>3, <1>11, UserSpace DEF Addr
    <3>1. Sub(TaskSize, loadBias) = TaskSize - loadBias /\ Sub(TaskSize, loadBias) \in Addr
      BY <1>3, <3>0, UserSpace, SubCases
    <3>2. Sub(TaskSize, loadBias) % GuestPage = 0
      BY <1>3, UserSpace, GuestSums
    <3>3. M <= TaskSize - loadBias
      BY <1>3, <1>11, UserSpace DEF Addr
    <3> QED
      BY <3>1, <3>2, <3>3
  <2>3. GuestPageAlignUp(M) <= TaskSize - loadBias
    BY <1>11, <2>2, AlignUpBelow DEF GuestPageAlignUp
  <2>4. /\ GuestPageAlignUp(M) \in Addr /\ M <= GuestPageAlignUp(M)
        /\ GuestPageAlignUp(M) % GuestPage = 0
    BY <1>11, <2>1, AlignUpPage DEF GuestPageAlignUp
  <2> QED
    BY <1>3, <2>3, <2>4, UserSpace DEF Addr
<1>16. /\ loadHigh = GuestPageAlignUp(M) + loadBias
       /\ loadHigh \in Addr /\ loadHigh % GuestPage = 0
  <2>1. GuestPageAlignUp(M) + loadBias < Mod
    BY <1>3, <1>15, UserSpace DEF Addr
  <2>2. loadHigh = GuestPageAlignUp(M) + loadBias
    BY <1>3, <1>12, <1>15, <2>1 DEF loadHigh
  <2>3. Add(GuestPageAlignUp(M), loadBias) = loadHigh
    BY <1>12 DEF loadHigh, Biased
  <2> QED
    BY <1>3, <1>15, <2>2, <2>3, GuestSums, AddCases
<1>17. StackBytes <= loadLow /\ loadHigh <= TaskSize
  BY <1>11, <1>13, <1>14, <1>15, <1>16
<1>20. ASSUME NEW s \in Segs
       PROVE  loadLow <= s.vaddr + loadBias /\ s.vaddr + loadBias + s.memsz <= loadHigh
  <2> DEFINE v == s.vaddr
             n == s.memsz
  <2>1. v \in Addr /\ n \in Addr /\ m <= v /\ v + n <= M
    BY <1>4, <1>11
  <2> HIDE DEF v, n
  <2>2. loadLow <= v + loadBias
    BY <1>3, <1>11, <1>13, <1>14, <2>1 DEF Addr
  <2>3. v + loadBias + n <= loadHigh
    BY <1>3, <1>11, <1>15, <1>16, <2>1 DEF Addr
  <2> QED
    BY <2>2, <2>3 DEF v, n
<1>18. loadLow <= loadHigh
  <2>1. PICK s \in Segs : TRUE
    BY <1>6
  <2> DEFINE v == s.vaddr
             n == s.memsz
  <2>2. v \in Addr /\ n \in Addr /\ loadLow <= v + loadBias /\ v + loadBias + n <= loadHigh
    BY <1>4, <1>20
  <2> HIDE DEF v, n
  <2> QED
    BY <1>3, <1>14, <1>16, <2>2 DEF Addr
<1>19. ASSUME NEW i \in Loadable
       PROVE  /\ loadLow <= MapStart(Biased(file.segs[i].vaddr))
              /\ MapEnd(Biased(file.segs[i].vaddr), file.segs[i].memsz) <= loadHigh
  <2> DEFINE at == Biased(file.segs[i].vaddr)
             n == file.segs[i].memsz
  <2>1. i \in 1 .. Len(file.segs) /\ file.segs[i] \in Segs
    BY <1>2 DEF Loadable
  <2>2. at = file.segs[i].vaddr + loadBias /\ at \in Addr /\ at + n <= TaskSize
    BY <2>1, SegmentLaid
  <2>3. n \in Addr /\ file.segs[i].vaddr \in Addr
    BY <1>4, <2>1
  <2>4. loadLow <= at /\ at + n <= loadHigh
    BY <1>20, <2>1, <2>2
  <2> HIDE DEF at, n
  <2>5. loadLow <= MapStart(at)
    BY <1>14, <2>2, <2>4, UserSpace, AlignDownLargest DEF MapStart, GuestPageAlignDown, Addr
  <2>6. Add(at, n) = at + n /\ at + n \in Addr
    <3>1. at + n < Mod /\ at + n \in Addr
      BY <2>2, <2>3, UserSpace DEF Addr
    <3> QED
      BY <2>2, <2>3, <3>1, AddCases
  <2>7. MapEnd(at, n) <= loadHigh
    BY <1>16, <2>4, <2>6, AlignUpBelow DEF MapEnd, GuestPageAlignUp
  <2> QED
    BY <2>5, <2>7 DEF at, n
<1> QED
  BY <1>14, <1>16, <1>17, <1>18, <1>19

\* The pages of a range are among those of a range around it.
LEMMA SpanNested ==
  ASSUME NEW g \in Addr, NEW n \in Addr, n > 0,
         NEW h \in Addr, NEW m \in Addr, h <= g, g + n <= h + m, h + m + GuestPage <= Mod
  PROVE  /\ MapStart(h) <= MapStart(g)
         /\ MapEnd(g, n) <= MapEnd(h, m)
<1>1. GuestPage \in Nat \ {0} /\ Mod \in Nat /\ g \in Nat /\ n \in Nat /\ h \in Nat /\ m \in Nat
  BY PagingAssumption DEF Addr
<1>2. m > 0 /\ g + n + GuestPage <= Mod
  BY <1>1
<1>3. /\ MapStart(h) \in Addr /\ MapStart(h) % GuestPage = 0
      /\ MapEnd(h, m) \in Addr /\ MapEnd(h, m) % GuestPage = 0
  BY RoundingAligned
<1>4. MapStart(h) <= h /\ h + m <= MapEnd(h, m)
  BY <1>1, <1>2, SpanAddr
<1>5. MapStart(h) \in Nat /\ MapStart(h) <= g
  BY <1>1, <1>3, <1>4 DEF Addr
<1>6. MapStart(h) <= MapStart(g)
  BY <1>1, <1>3, <1>5, AlignDownLargest DEF MapStart, GuestPageAlignDown
<1>7. Add(g, n) = g + n /\ Add(g, n) \in Addr
  BY <1>1, <1>2, AddCases
<1>8. Add(g, n) <= MapEnd(h, m)
  BY <1>1, <1>3, <1>4, <1>7 DEF Addr
<1>9. MapEnd(g, n) <= MapEnd(h, m)
  BY <1>3, <1>7, <1>8, AlignUpBelow DEF MapEnd, GuestPageAlignUp
<1> QED
  BY <1>6, <1>9

LEMMA RelroLaid ==
  ASSUME WellLinked, file \in Files, options \in Options, file.segs # <<>>, NEW i \in Relro
  PROVE  LET part == file.relro[i]
             at == Biased(part.vaddr)
         IN  /\ at \in Addr /\ part.memsz \in Addr
             /\ at + part.memsz <= TaskSize
             /\ loadLow <= MapStart(at) /\ MapEnd(at, part.memsz) <= loadHigh
<1> DEFINE v == file.relro[i].vaddr
           n == file.relro[i].memsz
<1>1. i \in 1 .. Len(file.relro) /\ n > 0 /\ v \in Addr /\ n \in Addr
  <2>1. i \in 1 .. Len(file.relro) /\ n > 0
    BY DEF Relro
  <2>2. file.relro \in Seq([vaddr : Addr, memsz : Addr])
    BY FileTypes
  <2> DEFINE Part == [vaddr : Addr, memsz : Addr]
  <2>3. file.relro[i] \in Part
    <3> HIDE DEF Part
    <3>1. file.relro \in Seq(Part)
      BY <2>2 DEF Part
    <3> QED
      BY <2>1, <3>1
  <2> QED
    BY <2>1, <2>3
<1>2. PICK j \in Loadable :
        /\ v \in file.segs[j].vaddr .. file.segs[j].vaddr + file.segs[j].memsz - 1
        /\ v + n - 1 \in file.segs[j].vaddr .. file.segs[j].vaddr + file.segs[j].memsz - 1
  BY <1>1, Bias DEF LinkedAt, Loadable
<1> DEFINE w == file.segs[j].vaddr
           m == file.segs[j].memsz
<1>3. j \in 1 .. Len(file.segs) /\ m > 0
  BY DEF Loadable
<1>4. /\ w \in Addr /\ m \in Addr
      /\ Biased(w) = w + loadBias /\ Biased(w) \in Addr /\ Biased(w) + m <= TaskSize
  BY <1>3, SegmentLaid DEF Segment
<1>5. /\ loadLow <= MapStart(Biased(w)) /\ MapEnd(Biased(w), m) <= loadHigh
      /\ loadLow \in Addr /\ loadHigh \in Addr
  BY ImageLaid
<1>6. loadBias \in Addr /\ (v + loadBias < Mod => Biased(v) = v + loadBias)
  BY <1>1, Bias
<1>7. w <= v /\ v + n <= w + m
  <2>1. v \in w .. w + m - 1 /\ v + n - 1 \in w .. w + m - 1
    BY <1>2
  <2> HIDE DEF v, n, w, m
  <2> QED
    BY <1>1, <1>4, <2>1 DEF Addr
<1> HIDE DEF v, n, w, m
<1>8. Biased(v) = v + loadBias /\ Biased(v) \in Addr
      /\ Biased(w) <= Biased(v) /\ Biased(v) + n <= Biased(w) + m
  <2> DEFINE b == loadBias
  <2>1. /\ v \in Nat /\ n \in Nat /\ w \in Nat /\ m \in Nat /\ b \in Nat
        /\ TaskSize \in Nat /\ TaskSize < Mod
    BY <1>1, <1>4, <1>6, UserSpace DEF Addr
  <2>2. Biased(w) = w + b /\ w + b + m <= TaskSize
    BY <1>4
  <2> HIDE DEF b
  <2>3. v + b < Mod /\ w + b <= v + b /\ v + b + n <= w + b + m
    <3>1. Mod \in Nat /\ w <= v /\ v + n <= w + m
      BY <1>7, UserSpace
    <3> QED
      BY ONLY <2>1, <2>2, <3>1
  <2>4. Biased(v) = v + b
    BY <1>6, <2>3 DEF b
  <2>5. v + b \in Addr
    BY ONLY <2>1, <2>3, UserSpace DEF Addr
  <2>6. Biased(w) <= Biased(v) /\ Biased(v) + n <= Biased(w) + m
    BY ONLY <2>1, <2>2, <2>3, <2>4
  <2> QED
    BY <2>4, <2>5, <2>6 DEF b
<1>9. Biased(w) + m + GuestPage <= Mod
  BY <1>4, UserSpace DEF Addr
<1>10. MapStart(Biased(w)) <= MapStart(Biased(v)) /\ MapEnd(Biased(v), n) <= MapEnd(Biased(w), m)
  BY <1>1, <1>4, <1>8, <1>9, SpanNested
<1>11. /\ MapStart(Biased(w)) \in Nat /\ MapStart(Biased(v)) \in Nat
       /\ MapEnd(Biased(w), m) \in Nat /\ MapEnd(Biased(v), n) \in Nat
  <2>1. /\ MapStart(Biased(w)) \in Addr /\ MapStart(Biased(v)) \in Addr
        /\ MapEnd(Biased(w), m) \in Addr /\ MapEnd(Biased(v), n) \in Addr
    BY <1>1, <1>4, <1>8, RoundingAligned
  <2> QED
    BY <2>1 DEF Addr
<1>12. Biased(v) + n <= TaskSize
  BY <1>1, <1>4, <1>8, UserSpace DEF Addr
<1>13. loadLow <= MapStart(Biased(v)) /\ MapEnd(Biased(v), n) <= loadHigh
  BY <1>5, <1>10, <1>11 DEF Addr
<1> QED
  BY <1>1, <1>8, <1>12, <1>13 DEF v, n

(***************************************************************************)
(* The window.                                                             *)
(***************************************************************************)

\* The stages between the map of the image and the end of the load.
ImageStages == Loading \ {"map", "unwind"}

\* The window begins with the image and has room for it.
Framed ==
  pc \in ImageStages \cup {"map"} =>
    /\ file.segs # <<>>
    /\ reservedLow = loadLow
    /\ loadHigh <= reservedHigh

\* An aligned address leaves room for its whole page.
LEMMA GuestRoom ==
  ASSUME NEW x \in Addr, x % GuestPage = 0
  PROVE  x + GuestPage <= Mod
<1>1. GuestPage \in Nat \ {0} /\ GuestPage <= Mod /\ Mod \in Nat \ {0} /\ x \in Nat /\ x < Mod
  BY PageBelowMod, PagingAssumption DEF Addr
<1>2. 0 \in Addr /\ 0 % GuestPage = 0
  BY <1>1 DEF Addr
<1>3. Sub(0, x) \in Addr /\ Sub(0, x) % GuestPage = 0
  BY <1>2, GuestSums, SubCases
<1>4. CASE x = 0
  BY <1>1, <1>4
<1>5. CASE x > 0
  <2>1. Sub(0, x) = Mod - x
    BY <1>1, <1>2, <1>5, SubCases
  <2>2. 0 + GuestPage <= Mod - x
    <3>1. 0 < Mod - x /\ Mod - x \in Nat
      BY <1>1
    <3> QED
      BY <1>1, <1>2, <1>3, <2>1, <3>1, MultipleGap
  <2> QED
    BY <1>1, <2>2
<1> QED
  BY <1>1, <1>4, <1>5

\* An aligned address is rounded to itself.
LEMMA AlreadyAligned ==
  ASSUME NEW x \in Addr, x % GuestPage = 0
  PROVE  GuestPageAlignDown(x) = x /\ GuestPageAlignUp(x) = x
<1>1. GuestPage \in Nat \ {0} /\ x \in Nat /\ Mod \in Nat
  BY PagingAssumption DEF Addr
<1>2. GuestPageAlignDown(x) = x
  BY <1>1 DEF GuestPageAlignDown, AlignDown
<1>3. x + GuestPage <= Mod
  BY GuestRoom
<1>4. GuestPageAlignUp(x) = x
  <2> DEFINE y == GuestPageAlignUp(x)
  <2>1. y \in Addr /\ x <= y
    BY <1>1, <1>3, AlignUpPage DEF GuestPageAlignUp
  <2>2. y <= x
    BY <1>1, AlignUpBelow DEF GuestPageAlignUp
  <2> HIDE DEF y
  <2>3. y = x
    BY <1>1, <2>1, <2>2 DEF Addr
  <2> QED
    BY <2>3 DEF y
<1> QED
  BY <1>2, <1>4

\* The constructor's fallback is no smaller than the image.
LEMMA FallbackLarge ==
  ASSUME SmallUserSpace, NEW probe \in Addr, probe <= TaskSize, NEW fallback \in Addr,
         FallbackSize(probe, fallback) > 0
  PROVE  probe <= FallbackSize(probe, fallback)
<1> DEFINE asked == AlignUp(fallback, HostPage)
           twice == Add(probe, probe)
<1>1. /\ TaskSize \in Nat /\ Mod \in Nat /\ 2 * TaskSize < Mod /\ probe \in Nat
      /\ HostPage \in Nat \ {0}
  BY PagingAssumption DEF SmallUserSpace, Addr
<1>2. asked \in Addr
  BY AlignUpPage
<1>3. twice = 2 * probe /\ twice \in Addr
  <2>1. twice \in Addr /\ twice = IF probe + probe < Mod THEN probe + probe ELSE probe + probe - Mod
    BY AddCases
  <2> QED
    BY <1>1, <2>1
<1> HIDE DEF asked, twice
<1>4. CASE ~ (asked < probe)
  BY <1>1, <1>2, <1>4 DEF FallbackSize, asked, Addr
<1>5. CASE asked < probe
  <2>1. FallbackSize(probe, fallback) = AlignUp(twice, HostPage)
    BY <1>5 DEF FallbackSize, asked, twice
  <2>2. twice <= AlignUp(twice, HostPage)
    BY <1>1, <1>3, <2>1, AlignUpPage DEF Addr
  <2>3. AlignUp(twice, HostPage) \in Nat
    BY <1>3, AlignUpPage DEF Addr
  <2> QED
    BY <1>1, <1>3, <2>1, <2>2, <2>3
<1> QED
  BY <1>4, <1>5

LEMMA ConstructFrames ==
  ASSUME SmallUserSpace, SmallHostPages, WellLinked,
         file \in Files, options \in Options, file.segs # <<>>, UNCHANGED <<file, options>>,
         \/ ConstructIdentity(loadLow, loadHigh)
         \/ \E base \in HostPages :
              ConstructBiased(loadLow, loadHigh, options.fallbackWindowSize, base)
  PROVE  Framed' /\ Room' /\ regions' = {}
<1> DEFINE probe == ProbeSize(loadLow, loadHigh)
<1>1. loadLow' = loadLow /\ loadHigh' = loadHigh
  BY DEF loadLow, loadHigh, spanLow, spanHigh, Biased, loadBias
<1>2. /\ loadLow \in Addr /\ loadLow % GuestPage = 0
      /\ loadHigh \in Addr /\ loadHigh % GuestPage = 0
      /\ loadLow <= loadHigh /\ loadHigh <= TaskSize
  BY ImageLaid
<1>3. ProbeLow(loadLow) = loadLow /\ AlignUp(loadHigh, HostPage) = loadHigh
  BY <1>2, AlreadyAligned
     DEF ProbeLow, SmallHostPages, GuestPageAlignDown, GuestPageAlignUp
<1>4. probe = loadHigh - loadLow /\ probe \in Addr /\ probe <= TaskSize
  <2>1. probe = Sub(loadHigh, loadLow)
    BY <1>3 DEF ProbeSize
  <2>2. Sub(loadHigh, loadLow) = loadHigh - loadLow /\ Sub(loadHigh, loadLow) \in Addr
    BY <1>2, SubCases
  <2> QED
    BY <1>2, <2>1, <2>2, UserSpace DEF Addr
<1>5. ASSUME NEW wide \in Addr, wide <= TaskSize, probe <= wide,
             live' = TRUE, windowSize' = wide, reservedLow' = loadLow,
             reservedHigh' = Add(loadLow, wide), regions' = {}
      PROVE  Framed' /\ Room' /\ regions' = {}
  <2>1. loadLow + wide < Mod
    BY <1>2, <1>5, UserSpace DEF Addr, SmallUserSpace
  <2>2. reservedHigh' = loadLow + wide
    BY <1>2, <1>5, <2>1, AddCases
  <2>3. loadHigh <= loadLow + wide
    BY <1>2, <1>4, <1>5 DEF Addr
  <2> QED
    BY <1>1, <1>5, <2>2, <2>3 DEF Framed, Room
<1>6. CASE ConstructIdentity(loadLow, loadHigh)
  BY <1>3, <1>4, <1>5, <1>6 DEF ConstructIdentity, Addr
<1>7. ASSUME NEW base \in HostPages,
             ConstructBiased(loadLow, loadHigh, options.fallbackWindowSize, base)
      PROVE  Framed' /\ Room' /\ regions' = {}
  <2> DEFINE wide == FallbackSize(probe, options.fallbackWindowSize)
  <2>1. options.fallbackWindowSize \in Addr
    BY FileTypes
  <2>2. wide \in Addr
    BY <1>2, <2>1, ProbeTypes
  <2>3. /\ UserRange(base, wide) /\ live' = TRUE /\ windowSize' = wide
        /\ reservedLow' = loadLow /\ reservedHigh' = Add(loadLow, wide) /\ regions' = {}
    BY <1>3, <1>7 DEF ConstructBiased
  <2>4. base \in Nat /\ wide > 0 /\ base + wide <= TaskSize
    BY <2>3 DEF UserRange, HostPages
  <2>5. probe <= wide
    BY <1>4, <2>1, <2>4, FallbackLarge
  <2>6. wide <= TaskSize
    <3> HIDE DEF wide
    <3> QED
      BY <2>2, <2>4, UserSpace DEF Addr
  <2> HIDE DEF wide
  <2> QED
    BY <1>5, <2>2, <2>3, <2>5, <2>6
<1> QED
  BY <1>6, <1>7

(***************************************************************************)
(* The stack.                                                              *)
(***************************************************************************)

\* The stack is a range of whole pages beside the image, with room below its
\* top for all that is pushed.
StackLaid ==
  /\ low \in Addr /\ low % GuestPage = 0
  /\ top \in Addr /\ top % GuestPage = 0
  /\ low < top
  /\ top <= loadLow \/ loadHigh <= low
  /\ StackBytes <= top

\* A stack size asked for is not rounded to nothing.
LEMMA StackSize ==
  ASSUME WellLinked, file \in Files, options \in Options
  PROVE  /\ options.stackSize \in Nat /\ options.stackTop \in Nat
         /\ 0 < options.stackSize /\ options.stackSize <= options.stackTop
         /\ StackBytes <= options.stackTop /\ options.stackTop <= TaskSize
         /\ size \in Addr /\ options.stackSize <= size /\ size % GuestPage = 0
<1>1. /\ options.stackSize \in Addr /\ options.stackTop \in Addr
      /\ 0 < options.stackSize /\ options.stackSize <= options.stackTop
      /\ StackBytes <= options.stackTop /\ options.stackTop <= TaskSize
  BY FileTypes DEF WellLinked
<1>2. options.stackSize + GuestPage - 1 < Mod
  BY <1>1, UserSpace DEF Addr
<1> QED
  BY <1>1, <1>2, AlignUpPage DEF size, GuestPageAlignUp, Addr

\* A stack that map accepts, of sizes the check in load let pass, is one.
LEMMA StackMapped ==
  ASSUME SmallUserSpace, SmallHostPages, WellLinked, IInv, Room, Framed, live,
         file \in Files, options \in Options, pc = "stack", ~Overlap, MapAccepted(low, size)
  PROVE  /\ StackLaid
         /\ MapStart(low) = low /\ MapEnd(low, size) = top
         /\ low + size + GuestPage <= Mod
<1> DEFINE T == stackTop
           S == options.stackSize
           t == top
           s == size
           l == low
<1>0. TypeOK
  BY DEF IInv
<1>1. /\ S \in Nat /\ 0 < S /\ s \in Addr /\ S <= s /\ s % GuestPage = 0
      /\ options.stackTop \in Nat /\ S <= options.stackTop
      /\ StackBytes <= options.stackTop /\ options.stackTop <= TaskSize
  BY StackSize
<1>2. /\ loadLow \in Addr /\ loadLow % GuestPage = 0
      /\ loadHigh \in Addr /\ loadHigh % GuestPage = 0
      /\ StackBytes <= loadLow /\ loadLow <= loadHigh /\ loadHigh <= TaskSize
      /\ reservedLow = loadLow
  BY ImageLaid DEF Framed, ImageStages, Loading, Stages
<1>3. /\ GuestPage \in Nat \ {0} /\ Mod \in Nat \ {0} /\ TaskSize \in Nat
      /\ StackBytes \in Nat \ {0} /\ TaskSize + GuestPage <= Mod
  BY UserSpace, StackBytesType DEF Addr
<1>4. T \in Addr /\ t \in Addr /\ l \in Addr /\ t % GuestPage = 0
  <2>1. T \in Addr
    <3>1. GuardGap \in Addr /\ options.stackTop \in Addr
      BY LoaderAssumption, FileTypes
    <3> QED
      BY <1>0, <3>1, SubCases DEF stackTop, TypeOK
  <2>2. t \in Addr /\ l \in Addr
    BY <1>0, StackTypes
  <2>3. t % GuestPage = 0
    BY <2>1, AlignUpPage DEF top, GuestPageAlignUp
  <2> QED
    BY <2>1, <2>2, <2>3
<1>5. /\ l = Sub(t, s) /\ l % GuestPage = 0
  BY <1>1, <1>4, GuestSums DEF low
<1>6. l = IF s <= t THEN t - s ELSE t - s + Mod
  BY <1>1, <1>4, <1>5, SubCases
<1>7. T + GuestPage - 1 < Mod => T <= t
  BY <1>4, AlignUpPage DEF top, GuestPageAlignUp
<1>8. Mod <= T + GuestPage - 1 => t = 0
  BY <1>4, AlignUpPage DEF top, GuestPageAlignUp
<1>9. MapStart(l) = l
  BY <1>4, <1>5, AlreadyAligned DEF MapStart
<1>10. Add(l, s) = t
  <2>1. Add(l, s) = IF l + s < Mod THEN l + s ELSE l + s - Mod
    BY <1>1, <1>4, AddCases
  <2> HIDE DEF l, s, t
  <2> QED
    BY <1>1, <1>3, <1>4, <1>6, <2>1 DEF Addr
<1>11. MapEnd(l, s) = t /\ MapSize(l, s) = Sub(t, l)
  BY <1>4, <1>9, <1>10, AlreadyAligned DEF MapEnd, MapSize
<1>12. Sub(t, l) = s
  <2>1. Sub(t, l) = IF l <= t THEN t - l ELSE t - l + Mod
    BY <1>4, SubCases
  <2> HIDE DEF l, s, t
  <2> QED
    BY <1>1, <1>3, <1>4, <1>6, <2>1 DEF Addr
<1>13. S \in Addr /\ (S <= T => Sub(T, S) = T - S) /\ T \in Nat /\ loadHigh \in Nat /\ loadLow \in Nat
  <2>1. S \in Addr
    BY FileTypes
  <2>2. S <= T => Sub(T, S) = T - S
    BY <1>4, <2>1, SubCases
  <2> QED
    BY <1>2, <1>4, <2>1, <2>2 DEF Addr
<1>14. l < t /\ S <= T /\ StackBytes <= t
  <2>1. CASE isIdentity
    <3>1. T = options.stackTop
      BY <2>1 DEF stackTop
    <3>2. T <= t
      BY <1>1, <1>3, <1>7, <3>1
    <3>3. t <= TaskSize
      <4>1. T <= TaskSize /\ TaskSize \in Addr /\ TaskSize % GuestPage = 0
        BY <1>1, <3>1, UserSpace
      <4> QED
        BY <1>4, <4>1, AlignUpBelow DEF top, GuestPageAlignUp
    <3>4. s <= t
      <4>1. S <= t
        BY <1>1, <1>4, <3>1, <3>2, <1>13 DEF Addr
      <4> QED
        BY <1>4, <1>13, <4>1, AlignUpBelow DEF size, GuestPageAlignUp
    <3> HIDE DEF l, s, t, T, S
    <3> QED
      BY <1>1, <1>3, <1>4, <1>6, <1>13, <3>1, <3>2, <3>4 DEF Addr
  <2>2. CASE ~isIdentity
    <3>1. l >= reservedLow /\ Add(l, s) >= l /\ Add(l, s) <= reservedHigh
      <4>1. isAddressable(MapStart(l), MapSize(l, s))
        BY DEF MapAccepted
      <4> QED
        BY <1>9, <1>11, <1>12, <2>2, <4>1 DEF isAddressable
    <3>2. loadLow <= l /\ l <= t
      BY <1>2, <1>10, <3>1
    <3>3. s <= t /\ l < t
      <4> HIDE DEF l, s, t, S
      <4> QED
        BY <1>1, <1>3, <1>4, <1>6, <3>2 DEF Addr
    <3>4. T <= t
      <4> HIDE DEF l, s, t, S, T
      <4> QED
        BY <1>3, <1>4, <1>7, <1>8, <3>3 DEF Addr
    <3>5. S <= T
      <4>1. SUFFICES ASSUME T < S PROVE FALSE
        BY <1>1, <1>4 DEF Addr
      <4>2. T <= s
        <5> HIDE DEF s, S, T
        <5> QED
          BY <1>1, <1>4, <4>1 DEF Addr
      <4>3. t <= s
        BY <1>1, <1>4, <4>2, AlignUpBelow DEF top, GuestPageAlignUp
      <4> HIDE DEF l, s, t, S, T
      <4> QED
        BY <1>1, <1>2, <1>3, <1>4, <1>6, <3>2, <3>3, <4>3 DEF Addr
    <3> HIDE DEF l, s, t, S, T
    <3> QED
      BY <1>1, <1>2, <1>3, <1>4, <3>2, <3>3, <3>5 DEF Addr
  <2> QED
    BY <2>1, <2>2
<1>15. l = t - s /\ s <= t /\ T <= t
  <2> HIDE DEF l, s, t, S, T
  <2> QED
    BY <1>1, <1>3, <1>4, <1>6, <1>7, <1>8, <1>14 DEF Addr
<1>16. t <= loadLow \/ loadHigh <= l
  <2>1. ~(T - S < loadHigh) \/ ~(T > loadLow)
    BY <1>13, <1>14 DEF Overlap
  <2>2. CASE ~(T > loadLow)
    <3>1. T <= loadLow
      BY <1>13, <2>2
    <3> QED
      BY <1>2, <1>4, <3>1, AlignUpBelow DEF top, GuestPageAlignUp
  <2>3. CASE ~(T - S < loadHigh)
    <3>1. S + loadHigh <= t
      <4> HIDE DEF l, s, t, S, T
      <4> QED
        BY <1>1, <1>4, <1>13, <1>15, <2>3 DEF Addr
    <3>2. Sub(t, loadHigh) = t - loadHigh /\ Sub(t, loadHigh) \in Addr
          /\ Sub(t, loadHigh) % GuestPage = 0
      <4>1. loadHigh <= t
        <5> HIDE DEF l, s, t, S, T
        <5> QED
          BY <1>1, <1>4, <1>13, <3>1 DEF Addr
      <4> QED
        BY <1>2, <1>4, <4>1, SubCases, GuestSums
    <3>3. S <= Sub(t, loadHigh)
      <4> HIDE DEF l, s, t, S, T
      <4> QED
        BY <1>1, <1>4, <1>13, <3>1, <3>2 DEF Addr
    <3>4. s <= t - loadHigh
      BY <1>13, <3>2, <3>3, AlignUpBelow DEF size, GuestPageAlignUp
    <3> HIDE DEF l, s, t, S, T
    <3> QED
      BY <1>1, <1>4, <1>13, <1>15, <3>4 DEF Addr
  <2> QED
    BY <2>1, <2>2, <2>3
<1>17. l + s + GuestPage <= Mod
  <2>1. t + GuestPage <= Mod
    BY <1>4, GuestRoom
  <2> HIDE DEF l, s, t, S, T
  <2> QED
    BY <1>1, <1>3, <1>4, <1>15, <2>1 DEF Addr
<1> QED
  BY <1>4, <1>5, <1>9, <1>11, <1>14, <1>16, <1>17 DEF StackLaid

(***************************************************************************)
(* Permissions.  At each stage an address of the image has the permission  *)
(* of the last segment protected so far that covers it, or of relro, an    *)
(* address of the stack can be read and written, and no other is mapped.   *)
(***************************************************************************)

Started == {"push", "random", "rsp", "vector", "running"}
HasStack == pc \in Started

\* How many segments and relro parts have their permission.
SegsDone ==
  IF pc \in {"write", "zero"} THEN 0 ELSE IF pc = "protect" THEN k - 1 ELSE Len(file.segs)
RelroDone ==
  IF pc = "relro" THEN k - 1 ELSE IF pc = "stack" \/ HasStack THEN Len(file.relro) ELSE 0

SegCovers(i, a) == Covers(file.segs[i].vaddr, file.segs[i].memsz, a)
RelroCovers(j, a) == Covers(file.relro[j].vaddr, file.relro[j].memsz, a)

ProtOf(s, q, a) ==
  LET having == {i \in Loadable : i <= s /\ SegCovers(i, a)}
  IN  IF \E j \in Relro : j <= q /\ RelroCovers(j, a) THEN {"r"}
      ELSE IF having = {} THEN {"r", "w"} ELSE file.segs[Max(having)].prot

InImage(a) == loadLow <= a /\ a < loadHigh

ShownAs(s, q, t) ==
  \A a \in Addr :
    Perms[a] = IF InImage(a) THEN {ProtOf(s, q, a)}
               ELSE IF t /\ low <= a /\ a < top THEN {{"r", "w"}} ELSE {}

Shown ==
  pc \in ImageStages =>
    \E s, q \in Nat, t \in BOOLEAN :
      /\ s = SegsDone /\ q = RelroDone /\ t = HasStack
      /\ ShownAs(s, q, t)

LinkInv ==
  /\ Room /\ Placed /\ Hosted /\ Framed
  /\ pc = "map" => regions = {}
  /\ pc = "protect" => k > 0 /\ k <= Len(file.segs) + 1
  /\ pc = "headers" => k = 1
  /\ pc = "relro" => k > 0 /\ k <= Len(file.relro) + 1
  /\ HasStack => StackLaid
  /\ Shown

\* The layout depends on load's arguments and on the window.
LEMMA LayoutKept ==
  ASSUME UNCHANGED <<file, options>>
  PROVE  /\ loadBias' = loadBias /\ loadLow' = loadLow /\ loadHigh' = loadHigh
         /\ \A v : Biased(v)' = Biased(v)
         /\ Loadable' = Loadable /\ Relro' = Relro
         /\ UNCHANGED <<hostOffset, reservedHigh>> =>
              top' = top /\ low' = low /\ size' = size /\ (StackLaid' <=> StackLaid)
  BY DEF loadBias, loadLow, loadHigh, spanLow, spanHigh, Biased, Loadable, Relro,
         top, low, size, stackTop, isIdentity, StackLaid

LEMMA ProtOfKept ==
  ASSUME UNCHANGED <<file, options>>, NEW s, NEW q, NEW a
  PROVE  ProtOf(s, q, a)' = ProtOf(s, q, a)
  BY DEF ProtOf, SegCovers, RelroCovers, Covers, Biased, loadBias, Loadable, Relro

LEMMA PermsKept ==
  ASSUME UNCHANGED regions
  PROVE  Perms' = Perms
  BY DEF Perms, RegionsAt

LEMMA ShownKept ==
  ASSUME UNCHANGED <<file, options, hostOffset, reservedHigh, regions>>,
         NEW s, NEW q, NEW t, ShownAs(s, q, t)
  PROVE  ShownAs(s, q, t)'
<1>1. loadLow' = loadLow /\ loadHigh' = loadHigh /\ top' = top /\ low' = low
  BY LayoutKept
<1>2. Perms' = Perms
  BY PermsKept
<1>3. \A a : ProtOf(s, q, a)' = ProtOf(s, q, a)
  BY ProtOfKept
<1>4. ASSUME NEW a \in Addr
      PROVE  Perms'[a] = IF loadLow' <= a /\ a < loadHigh' THEN {ProtOf(s, q, a)'}
                         ELSE IF t /\ low' <= a /\ a < top' THEN {{"r", "w"}} ELSE {}
  BY <1>1, <1>2, <1>3 DEF ShownAs, InImage
<1> QED
  BY <1>4 DEF ShownAs, InImage

\* A step that leaves the object, its regions and its pages alone.
Unmoved == UNCHANGED <<file, options, live, object, regions, owner, hprot>>

LEMMA CallUnmoved ==
  ASSUME NEW g, NEW n, NEW access, NEW next, NEW prot
  PROVE  /\ \/ WriteTo(g, n, next) \/ ReadFrom(g, n, next) \/ ZeroOk(g, n)
            \/ AccessThrows(g, n) \/ AccessFaults(g, n, access) \/ EmptyCall
            \/ MapThrows(g, n) \/ ProtectThrows(g, n) \/ Quiet
            => UNCHANGED <<live, object, regions, owner, hprot>>
         /\ WriteTo(g, n, next) \/ ReadFrom(g, n, next) => pc' \in {next, "unwind"}
<1>1. WriteTo(g, n, next) => UNCHANGED <<live, object, regions, owner, hprot>>
  BY DEF WriteTo, Calls, WriteOk, AccessThrows, AccessFaults, kernel
<1>2. ReadFrom(g, n, next) => UNCHANGED <<live, object, regions, owner, hprot>>
  BY DEF ReadFrom, Calls, ReadOk, AccessThrows, AccessFaults, kernel
<1>3. \/ ZeroOk(g, n) \/ AccessThrows(g, n) \/ AccessFaults(g, n, access) \/ EmptyCall
      \/ MapThrows(g, n) \/ ProtectThrows(g, n) \/ Quiet
      => UNCHANGED <<live, object, regions, owner, hprot>>
  BY DEF ZeroOk, AccessThrows, AccessFaults, EmptyCall, MapThrows, ProtectThrows, Quiet,
         vars, kernel
<1>4. WriteTo(g, n, next) \/ ReadFrom(g, n, next) => pc' \in {next, "unwind"}
  BY DEF WriteTo, ReadFrom, Calls
<1> QED
  BY <1>1, <1>2, <1>3, <1>4

\* Such a step keeps the invariant when it goes on with the same things done.
LEMMA UnmovedKeeps ==
  ASSUME LinkInv, pc \in ImageStages, Unmoved,
         \/ pc' = "unwind"
         \/ /\ pc' \in ImageStages
            /\ SegsDone' = SegsDone /\ RelroDone' = RelroDone /\ HasStack' = HasStack
            /\ pc' = "protect" => k' > 0 /\ k' <= Len(file.segs) + 1
            /\ pc' = "headers" => k' = 1
            /\ pc' = "relro" => k' > 0 /\ k' <= Len(file.relro) + 1
  PROVE  LinkInv'
<1>1. Room' /\ Placed' /\ Framed' /\ Hosted'
  <2>1. UNCHANGED <<file, options, live, hostOffset, reservedLow, reservedHigh, windowSize,
                    regions, owner, hprot>>
    BY DEF Unmoved, object
  <2>2. Perms' = Perms
    BY <2>1, PermsKept
  <2>3. Hosted'
    BY <2>1, <2>2 DEF LinkInv, Hosted, toHost
  <2>4. Framed'
    BY <2>1, LayoutKept DEF LinkInv, Framed, ImageStages
  <2> QED
    BY <2>1, <2>3, <2>4 DEF LinkInv, Room, Placed
<1>2. file' = file /\ options' = options /\ regions' = regions
      /\ hostOffset' = hostOffset /\ reservedHigh' = reservedHigh
  BY DEF Unmoved, object
<1>3. StackLaid' <=> StackLaid
  BY <1>2, LayoutKept
<1>4. CASE pc' = "unwind"
  BY <1>1, <1>4 DEF LinkInv, HasStack, Started, Shown, ImageStages
<1>5. CASE /\ pc' \in ImageStages
           /\ SegsDone' = SegsDone /\ RelroDone' = RelroDone /\ HasStack' = HasStack
           /\ pc' = "protect" => k' > 0 /\ k' <= Len(file.segs) + 1
           /\ pc' = "headers" => k' = 1
           /\ pc' = "relro" => k' > 0 /\ k' <= Len(file.relro) + 1
  <2>1. PICK s \in Nat, q \in Nat, t \in BOOLEAN :
          s = SegsDone /\ q = RelroDone /\ t = HasStack /\ ShownAs(s, q, t)
    BY DEF LinkInv, Shown
  <2>2. ShownAs(s, q, t)'
    BY <1>2, <2>1, ShownKept
  <2>3. s = SegsDone' /\ q = RelroDone' /\ t = HasStack'
    BY <1>5, <2>1
  <2>4. Shown'
    BY <2>2, <2>3 DEF Shown
  <2>5. HasStack' => StackLaid'
    BY <1>3, <1>5 DEF LinkInv
  <2>6. pc' # "map"
    BY <1>5 DEF ImageStages
  <2> QED
    BY <1>1, <1>2, <1>5, <2>4, <2>5, <2>6 DEF LinkInv
<1> QED
  BY <1>4, <1>5

LEMMA LenTypes ==
  ASSUME LoaderInv
  PROVE  Len(file.segs) \in Nat /\ Len(file.relro) \in Nat /\ k \in Nat
         /\ file \in Files /\ options \in Options
  BY FileTypes DEF LoaderInv, LoaderTypeOK

\* The steps that set no permission.
LEMMA LinkOtherSteps ==
  ASSUME LoaderInv, LinkInv,
         \/ WriteSegment \/ ZeroSegment \/ ReadHeaders \/ WalkDynamic \/ BeginTable
         \/ ReadEntry \/ ApplyEntry \/ PushString \/ PushRandom \/ SetRsp \/ PushWord
  PROVE  LinkInv'
<1> USE LenTypes
<1> USE DEF ImageStages, Loading, Stages, Started
<1>1. CASE WriteSegment
  <2>1. pc = "write" /\ pc' \in {"protect", "write", "zero", "unwind"}
        /\ (pc' = "protect" => k' = 1)
    BY <1>1, CallUnmoved DEF WriteSegment, Throw
  <2>2. Unmoved
    BY <1>1, CallUnmoved DEF WriteSegment, Throw, Quiet, Unmoved
  <2> QED
    BY <2>1, <2>2, UnmovedKeeps DEF SegsDone, RelroDone, HasStack, Unmoved
<1>2. CASE ZeroSegment
  <2>1. pc = "zero" /\ pc' \in {"write", "unwind"}
    BY <1>2 DEF ZeroSegment, Calls
  <2>2. Unmoved
    BY <1>2, CallUnmoved DEF ZeroSegment, Calls, Unmoved
  <2> QED
    BY <2>1, <2>2, UnmovedKeeps DEF SegsDone, RelroDone, HasStack, Unmoved
<1>3. CASE ReadHeaders
  <2>1. pc = "headers" /\ pc' \in {"walk", "relro", "unwind"} /\ k' = k /\ k = 1
    BY <1>3 DEF ReadHeaders, Throw, LinkInv
  <2>2. Unmoved
    BY <1>3, CallUnmoved DEF ReadHeaders, Throw, Quiet, Unmoved, locals
  <2> QED
    BY <2>1, <2>2, UnmovedKeeps DEF SegsDone, RelroDone, HasStack, Unmoved
<1>4. CASE WalkDynamic
  <2>1. pc = "walk" /\ pc' \in {"walk", "table", "unwind"}
    BY <1>4, CallUnmoved DEF WalkDynamic
  <2>2. Unmoved
    BY <1>4, CallUnmoved DEF WalkDynamic, Unmoved
  <2> QED
    BY <2>1, <2>2, UnmovedKeeps DEF SegsDone, RelroDone, HasStack, Unmoved
<1>5. CASE BeginTable
  <2>1. pc = "table" /\ pc' \in {"relro", "entry"} /\ k' = 1
    BY <1>5 DEF BeginTable
  <2>2. Unmoved
    BY <1>5, CallUnmoved DEF BeginTable, Unmoved
  <2> QED
    BY <2>1, <2>2, UnmovedKeeps DEF SegsDone, RelroDone, HasStack, Unmoved
<1>6. CASE ReadEntry
  <2>1. pc = "entry" /\ pc' \in {"table", "apply", "unwind"}
    BY <1>6, CallUnmoved DEF ReadEntry
  <2>2. Unmoved
    BY <1>6, CallUnmoved DEF ReadEntry, Unmoved
  <2> QED
    BY <2>1, <2>2, UnmovedKeeps DEF SegsDone, RelroDone, HasStack, Unmoved
<1>7. CASE ApplyEntry
  <2>1. pc = "apply" /\ pc' \in {"entry", "unwind"}
    BY <1>7, CallUnmoved DEF ApplyEntry
  <2>2. Unmoved
    BY <1>7, CallUnmoved DEF ApplyEntry, Unmoved
  <2> QED
    BY <2>1, <2>2, UnmovedKeeps DEF SegsDone, RelroDone, HasStack, Unmoved
<1>8. CASE PushString
  <2>1. pc = "push" /\ pc' \in {"random", "push", "unwind"}
    BY <1>8, CallUnmoved DEF PushString
  <2>2. Unmoved
    BY <1>8, CallUnmoved DEF PushString, Unmoved
  <2> QED
    BY <2>1, <2>2, UnmovedKeeps DEF SegsDone, RelroDone, HasStack, Unmoved
<1>9. CASE PushRandom
  <2>1. pc = "random" /\ pc' \in {"rsp", "unwind"}
    BY <1>9, CallUnmoved DEF PushRandom
  <2>2. Unmoved
    BY <1>9, CallUnmoved DEF PushRandom, Unmoved
  <2> QED
    BY <2>1, <2>2, UnmovedKeeps DEF SegsDone, RelroDone, HasStack, Unmoved
<1>10. CASE SetRsp
  <2>1. pc = "rsp" /\ pc' \in {"vector", "unwind"}
    BY <1>10 DEF SetRsp, Throw
  <2>2. Unmoved
    BY <1>10, CallUnmoved DEF SetRsp, Throw, Quiet, Unmoved
  <2> QED
    BY <2>1, <2>2, UnmovedKeeps DEF SegsDone, RelroDone, HasStack, Unmoved
<1>11. CASE PushWord
  <2>1. pc = "vector" /\ pc' \in {"running", "vector", "unwind"}
    BY <1>11, CallUnmoved DEF PushWord
  <2>2. Unmoved
    BY <1>11, CallUnmoved DEF PushWord, Unmoved
  <2> QED
    BY <2>1, <2>2, UnmovedKeeps DEF SegsDone, RelroDone, HasStack, Unmoved
<1> QED
  BY <1>1, <1>2, <1>3, <1>4, <1>5, <1>6, <1>7, <1>8, <1>9, <1>10, <1>11

\* The object is gone, or its owner's process does something of its own.
LEMMA LinkEnds ==
  ASSUME LinkInv, Unwind \/ Release
  PROVE  LinkInv'
<1>1. pc' = "idle" /\ live' = FALSE /\ regions' = {}
  BY DEF Unwind, Release, Destroy
<1>2. \A a \in Addr : Perms'[a] = {}
  BY <1>1 DEF Perms, RegionsAt
<1>3. Room' /\ Placed' /\ Hosted'
  BY <1>1, <1>2 DEF Room, Placed, Hosted
<1> QED
  BY <1>1, <1>3 DEF LinkInv, Framed, Shown, ImageStages, Loading, HasStack, Started

\* A step of something else than load.
LEMMA LinkKept ==
  ASSUME LinkInv, UNCHANGED <<live, object, regions, file, options, pc, k>>, Hosted'
  PROVE  LinkInv'
<1>1. Framed' /\ Room' /\ Placed' /\ (StackLaid' <=> StackLaid)
  BY LayoutKept DEF LinkInv, Framed, Room, Placed, object, ImageStages
<1>2. SegsDone' = SegsDone /\ RelroDone' = RelroDone /\ HasStack' = HasStack
  BY DEF SegsDone, RelroDone, HasStack
<1>3. Shown'
  <2>1. SUFFICES ASSUME pc \in ImageStages PROVE Shown'
    BY DEF Shown, ImageStages
  <2>2. PICK s \in Nat, q \in Nat, t \in BOOLEAN :
          s = SegsDone /\ q = RelroDone /\ t = HasStack /\ ShownAs(s, q, t)
    BY <2>1 DEF LinkInv, Shown
  <2>3. ShownAs(s, q, t)'
    BY <2>2, ShownKept DEF object
  <2> QED
    BY <1>2, <2>2, <2>3 DEF Shown
<1> QED
  BY <1>1, <1>2, <1>3 DEF LinkInv

LEMMA LinkHost ==
  ASSUME IInv, LinkInv, HostStep, UNCHANGED loaderVars
  PROVE  LinkInv'
<1>1. /\ UNCHANGED <<live, object, regions, file, options, pc, k>>
      /\ \E p \in HostPages : owner[p] # "guest"
           /\ (\A q \in HostPages \ {p} : owner'[q] = owner[q] /\ hprot'[q] = hprot[q])
  <2>1. PICK p \in HostChurn : HostMaps(p) \/ HostUnmaps(p)
    BY DEF HostStep
  <2>2. p \in HostPages
    BY HostAssumption
  <2> QED
    BY <2>1, <2>2 DEF HostMaps, HostUnmaps, loaderVars, IInv, TypeOK
<1>2. Perms' = Perms
  BY <1>1, PermsKept
<1>3. Hosted'
  BY <1>1, <1>2 DEF LinkInv, Hosted, toHost, object
<1> QED
  BY <1>1, <1>3, LinkKept

LEMMA LinkBegin ==
  ASSUME LoaderInv, LinkInv, Begin
  PROVE  LinkInv'
<1>1. pc' \in {"construct", "idle"} /\ UNCHANGED vars /\ live = FALSE
  BY DEF Begin, Quiet, LoaderInv, LoaderTypeOK
<1>2. Hosted' /\ Room' /\ Placed'
  BY <1>1, PermsKept DEF LinkInv, Hosted, Room, Placed, toHost, vars, object, kernel
<1> QED
  BY <1>1, <1>2 DEF LinkInv, Framed, Shown, ImageStages, Loading, HasStack, Started

LEMMA LinkIdle ==
  ASSUME LinkInv, UNCHANGED allVars
  PROVE  LinkInv'
<1>1. UNCHANGED <<live, object, regions, owner, hprot, file, options, pc, k>>
  BY DEF allVars, vars, loaderVars, kernel
<1>2. Perms' = Perms
  BY <1>1, PermsKept
<1>3. Hosted'
  BY <1>1, <1>2 DEF LinkInv, Hosted, toHost, object
<1> QED
  BY <1>1, <1>3, LinkKept

(***************************************************************************)
(* The steps that set permissions.                                         *)
(***************************************************************************)

LEMMA LinkConstruct ==
  ASSUME SmallUserSpace, SmallHostPages, WellLinked, LoaderInv, LinkInv, ConstructMemory
  PROVE  LinkInv'
<1>1. /\ pc = "construct" /\ UNCHANGED <<file, options>> /\ live = FALSE
      /\ file \in Files /\ options \in Options
  BY DEF ConstructMemory, LoaderInv, LoaderTypeOK
<1>2. CASE /\ file.segs # <<>>
           /\ \/ ConstructIdentity(loadLow, loadHigh)
              \/ \E base \in HostPages :
                   ConstructBiased(loadLow, loadHigh, options.fallbackWindowSize, base)
           /\ pc' = "map"
  <2>1. Framed' /\ Room' /\ regions' = {}
    BY <1>1, <1>2, ConstructFrames
  <2>2. \A a \in Addr : Perms'[a] = {}
    BY <2>1 DEF Perms, RegionsAt
  <2>3. Placed' /\ Hosted'
    BY <2>1, <2>2 DEF Placed, Hosted
  <2> QED
    BY <1>2, <2>1, <2>3 DEF LinkInv, Shown, ImageStages, Loading, HasStack, Started
<1>3. CASE ConstructThrows /\ pc' = "idle"
  <2>1. UNCHANGED <<live, object, regions, owner, hprot>>
    BY <1>3 DEF ConstructThrows, kernel
  <2>2. Hosted' /\ Room' /\ Placed'
    BY <2>1, PermsKept DEF LinkInv, Hosted, Room, Placed, toHost, object
  <2> QED
    BY <1>3, <2>2 DEF LinkInv, Framed, Shown, ImageStages, Loading, HasStack, Started
<1> QED
  BY <1>2, <1>3 DEF ConstructMemory

\* With nothing protected yet the image is readable and writable.
LEMMA ProtOfNone ==
  ASSUME LoaderInv, NEW a
  PROVE  ProtOf(0, 0, a) = {"r", "w"}
  BY LenTypes DEF ProtOf, Loadable, Relro

LEMMA LinkMapImage ==
  ASSUME SmallUserSpace, SmallHostPages, WellLinked, LoaderInv, IInv, LinkInv, MapImage
  PROVE  LinkInv'
<1> DEFINE n == Sub(loadHigh, loadLow)
<1>1. /\ pc = "map" /\ k' = 1 /\ UNCHANGED <<file, options>>
      /\ Calls(MapOk(loadLow, n, {"r", "w"}) \/ (n = 0 /\ EmptyCall), MapThrows(loadLow, n),
               "write")
  BY DEF MapImage
<1>2. /\ loadLow \in Addr /\ loadLow % GuestPage = 0
      /\ loadHigh \in Addr /\ loadHigh % GuestPage = 0
      /\ loadLow <= loadHigh /\ loadHigh <= TaskSize
      /\ file.segs # <<>>
  BY <1>1, LenTypes, ImageLaid DEF LinkInv, Framed
<1>3. n = loadHigh - loadLow /\ n \in Addr
  BY <1>2, SubCases
<1>4. regions = {} /\ \A a \in Addr : Perms[a] = {}
  BY <1>1 DEF LinkInv, Perms, RegionsAt
<1>5. loadLow' = loadLow /\ loadHigh' = loadHigh
  BY <1>1, LayoutKept
<1>6. CASE MapOk(loadLow, n, {"r", "w"}) /\ pc' = "write"
  <2>0. TypeOK /\ Geometry
    BY DEF IInv
  <2>1. loadLow + n + GuestPage <= Mod
    BY <1>2, <1>3, UserSpace DEF Addr
  <2>2. MapStart(loadLow) = loadLow /\ MapEnd(loadLow, n) = loadHigh
    <3>1. loadLow + n = loadHigh /\ loadLow + n < Mod
      BY <1>2, <1>3, UserSpace DEF Addr
    <3>2. Add(loadLow, n) = loadHigh
      BY <1>2, <1>3, <3>1, AddCases
    <3> QED
      BY <1>2, <3>2, AlreadyAligned DEF MapStart, MapEnd
  <2>3. Span(loadLow, n) = loadLow .. loadHigh - 1
    BY <2>2 DEF Span
  <2> HIDE DEF n
  <2>4. Hosted'
    <3>1. Span(loadLow, n) \subseteq Addr
      BY <1>2, <2>3, UserSpace DEF Addr
    <3>2. \A a \in Span(loadLow, n) : Perms[a] = {}
      BY <1>4, <3>1
    <3>3. Hosted
      BY DEF LinkInv
    <3> QED
      BY <1>2, <1>3, <1>6, <2>0, <2>1, <3>2, <3>3, MapHosted
  <2>5. Placed'
    <3>1. Placed
      BY DEF LinkInv
    <3> QED
      BY <1>2, <1>3, <1>6, <2>1, <3>1, PlacedByMap
  <2>6. Room' /\ Framed'
    <3>1. UNCHANGED <<live, object>>
      BY <1>6 DEF MapOk
    <3> QED
      BY <1>1, <1>5, <3>1 DEF LinkInv, Room, Framed, object
  <2>7. \A a \in Addr :
          Perms'[a] = IF a \in Span(loadLow, n) THEN Perms[a] \cup {{"r", "w"}} ELSE Perms[a]
    BY <1>2, <1>3, <1>6, <2>0, <2>1, MapView
  <2>8. ShownAs(0, 0, FALSE)'
    <3>1. ASSUME NEW a \in Addr
          PROVE  Perms'[a] = IF loadLow <= a /\ a < loadHigh THEN {ProtOf(0, 0, a)'} ELSE {}
      <4>1. ProtOf(0, 0, a)' = {"r", "w"}
        BY <1>1, ProtOfNone, ProtOfKept
      <4>2. a \in Span(loadLow, n) <=> loadLow <= a /\ a < loadHigh
        BY <1>2, <2>3 DEF Addr
      <4> QED
        BY <1>4, <2>7, <4>1, <4>2
    <3> QED
      BY <1>5, <3>1 DEF ShownAs, InImage
  <2>9. Shown'
    <3>1. SegsDone' = 0 /\ RelroDone' = 0 /\ HasStack' = FALSE
      BY <1>6 DEF SegsDone, RelroDone, HasStack, Started
    <3> QED
      BY <2>8, <3>1 DEF Shown
  <2> QED
    BY <1>6, <2>4, <2>5, <2>6, <2>9 DEF LinkInv, HasStack, Started
<1>7. CASE MapThrows(loadLow, n) /\ pc' = "unwind"
  <2>1. UNCHANGED <<live, object, regions, owner, hprot>>
    BY <1>7, CallUnmoved
  <2>2. Hosted' /\ Room' /\ Placed'
    BY <2>1, PermsKept DEF LinkInv, Hosted, Room, Placed, toHost, object
  <2> QED
    BY <1>7, <2>2 DEF LinkInv, Framed, Shown, ImageStages, Loading, HasStack, Started
<1>8. CASE n = 0 /\ EmptyCall /\ pc' = "write"
  <2>1. UNCHANGED <<live, object, regions, owner, hprot>>
    BY <1>8, CallUnmoved
  <2>2. Perms' = Perms
    BY <2>1, PermsKept
  <2>3. Hosted' /\ Room' /\ Placed' /\ Framed'
    BY <1>1, <1>5, <2>1, <2>2 DEF LinkInv, Hosted, Room, Placed, Framed, toHost, object
  <2>4. loadLow = loadHigh
    BY <1>2, <1>3, <1>8 DEF Addr
  <2>5. ShownAs(0, 0, FALSE)'
    <3>1. \A a \in Addr : ~(loadLow <= a /\ a < loadHigh)
      BY <1>2, <2>4 DEF Addr
    <3>2. \A a \in Addr : Perms'[a] = {}
      BY <1>4, <2>2
    <3> QED
      BY <1>5, <3>1, <3>2 DEF ShownAs, InImage
  <2>6. SegsDone' = 0 /\ RelroDone' = 0 /\ HasStack' = FALSE
    BY <1>8 DEF SegsDone, RelroDone, HasStack, Started
  <2>7. Shown'
    BY <2>5, <2>6 DEF Shown
  <2> QED
    BY <1>8, <2>3, <2>7 DEF LinkInv, HasStack, Started
<1> QED
  BY <1>1, <1>6, <1>7, <1>8 DEF Calls

\* One more segment protected.
LEMMA ProtOfSegment ==
  ASSUME LoaderInv, NEW i \in Nat \ {0}, NEW a
  PROVE  ProtOf(i, 0, a) = IF i \in Loadable /\ SegCovers(i, a) THEN file.segs[i].prot
                                                                 ELSE ProtOf(i - 1, 0, a)
<1> DEFINE upTo(s) == {h \in Loadable : h <= s /\ SegCovers(h, a)}
<1>1. Loadable \subseteq 1 .. Len(file.segs) /\ Relro \subseteq 1 .. Len(file.relro)
  BY DEF Loadable, Relro
<1>2. Len(file.segs) \in Nat /\ Len(file.relro) \in Nat
  BY LenTypes
<1>3. \A s : ProtOf(s, 0, a) = IF upTo(s) = {} THEN {"r", "w"} ELSE file.segs[Max(upTo(s))].prot
  BY <1>1, <1>2 DEF ProtOf
<1>4. CASE i \in Loadable /\ SegCovers(i, a)
  <2>1. i \in upTo(i) /\ upTo(i) \in SUBSET Int /\ \A x \in upTo(i) : x <= i
    <3>1. \A h \in Loadable : h \in Int
      BY <1>1, <1>2
    <3>2. i \in upTo(i)
      BY <1>4
    <3> QED
      BY <3>1, <3>2
  <2> HIDE DEF upTo
  <2>2. Max(upTo(i)) = i
    BY <2>1, MaxIs
  <2> QED
    BY <1>3, <1>4, <2>1, <2>2
<1>5. CASE ~(i \in Loadable /\ SegCovers(i, a))
  <2>1. upTo(i) = upTo(i - 1)
    <3>1. \A h \in Loadable : h \in Nat
      BY <1>1, <1>2
    <3>2. \A h \in Loadable : h <= i /\ SegCovers(h, a) <=> h <= i - 1 /\ SegCovers(h, a)
      BY <1>5, <3>1
    <3> QED
      BY <3>2
  <2> HIDE DEF upTo
  <2> QED
    BY <1>3, <1>5, <2>1
<1> QED
  BY <1>4, <1>5

\* One more part of relro protected.
LEMMA ProtOfRelro ==
  ASSUME LoaderInv, NEW s, NEW j \in Nat \ {0}, NEW a
  PROVE  ProtOf(s, j, a) = IF j \in Relro /\ RelroCovers(j, a) THEN {"r"} ELSE ProtOf(s, j - 1, a)
<1>1. Relro \subseteq 1 .. Len(file.relro) /\ Len(file.relro) \in Nat
  BY LenTypes DEF Relro
<1>2. (\E h \in Relro : h <= j /\ RelroCovers(h, a))
        <=> (j \in Relro /\ RelroCovers(j, a)) \/ (\E h \in Relro : h <= j - 1 /\ RelroCovers(h, a))
  BY <1>1
<1> QED
  BY <1>2 DEF ProtOf

\* A protect of a part of the image sets its permission and nothing else.
LEMMA ProtectInImage ==
  ASSUME SmallUserSpace, SmallHostPages, LoaderInv, IInv, LinkInv, pc \in ImageStages,
         NEW g \in Addr, NEW n \in Addr, n > 0, g + n <= TaskSize,
         NEW prot \in SUBSET {"r", "w", "x"}, ProtectOk(g, n, prot),
         loadLow <= MapStart(g), MapEnd(g, n) <= loadHigh
  PROVE  /\ Room' /\ Placed' /\ Hosted'
         /\ \A a \in Addr : Perms'[a] = IF a \in Span(g, n) /\ Perms[a] # {} THEN {prot}
                                                                            ELSE Perms[a]
<1>1. /\ Room /\ Placed /\ Hosted /\ reservedLow = loadLow /\ loadHigh <= reservedHigh
      /\ file.segs # <<>>
  BY DEF LinkInv, Framed
<1>2. g + n + GuestPage <= Mod
  BY UserSpace DEF Addr
<1>3. TypeOK
  BY DEF IInv
<1>4. UNCHANGED <<live, object>>
  BY DEF ProtectOk
<1>5. /\ MapStart(g) \in Addr /\ MapEnd(g, n) \in Addr
      /\ loadLow \in Addr /\ loadHigh \in Addr
  BY <1>1, RoundingAligned, SpanTypes DEF LoaderInv
<1>6. insideReservation(g, n)
  <2>1. reservedHigh \in Addr
    BY <1>3 DEF TypeOK
  <2> QED
    BY <1>1, <1>5, <2>1 DEF insideReservation, Addr
<1>7. Hosted'
  BY <1>1, <1>2, <1>6, ProtectHosted
<1>8. Placed'
  BY <1>1, <1>2, <1>3, PlacedByProtect
<1>9. Room'
  BY <1>1, <1>4 DEF Room, object
<1>10. \A a \in Addr :
         Perms'[a] = IF a \in Span(g, n) /\ Perms[a] # {} THEN {prot} ELSE Perms[a]
  BY <1>1, <1>2, <1>3, ProtectView
<1> QED
  BY <1>7, <1>8, <1>9, <1>10

LEMMA SpanMember ==
  ASSUME NEW g \in Addr, NEW n \in Addr
  PROVE  \A a \in Addr : a \in Span(g, n) <=> MapStart(g) <= a /\ a < MapEnd(g, n)
<1>1. MapStart(g) \in Addr /\ MapEnd(g, n) \in Addr
  BY RoundingAligned
<1> QED
  BY <1>1 DEF Span, Addr

\* The range has the permission of a later stage, which agrees with an earlier
\* one everywhere else.
Recast(g, n, s, q) ==
  \A a \in Addr : Perms'[a] = IF a \in Span(g, n) /\ Perms[a] # {} THEN {ProtOf(s, q, a)}
                                                                 ELSE Perms[a]
AgreeBeyond(g, n, s, q, s1, q1) ==
  \A a \in Addr : a \notin Span(g, n) => ProtOf(s1, q1, a) = ProtOf(s, q, a)

\* What is shown after it.
LEMMA ProtectShown ==
  ASSUME LoaderInv, UNCHANGED <<file, options>>, file.segs # <<>>,
         NEW g \in Addr, NEW n \in Addr, loadLow <= MapStart(g), MapEnd(g, n) <= loadHigh,
         NEW s, NEW q, NEW s1, NEW q1, ShownAs(s, q, FALSE),
         Recast(g, n, s1, q1), AgreeBeyond(g, n, s, q, s1, q1)
  PROVE  ShownAs(s1, q1, FALSE)'
<1>1. /\ MapStart(g) \in Addr /\ MapEnd(g, n) \in Addr
      /\ loadLow \in Addr /\ loadHigh \in Addr
  BY RoundingAligned, SpanTypes DEF LoaderInv
<1>2. loadLow' = loadLow /\ loadHigh' = loadHigh
  BY LayoutKept
<1>3. \A a \in Addr :
         a \in Span(g, n) <=> MapStart(g) <= a /\ a < MapEnd(g, n)
  BY SpanMember
<1>4. \A a \in Addr : MapStart(g) <= a /\ a < MapEnd(g, n) => InImage(a)
  BY <1>1 DEF InImage, Addr
<1>5. ASSUME NEW a \in Addr
      PROVE  Perms'[a] = IF InImage(a) THEN {ProtOf(s1, q1, a)} ELSE {}
  <2>1. Perms[a] = IF InImage(a) THEN {ProtOf(s, q, a)} ELSE {}
    BY DEF ShownAs
  <2> QED
    BY <1>3, <1>4, <2>1 DEF Recast, AgreeBeyond
<1>6. ASSUME NEW a \in Addr
      PROVE  Perms'[a] = IF loadLow' <= a /\ a < loadHigh' THEN {ProtOf(s1, q1, a)'} ELSE {}
  <2>1. ProtOf(s1, q1, a)' = ProtOf(s1, q1, a)
    BY ProtOfKept
  <2> QED
    BY <1>2, <1>5, <2>1 DEF InImage
<1> QED
  BY <1>6 DEF ShownAs, InImage

LEMMA LinkProtectSegment ==
  ASSUME SmallUserSpace, SmallHostPages, WellLinked, LoaderInv, IInv, LinkInv, ProtectSegment
  PROVE  LinkInv'
<1> USE DEF ImageStages, Loading, Stages, Started
<1>1. /\ pc = "protect" /\ UNCHANGED <<file, options>> /\ k \in Nat /\ k > 0
      /\ k <= Len(file.segs) + 1 /\ Len(file.segs) \in Nat
      /\ file \in Files /\ options \in Options
  BY LenTypes DEF ProtectSegment, LinkInv
<1>2. ShownAs(k - 1, 0, FALSE)
  <2>1. SegsDone = k - 1 /\ RelroDone = 0 /\ HasStack = FALSE
    BY <1>1 DEF SegsDone, RelroDone, HasStack
  <2> QED
    BY <1>1, <2>1 DEF LinkInv, Shown
<1>3. PICK now \in Nat : now = k
  BY <1>1
<1>4. \A a : ProtOf(now, 0, a) = IF now \in Loadable /\ SegCovers(now, a)
                                  THEN file.segs[now].prot ELSE ProtOf(now - 1, 0, a)
  BY <1>1, <1>3, ProtOfSegment
<1>5. CASE k > Len(file.segs) /\ pc' = "headers" /\ k' = 1 /\ Quiet
  <2>1. SegsDone' = SegsDone /\ RelroDone' = RelroDone /\ HasStack' = HasStack
    BY <1>1, <1>5 DEF SegsDone, RelroDone, HasStack
  <2>2. Unmoved
    BY <1>1, <1>5, CallUnmoved DEF Unmoved
  <2> QED
    BY <1>1, <1>5, <2>1, <2>2, UnmovedKeeps
<1>6. ASSUME pc' = "protect", k' = k + 1, ShownAs(now, 0, FALSE)', k <= Len(file.segs),
             Room', Placed', Hosted', UNCHANGED object
      PROVE  LinkInv'
  <2>1. Framed'
    BY <1>1, <1>6, LayoutKept DEF LinkInv, Framed, object
  <2>2. SegsDone' = now /\ RelroDone' = 0 /\ HasStack' = FALSE
    BY <1>1, <1>3, <1>6 DEF SegsDone, RelroDone, HasStack
  <2>3. Shown'
    BY <1>3, <1>6, <2>2 DEF Shown
  <2> QED
    BY <1>1, <1>6, <2>1, <2>3 DEF LinkInv, HasStack
<1>7. CASE k \in 1 .. Len(file.segs) \ Loadable /\ pc' = "protect" /\ k' = k + 1 /\ Quiet
  <2>1. UNCHANGED <<live, object, regions, owner, hprot>>
    BY <1>7, CallUnmoved
  <2>2. Hosted' /\ Room' /\ Placed'
    BY <2>1, PermsKept DEF LinkInv, Hosted, Room, Placed, toHost, object
  <2>3. \A a : ProtOf(now, 0, a) = ProtOf(now - 1, 0, a)
    BY <1>3, <1>4, <1>7
  <2>4. ShownAs(now, 0, FALSE)
    BY <1>2, <1>3, <2>3 DEF ShownAs
  <2>5. ShownAs(now, 0, FALSE)'
    BY <1>1, <2>1, <2>4, ShownKept DEF object
  <2> QED
    BY <1>6, <1>7, <2>1, <2>2, <2>5
<1>8. CASE /\ k \in Loadable /\ k' = k + 1
           /\ Calls(ProtectOk(Biased(file.segs[k].vaddr), file.segs[k].memsz, file.segs[k].prot),
                    ProtectThrows(Biased(file.segs[k].vaddr), file.segs[k].memsz), "protect")
  <2> DEFINE g == Biased(file.segs[now].vaddr)
             n == file.segs[now].memsz
             prot == file.segs[now].prot
  <2>1. now \in 1 .. Len(file.segs) /\ now \in Loadable /\ n > 0 /\ k <= Len(file.segs)
    BY <1>1, <1>3, <1>8 DEF Loadable
  <2>2. /\ g \in Addr /\ n \in Addr /\ prot \in SUBSET {"r", "w", "x"}
        /\ g + n <= TaskSize
    BY <1>1, <2>1, SegmentLaid DEF Segment
  <2>3. loadLow <= MapStart(g) /\ MapEnd(g, n) <= loadHigh
    <3>1. file.segs # <<>>
      BY <1>1 DEF LinkInv, Framed
    <3> QED
      BY <1>1, <2>1, <3>1, ImageLaid
  <2>4. CASE ProtectOk(g, n, prot) /\ pc' = "protect"
    <3>1. \A a \in Addr : ProtOf(now, 0, a) = IF MapStart(g) <= a /\ a < MapEnd(g, n) THEN prot
                                                                  ELSE ProtOf(now - 1, 0, a)
      BY <1>4, <2>1 DEF SegCovers, Covers
    <3>2. ShownAs(now - 1, 0, FALSE) /\ pc \in ImageStages
      BY <1>1, <1>2, <1>3
    <3>3. UNCHANGED object
      BY <2>4 DEF ProtectOk
    <3> HIDE DEF g, n, prot
    <3>4. /\ Room' /\ Placed' /\ Hosted'
          /\ \A a \in Addr : Perms'[a] = IF a \in Span(g, n) /\ Perms[a] # {} THEN {prot}
                                                                            ELSE Perms[a]
      BY <1>1, <2>1, <2>2, <2>3, <2>4, <3>2, ProtectInImage
    <3>5. ShownAs(now, 0, FALSE)'
      <4>1. file.segs # <<>>
        BY <1>1 DEF LinkInv, Framed
      <4>2. UNCHANGED <<file, options>> /\ g \in Addr /\ n \in Addr
        BY <1>1, <2>2
      <4>3. ShownAs(now - 1, 0, FALSE)
        BY <3>2
      <4>4. \A a \in Addr : ProtOf(now, 0, a) = IF a \in Span(g, n) THEN prot
                                                                   ELSE ProtOf(now - 1, 0, a)
        BY <3>1, SpanMember, <2>2
      <4>5. Recast(g, n, now, 0)
        BY <3>4, <4>4 DEF Recast
      <4>6. AgreeBeyond(g, n, now - 1, 0, now, 0)
        BY <4>4 DEF AgreeBeyond
      <4> QED
        BY <2>3, <4>1, <4>2, <4>3, <4>5, <4>6, ProtectShown
    <3> QED
      BY <1>6, <1>8, <2>1, <2>4, <3>3, <3>4, <3>5
  <2>5. CASE ProtectThrows(g, n) /\ pc' = "unwind"
    <3>1. Unmoved
      BY <1>1, <2>5, CallUnmoved DEF Unmoved
    <3> QED
      BY <1>1, <2>5, <3>1, UnmovedKeeps
  <2> QED
    BY <1>3, <1>8, <2>4, <2>5 DEF Calls
<1> QED
  BY <1>5, <1>7, <1>8 DEF ProtectSegment

LEMMA LinkProtectRelro ==
  ASSUME SmallUserSpace, SmallHostPages, WellLinked, LoaderInv, IInv, LinkInv, ProtectRelro
  PROVE  LinkInv'
<1> USE DEF ImageStages, Loading, Stages, Started
<1>1. /\ pc = "relro" /\ UNCHANGED <<file, options>> /\ k \in Nat /\ k > 0
      /\ k <= Len(file.relro) + 1 /\ Len(file.relro) \in Nat /\ Len(file.segs) \in Nat
      /\ file \in Files /\ options \in Options
  BY LenTypes DEF ProtectRelro, LinkInv
<1>2. ShownAs(Len(file.segs), k - 1, FALSE)
  <2>1. SegsDone = Len(file.segs) /\ RelroDone = k - 1 /\ HasStack = FALSE
    BY <1>1 DEF SegsDone, RelroDone, HasStack
  <2> QED
    BY <1>1, <2>1 DEF LinkInv, Shown
<1>3. PICK now \in Nat : now = k
  BY <1>1
<1>0. PICK all \in Nat : all = Len(file.segs)
  BY <1>1
<1>4. \A a : ProtOf(all, now, a) = IF now \in Relro /\ RelroCovers(now, a)
                                    THEN {"r"} ELSE ProtOf(all, now - 1, a)
  BY <1>1, <1>3, ProtOfRelro
<1>5. CASE k > Len(file.relro) /\ pc' = "stack" /\ k' = k /\ Quiet
  <2>1. SegsDone' = SegsDone /\ RelroDone' = RelroDone /\ HasStack' = HasStack
    BY <1>1, <1>5 DEF SegsDone, RelroDone, HasStack
  <2>2. Unmoved
    BY <1>1, <1>5, CallUnmoved DEF Unmoved
  <2> QED
    BY <1>1, <1>5, <2>1, <2>2, UnmovedKeeps
<1>6. ASSUME pc' = "relro", k' = k + 1, ShownAs(all, now, FALSE)', k <= Len(file.relro),
             Room', Placed', Hosted', UNCHANGED object
      PROVE  LinkInv'
  <2>1. Framed'
    BY <1>1, <1>6, LayoutKept DEF LinkInv, Framed, object
  <2>2. SegsDone' = all /\ RelroDone' = now /\ HasStack' = FALSE
    BY <1>0, <1>1, <1>3, <1>6 DEF SegsDone, RelroDone, HasStack
  <2>3. Shown'
    BY <1>3, <1>6, <2>2 DEF Shown
  <2> QED
    BY <1>1, <1>6, <2>1, <2>3 DEF LinkInv, HasStack
<1>7. CASE k \in 1 .. Len(file.relro) \ Relro /\ pc' = "relro" /\ k' = k + 1 /\ Quiet
  <2>1. UNCHANGED <<live, object, regions, owner, hprot>>
    BY <1>7, CallUnmoved
  <2>2. Hosted' /\ Room' /\ Placed'
    BY <2>1, PermsKept DEF LinkInv, Hosted, Room, Placed, toHost, object
  <2>3. \A a : ProtOf(all, now, a) = ProtOf(all, now - 1, a)
    BY <1>3, <1>4, <1>7
  <2>4. ShownAs(all, now, FALSE)
    BY <1>0, <1>2, <1>3, <2>3 DEF ShownAs
  <2>5. ShownAs(all, now, FALSE)'
    BY <1>1, <2>1, <2>4, ShownKept DEF object
  <2> QED
    BY <1>6, <1>7, <2>1, <2>2, <2>5
<1>8. CASE /\ k \in Relro /\ k' = k + 1
           /\ Calls(ProtectOk(Biased(file.relro[k].vaddr), file.relro[k].memsz, {"r"}),
                    ProtectThrows(Biased(file.relro[k].vaddr), file.relro[k].memsz), "relro")
  <2> DEFINE g == Biased(file.relro[now].vaddr)
             n == file.relro[now].memsz
  <2>1. now \in Relro /\ n > 0 /\ k <= Len(file.relro)
    BY <1>1, <1>3, <1>8 DEF Relro
  <2>2. /\ g \in Addr /\ n \in Addr /\ g + n <= TaskSize
        /\ loadLow <= MapStart(g) /\ MapEnd(g, n) <= loadHigh
    <3>1. file.segs # <<>>
      BY <1>1 DEF LinkInv, Framed
    <3> QED
      BY <1>1, <2>1, <3>1, RelroLaid
  <2>4. CASE ProtectOk(g, n, {"r"}) /\ pc' = "relro"
    <3>1. \A a \in Addr : ProtOf(all, now, a) = IF MapStart(g) <= a /\ a < MapEnd(g, n) THEN {"r"}
                                                                  ELSE ProtOf(all, now - 1, a)
      BY <1>4, <2>1 DEF RelroCovers, Covers
    <3>2. ShownAs(all, now - 1, FALSE) /\ pc \in ImageStages
      BY <1>0, <1>1, <1>2, <1>3
    <3>3. UNCHANGED object
      BY <2>4 DEF ProtectOk
    <3> HIDE DEF g, n
    <3>4. /\ Room' /\ Placed' /\ Hosted'
          /\ \A a \in Addr : Perms'[a] = IF a \in Span(g, n) /\ Perms[a] # {} THEN {{"r"}}
                                                                            ELSE Perms[a]
      BY <1>1, <2>1, <2>2, <2>4, <3>2, ProtectInImage
    <3>5. ShownAs(all, now, FALSE)'
      <4>1. file.segs # <<>>
        BY <1>1 DEF LinkInv, Framed
      <4>2. \A a \in Addr : ProtOf(all, now, a) = IF a \in Span(g, n) THEN {"r"}
                                                                   ELSE ProtOf(all, now - 1, a)
        BY <3>1, SpanMember, <2>2
      <4>3. Recast(g, n, all, now)
        BY <3>4, <4>2 DEF Recast
      <4>4. AgreeBeyond(g, n, all, now - 1, all, now)
        BY <4>2 DEF AgreeBeyond
      <4> QED
        BY <1>1, <2>2, <3>2, <4>1, <4>3, <4>4, ProtectShown
    <3> QED
      BY <1>6, <1>8, <2>1, <2>4, <3>3, <3>4, <3>5
  <2>5. CASE ProtectThrows(g, n) /\ pc' = "unwind"
    <3>1. Unmoved
      BY <1>1, <2>5, CallUnmoved DEF Unmoved
    <3> QED
      BY <1>1, <2>5, <3>1, UnmovedKeeps
  <2> QED
    BY <1>3, <1>8, <2>4, <2>5 DEF Calls
<1> QED
  BY <1>5, <1>7, <1>8 DEF ProtectRelro

LEMMA LinkMapStack ==
  ASSUME SmallUserSpace, SmallHostPages, WellLinked, LoaderInv, IInv, LinkInv, MapStack
  PROVE  LinkInv'
<1> USE DEF ImageStages, Loading, Stages, Started
<1>1. /\ pc = "stack" /\ UNCHANGED <<file, options>> /\ live
      /\ Len(file.segs) \in Nat /\ Len(file.relro) \in Nat
      /\ file \in Files /\ options \in Options
      /\ TypeOK /\ Geometry
  BY LenTypes DEF MapStack, LoaderInv, LoaderTypeOK, IInv
<1>2. PICK all \in Nat, parts \in Nat : all = Len(file.segs) /\ parts = Len(file.relro)
  BY <1>1
<1>3. ShownAs(all, parts, FALSE)
  <2>1. SegsDone = all /\ RelroDone = parts /\ HasStack = FALSE
    BY <1>1, <1>2 DEF SegsDone, RelroDone, HasStack
  <2> QED
    BY <1>1, <2>1 DEF LinkInv, Shown
<1>4. size \in Addr /\ size > 0 /\ low \in Addr /\ top \in Addr
  <2>1. size \in Addr /\ options.stackSize \in Nat /\ 0 < options.stackSize
        /\ options.stackSize <= size
    BY <1>1, StackSize
  <2> QED
    BY <1>1, <2>1, StackTypes DEF Addr
<1>5. CASE pc' = "unwind" /\ UNCHANGED <<live, object, regions, owner, hprot>>
  <2>1. Unmoved
    BY <1>1, <1>5 DEF Unmoved
  <2> QED
    BY <1>1, <1>5, <2>1, UnmovedKeeps
<1>6. CASE ~Overlap /\ MapOk(low, size, {"r", "w"}) /\ pc' = "push"
  <2>1. Room /\ Framed /\ Placed /\ Hosted
    BY DEF LinkInv
  <2>2. MapAccepted(low, size) /\ UNCHANGED <<live, object>>
    BY <1>6 DEF MapOk
  <2>3. /\ StackLaid
        /\ MapStart(low) = low /\ MapEnd(low, size) = top
        /\ low + size + GuestPage <= Mod
    BY <1>1, <1>6, <2>1, <2>2, StackMapped
  <2>4. top' = top /\ low' = low /\ (StackLaid' <=> StackLaid)
        /\ loadLow' = loadLow /\ loadHigh' = loadHigh
    BY <1>1, <2>2, LayoutKept DEF object
  <2>5. Span(low, size) = low .. top - 1
    BY <2>3 DEF Span
  <2>6. PICK base \in Addr, bytes \in Addr : base = low /\ bytes = size
    BY <1>4
  <2>7. MapOk(base, bytes, {"r", "w"}) /\ base + bytes + GuestPage <= Mod
    BY <1>6, <2>3, <2>6
  <2>8. loadLow \in Addr /\ loadHigh \in Addr
    BY <1>1, SpanTypes DEF LinkInv, Framed
  <2>9. \A a \in Addr : a \in Span(base, bytes) <=> low <= a /\ a < top
    BY <1>4, <2>5, <2>6 DEF Addr
  <2>10. \A a \in Addr : low <= a /\ a < top => ~InImage(a)
    BY <1>4, <2>3, <2>8 DEF StackLaid, InImage, Addr
  <2>11. \A a \in Addr : low <= a /\ a < top => Perms[a] = {}
    BY <1>3, <2>10 DEF ShownAs
  <2>12. Hosted'
    <3>1. \A a \in Span(base, bytes) : Perms[a] = {}
      <4>1. Span(base, bytes) \subseteq Addr
        BY <1>4, <2>6, <2>7, SpanAddr
      <4> QED
        BY <2>9, <2>11, <4>1
    <3> QED
      BY <1>1, <2>1, <2>7, <3>1, MapHosted
  <2>13. Placed'
    BY <2>1, <2>7, PlacedByMap
  <2>14. Room' /\ Framed'
    BY <1>1, <1>6, <2>1, <2>2, <2>4 DEF Room, Framed, object
  <2>15. \A a \in Addr :
           Perms'[a] = IF a \in Span(base, bytes) THEN Perms[a] \cup {{"r", "w"}} ELSE Perms[a]
    BY <1>1, <2>7, MapView
  <2>16. ShownAs(all, parts, TRUE)'
    <3>1. ASSUME NEW a \in Addr
          PROVE  Perms'[a] = IF loadLow' <= a /\ a < loadHigh' THEN {ProtOf(all, parts, a)'}
                             ELSE IF low' <= a /\ a < top' THEN {{"r", "w"}} ELSE {}
      <4>1. ProtOf(all, parts, a)' = ProtOf(all, parts, a)
        BY <1>1, ProtOfKept
      <4>2. Perms[a] = IF InImage(a) THEN {ProtOf(all, parts, a)} ELSE {}
        BY <1>3 DEF ShownAs
      <4> QED
        BY <2>4, <2>9, <2>10, <2>15, <4>1, <4>2 DEF InImage
    <3> QED
      BY <3>1 DEF ShownAs, InImage
  <2>17. Shown'
    <3>1. SegsDone' = all /\ RelroDone' = parts /\ HasStack' = TRUE
      BY <1>1, <1>2, <1>6 DEF SegsDone, RelroDone, HasStack
    <3> QED
      BY <2>16, <3>1 DEF Shown
  <2> QED
    BY <1>6, <2>3, <2>4, <2>12, <2>13, <2>14, <2>17 DEF LinkInv
<1>7. \/ Overlap /\ Throw
      \/ ~Overlap /\ MapOk(low, size, {"r", "w"}) /\ pc' = "push"
      \/ MapThrows(low, size) /\ pc' = "unwind"
  BY <1>4 DEF MapStack, Calls, EmptyCall
<1>8. CASE MapThrows(low, size) /\ pc' = "unwind"
  BY <1>5, <1>8, CallUnmoved
<1>9. CASE Throw
  BY <1>5, <1>9, CallUnmoved DEF Throw, Quiet
<1> QED
  BY <1>6, <1>7, <1>8, <1>9

(***************************************************************************)
(* Every step, and what holds when the CPU starts.                         *)
(***************************************************************************)

LEMMA LinkStep ==
  ASSUME SmallUserSpace, SmallHostPages, WellLinked, LoaderInv, IInv, LinkInv,
         [LoaderNext]_allVars
  PROVE  LinkInv'
<1>1. CASE LoadStep
  BY <1>1, LinkConstruct, LinkMapImage, LinkOtherSteps, LinkProtectSegment, LinkProtectRelro,
     LinkMapStack, LinkEnds DEF LoadStep
<1> QED
  BY <1>1, LinkBegin, LinkEnds, LinkHost, LinkIdle DEF LoaderNext

LEMMA LinkStart == LoaderInit => LinkInv
<1> SUFFICES ASSUME LoaderInit PROVE LinkInv
  OBVIOUS
<1>1. live = FALSE /\ regions = {} /\ pc = "idle"
  BY DEF LoaderInit, Init
<1>2. \A a \in Addr : Perms[a] = {}
  BY <1>1 DEF Perms, RegionsAt
<1> QED
  BY <1>1, <1>2
     DEF LinkInv, Room, Placed, Hosted, Framed, Shown, ImageStages, Loading, HasStack, Started

\* With everything protected, the permission is the one the headers give.
LEMMA AllProtected ==
  ASSUME LoaderInv, NEW a
  PROVE  ProtOf(Len(file.segs), Len(file.relro), a) = LinkedProt(a)
<1>1. Len(file.segs) \in Nat /\ Len(file.relro) \in Nat
  BY LenTypes
<1>2. {i \in Loadable : i <= Len(file.segs) /\ SegCovers(i, a)}
        = {i \in Loadable : Covers(file.segs[i].vaddr, file.segs[i].memsz, a)}
  BY <1>1 DEF SegCovers, Loadable
<1>3. ToSet(file.relro) = {file.relro[j] : j \in 1 .. Len(file.relro)}
  <2>1. file.relro \in Seq([vaddr : Addr, memsz : Addr])
    BY LenTypes, FileTypes
  <2>2. DOMAIN file.relro = 1 .. Len(file.relro)
    BY <2>1
  <2> QED
    BY <2>2 DEF ToSet
<1>4. (\E j \in Relro : j <= Len(file.relro) /\ RelroCovers(j, a))
        <=> \E r \in ToSet(file.relro) : r.memsz > 0 /\ Covers(r.vaddr, r.memsz, a)
  BY <1>1, <1>3 DEF RelroCovers, Relro
<1> QED
  BY <1>2, <1>4 DEF ProtOf, LinkedProt

LEMMA LinkProtects ==
  ASSUME LoaderInv, LinkInv
  PROVE  PermissionsAsLinked
<1> SUFFICES ASSUME pc = "running", NEW a \in Addr
             PROVE  LET prot == IF loadLow <= a /\ a < loadHigh THEN LinkedProt(a)
                                ELSE IF low <= a /\ a < top THEN {"r", "w"} ELSE {}
                    IN  /\ ProtsAt(a) = {prot}
                        /\ prot # {} => hprot[HostPageOf(toHost(a))] = HostProtFor(prot)
  BY DEF PermissionsAsLinked
<1>1. ShownAs(Len(file.segs), Len(file.relro), TRUE)
  <2>1. SegsDone = Len(file.segs) /\ RelroDone = Len(file.relro) /\ HasStack = TRUE
    BY DEF SegsDone, RelroDone, HasStack, Started
  <2> QED
    BY <2>1 DEF LinkInv, Shown, ImageStages, Loading, Stages
<1>2. Perms[a] = IF loadLow <= a /\ a < loadHigh THEN {LinkedProt(a)}
                 ELSE IF low <= a /\ a < top THEN {{"r", "w"}} ELSE {}
  BY <1>1, AllProtected DEF ShownAs, InImage
<1>3. Perms[a] = {r.prot : r \in RegionsAt(a)}
  BY DEF Perms
<1>4. ProtsAt(a) = IF Perms[a] = {} THEN {{}} ELSE Perms[a]
  BY <1>3 DEF ProtsAt
<1>5. \A prot \in Perms[a] : hprot[HostPageOf(toHost(a))] = HostProtFor(prot)
  BY DEF LinkInv, Hosted
<1> QED
  BY <1>2, <1>4, <1>5

LEMMA LinkInvariant ==
  AnyClient /\ SmallUserSpace /\ SmallHostPages /\ WellLinked
    => (LoaderSpec => [](LoaderInv /\ IInv /\ LinkInv))
<1> SUFFICES ASSUME AnyClient, SmallUserSpace, SmallHostPages, WellLinked
             PROVE  LoaderSpec => [](LoaderInv /\ IInv /\ LinkInv)
  OBVIOUS
<1>1. LoaderSpec => [](LoaderInv /\ IInv)
  BY ClientInvariant
<1>2. LoaderInv /\ IInv /\ LinkInv /\ [LoaderNext]_allVars => LinkInv'
  BY LinkStep
<1> QED
  BY <1>1, <1>2, LinkStart, PTL DEF LoaderSpec

\* When the CPU starts, the permission protAt gives of every address is the one
\* the headers ask for, of the stack read and write, of anything else none, and
\* the host page under it allows just that: no map, protect or stack of a load,
\* however laid out, has disturbed another's (ElfMapper.cpp, GuestStack.cpp).
THEOREM Permissions_AsLinked ==
  AnyClient /\ SmallUserSpace /\ SmallHostPages /\ WellLinked
    => (LoaderSpec => []PermissionsAsLinked)
<1> SUFFICES ASSUME AnyClient, SmallUserSpace, SmallHostPages, WellLinked
             PROVE  LoaderSpec => []PermissionsAsLinked
  OBVIOUS
<1>1. LoaderInv /\ LinkInv => PermissionsAsLinked
  BY LinkProtects
<1> QED
  BY <1>1, LinkInvariant, PTL

(***************************************************************************)
(* Accesses.  A page of the image or of the stack can be read; one of the   *)
(* stack, or of the image before its permissions are set, can be written.   *)
(***************************************************************************)

\* There is a page between user space and the last page.
LEMMA RoomAbove ==
  ASSUME SmallUserSpace, WellLinked, file \in Files, options \in Options, file.segs # <<>>
  PROVE  TaskSize + 2 * GuestPage <= Mod
<1>1. /\ loadLow \in Addr /\ loadLow % GuestPage = 0 /\ loadHigh \in Addr
      /\ StackBytes <= loadLow /\ loadLow <= loadHigh /\ loadHigh <= TaskSize
  BY ImageLaid
<1>2. /\ TaskSize \in Addr /\ TaskSize % GuestPage = 0 /\ TaskSize \in Nat
      /\ GuestPage \in Nat \ {0} /\ Mod \in Nat \ {0} /\ 2 * TaskSize < Mod
      /\ StackBytes \in Nat \ {0}
  BY UserSpace, StackBytesType DEF Addr
<1>3. GuestPage <= loadLow
  <2>1. 0 % GuestPage = 0 /\ 0 < loadLow /\ loadLow \in Nat
    BY <1>1, <1>2 DEF Addr
  <2>2. 0 + GuestPage <= loadLow
    BY <1>1, <1>2, <2>1, MultipleGap
  <2> QED
    BY <1>2, <2>2
<1>4. TaskSize + GuestPage < Mod /\ GuestPage \in Addr /\ GuestPage % GuestPage = 0
  BY <1>1, <1>2, <1>3 DEF Addr
<1>5. TaskSize + GuestPage \in Addr /\ (TaskSize + GuestPage) % GuestPage = 0
  <2>1. Add(TaskSize, GuestPage) = TaskSize + GuestPage /\ Add(TaskSize, GuestPage) \in Addr
    BY <1>2, <1>4, AddCases
  <2> QED
    BY <1>2, <1>4, <2>1, GuestSums
<1> QED
  BY <1>2, <1>5, GuestRoom

LEMMA ShownNow ==
  ASSUME LinkInv, pc \in ImageStages, NEW a \in Addr
  PROVE  Perms[a] = IF InImage(a) THEN {ProtOf(SegsDone, RelroDone, a)}
                    ELSE IF HasStack /\ low <= a /\ a < top THEN {{"r", "w"}} ELSE {}
<1>1. PICK s \in Nat, q \in Nat, t \in BOOLEAN :
        s = SegsDone /\ q = RelroDone /\ t = HasStack /\ ShownAs(s, q, t)
  BY DEF LinkInv, Shown
<1> QED
  BY <1>1 DEF ShownAs

\* No segment is without access.
LEMMA ProtOfAccess ==
  ASSUME WellLinked, LoaderInv, NEW s, NEW q, NEW a
  PROVE  ProtOf(s, q, a) # {}
<1> DEFINE having == {i \in Loadable : i <= s /\ SegCovers(i, a)}
<1>1. CASE having # {}
  <2>1. having \in SUBSET (0 .. Len(file.segs)) /\ Len(file.segs) \in Nat
    BY LenTypes DEF Loadable
  <2>2. Max(having) \in having
    <3> HIDE DEF having
    <3> QED
      BY <1>1, <2>1, MaxGreatest
  <2>3. Max(having) \in Loadable
    BY <2>2
  <2> HIDE DEF having
  <2>4. file.segs[Max(having)].prot # {}
    <3>1. Max(having) \in 1 .. Len(file.segs)
      BY <2>3 DEF Loadable
    <3> QED
      BY <2>3, <3>1, LenTypes, SegmentLaid
  <2> QED
    BY <1>1, <2>4 DEF ProtOf, having
<1>2. CASE having = {}
  BY <1>2 DEF ProtOf
<1> QED
  BY <1>1, <1>2

LEMMA ReadSafe ==
  ASSUME WellLinked, LoaderInv, IInv, Aligned, LinkInv, pc \in ImageStages,
         NEW g \in Addr, NEW n \in Addr, g + n + GuestPage <= Mod
  PROVE  ~AccessFaults(g, n, "r")
<1>1. SUFFICES ASSUME AccessFaults(g, n, "r") PROVE FALSE
  OBVIOUS
<1>2. n > 0 /\ isMapped(g, n) /\ ~HostAllows(g, n, "r")
  BY <1>1 DEF AccessFaults, AccessAccepted
<1>3. \A a \in Addr : \A prot \in Perms[a] : prot # {}
  BY ShownNow, ProtOfAccess
<1>4. Granted(g, n, "r")
  <2>1. \A b \in g .. g + n - 1 : b \in Addr
    BY UserSpace DEF Addr
  <2> QED
    BY <1>3, <2>1 DEF Granted, HostProtFor
<1> QED
  BY <1>2, <1>4, AccessAllowed DEF IInv, LinkInv

LEMMA WriteSafe ==
  ASSUME IInv, Aligned, LinkInv, NEW g \in Addr, NEW n \in Addr, g + n + GuestPage <= Mod,
         Granted(g, n, "w")
  PROVE  ~AccessFaults(g, n, "w")
<1>1. SUFFICES ASSUME AccessFaults(g, n, "w") PROVE FALSE
  OBVIOUS
<1>2. n > 0 /\ isMapped(g, n) /\ ~HostAllows(g, n, "w")
  BY <1>1 DEF AccessFaults, AccessAccepted
<1> QED
  BY <1>2, AccessAllowed DEF IInv, LinkInv

\* The bytes of an access that is let through are mapped.
LEMMA AcceptedMapped ==
  ASSUME IInv, Aligned, NEW g \in Addr, NEW n \in Addr, n > 0, g + n + GuestPage <= Mod,
         AccessAccepted(g, n)
  PROVE  \A b \in g .. g + n - 1 : b \in Addr /\ Perms[b] # {}
<1>1. /\ g \in Nat /\ n \in Nat /\ Mod \in Nat /\ GuestPage \in Nat \ {0}
  BY UserSpace DEF Addr
<1>2. n \in 1 .. Mod - GuestPage - g /\ isMapped(g, n)
  BY <1>1 DEF AccessAccepted
<1> SUFFICES ASSUME NEW b \in g .. g + n - 1 PROVE b \in Addr /\ Perms[b] # {}
  OBVIOUS
<1>3. b \in Addr
  BY <1>1 DEF Addr
<1>4. RegionsAt(b) # {}
  BY <1>2, MappedSound DEF MappedIsSound, IInv
<1> QED
  BY <1>3, <1>4 DEF Perms

(***************************************************************************)
(* Contents.  At each stage the object's memory holds of the image the     *)
(* bytes of the segments written so far and, after those, relocated words; *)
(* of the stack what is pushed so far.                                     *)
(***************************************************************************)

BytesHeld == Contents(data)

At(i) == Biased(file.segs[i].vaddr)
FileByte(i, a) == At(i) <= a /\ a < At(i) + file.segs[i].filesz

\* The address has a byte of one of the first n segments.
Laid(n, a) == \E i \in Loadable : i <= n /\ FileByte(i, a)

SegsWritten ==
  IF pc = "write" THEN k - 1 ELSE IF pc = "zero" THEN k ELSE Len(file.segs)

HoldsFile(n, exact) ==
  \A a \in Addr : InImage(a) =>
    /\ Laid(n, a) => a \in BytesHeld
    /\ a \in BytesHeld => Laid(n, a) \/ (~exact /\ a \in Relocated)

ImageHeld ==
  \E n \in Nat : n = SegsWritten /\ HoldsFile(n, pc \in {"write", "zero"})

StringsEnd == top - StringBytes[Len(Strings)]

\* The addresses pushed so far: the vector from rsp on, the random bytes, and
\* the strings up to the top.
Pushed ==
  IF pc \in {"push", "random"} THEN cursor .. top - 1
  ELSE (IF pc = "rsp" THEN {} ELSE rsp .. rsp + k * WordSize - 1)
         \cup cursor .. cursor + RandomBytes - 1
         \cup StringsEnd .. top - 1

InStack(a) == low <= a /\ a < top
StackHeld == \A a \in Addr : InStack(a) => (a \in BytesHeld <=> a \in Pushed)

Held == pc \in ImageStages => ImageHeld /\ (HasStack => StackHeld)

(***************************************************************************)
(* The walk of the tables and the stack's pointers stay where linkers and   *)
(* load put them.                                                          *)
(***************************************************************************)

TableAddrs == {0} \cup {Biased(v) : v \in Tagged(file, {"RELA", "JMPREL"})}
TableSizes == {0} \cup Tagged(file, {"RELASZ", "PLTRELSZ"})

Tables ==
  /\ {dyn.rela, dyn.jmprel} \subseteq TableAddrs
  /\ {dyn.relasz, dyn.pltrelsz} \subseteq TableSizes
  /\ pc \in {"idle", "construct"} => dyn = NoTables

Walked ==
  pc = "walk" => Biased(dynamicHeader.vaddr) + (k - 1) * DynSize <= loadHigh

\* From the second string on the stack lies below the image.  isMapped looks at
\* one page more than it is asked about, and above another stack there is none.
Stacked ==
  /\ pc = "push" =>
       /\ k <= Len(Strings) + 1
       /\ cursor = top - StringBytes[k - 1]
       /\ k > 1 => top <= loadLow
  /\ pc \in Started \ {"push"} => top <= loadLow
  /\ pc = "random" => cursor = StringsEnd
  /\ pc \in {"rsp", "vector", "running"} =>
       /\ StringsEnd < cursor + RandomBytes + StackAlign
       /\ cursor + RandomBytes <= StringsEnd
  /\ pc \in {"vector", "running"} =>
       /\ rsp % StackAlign = 0
       /\ low <= rsp
       /\ rsp + Slots * WordSize <= cursor
       /\ k <= Slots
  /\ pc = "running" => k = Slots

\* What a load may rely on at each stage, and has not done so far.
ImageInv ==
  /\ result = "fault" => ~Linked
  /\ pc \in {"write", "entry", "apply"} => k > 0
  /\ Tables
  /\ Walked
  /\ Stacked
  /\ Held

\* What depends on load's arguments alone.
LEMMA ArgumentsKept ==
  ASSUME UNCHANGED <<file, options>>
  PROVE  /\ Linked' <=> Linked
         /\ TableAddrs' = TableAddrs /\ TableSizes' = TableSizes
         /\ Relocated' = Relocated
         /\ isDynamic' <=> isDynamic
         /\ \A n, a : (Laid(n, a)' <=> Laid(n, a))
         /\ \A a : (InImage(a)' <=> InImage(a))
<1>1. Biased(0)' = Biased(0) /\ loadBias' = loadBias
  BY DEF Biased, loadBias
<1>2. Linked' <=> Linked
  BY DEF Linked, InWritable, Loadable, Biased, loadBias
<1>3. TableAddrs' = TableAddrs /\ TableSizes' = TableSizes /\ Relocated' = Relocated
  BY DEF TableAddrs, TableSizes, Tagged, Relocated, Biased, loadBias
<1>4. isDynamic' <=> isDynamic
  BY DEF isDynamic, dynamicHeader, Biased, loadBias
<1>5. \A n, a : (Laid(n, a)' <=> Laid(n, a))
  BY DEF Laid, FileByte, At, Loadable, Biased, loadBias
<1>6. \A a : (InImage(a)' <=> InImage(a))
  BY LayoutKept DEF InImage
<1> QED
  BY <1>2, <1>3, <1>4, <1>5, <1>6

\* A step on which the memory holds the same.
LEMMA BytesKept ==
  ASSUME UNCHANGED <<hostOffset, regions, data>>
  PROVE  BytesHeld' = BytesHeld
  BY DEF BytesHeld, Contents, RegionsAt, toHost

\* What each call does to the memory.
LEMMA CallBytes ==
  ASSUME NEW g, NEW n, NEW access, NEW prot
  PROVE  \/ ReadOk(g, n) \/ AccessThrows(g, n) \/ AccessFaults(g, n, access) \/ EmptyCall
         \/ MapThrows(g, n) \/ ProtectThrows(g, n) \/ Quiet
         => BytesHeld' = BytesHeld
<1>1. \/ ReadOk(g, n) \/ AccessThrows(g, n) \/ AccessFaults(g, n, access) \/ EmptyCall
      \/ MapThrows(g, n) \/ ProtectThrows(g, n) \/ Quiet
      => UNCHANGED <<hostOffset, regions, data>>
  BY DEF ReadOk, AccessThrows, AccessFaults, EmptyCall, MapThrows, ProtectThrows, Quiet, vars,
         kernel, object
<1> QED
  BY <1>1, BytesKept

\* The bytes of a write or a zero that succeeds, all of them mapped.
LEMMA WriteBytes ==
  ASSUME IInv, Aligned, NEW g \in Addr, NEW n \in Addr, g + n + GuestPage <= Mod
  PROVE  /\ WriteOk(g, n) => /\ BytesHeld' = BytesHeld \cup (g .. g + n - 1)
                             /\ \A b \in g .. g + n - 1 : b \in Addr /\ Perms[b] # {}
         /\ ZeroOk(g, n) => BytesHeld' = BytesHeld \ (g .. g + n - 1)
<1>1. WriteOk(g, n) => \A b \in g .. g + n - 1 : b \in Addr /\ Perms[b] # {}
  BY AcceptedMapped DEF WriteOk
<1> QED
  BY <1>1, AccessView DEF IInv, BytesHeld

\* How a call ends that load goes on after: it did nothing and load unwinds, or
\* it succeeded.
LEMMA WriteEnds ==
  ASSUME IInv, Aligned, NEW g \in Addr, NEW n \in Addr, g + n + GuestPage <= Mod, NEW next,
         WriteTo(g, n, next)
  PROVE  \/ /\ pc' = "unwind" /\ BytesHeld' = BytesHeld
            /\ result' = "throws" \/ (result' = "fault" /\ AccessFaults(g, n, "w"))
         \/ /\ pc' = next /\ result' = "ok" /\ n > 0
            /\ AccessAccepted(g, n)
            /\ BytesHeld' = BytesHeld \cup (g .. g + n - 1)
            /\ \A b \in g .. g + n - 1 : b \in Addr /\ Perms[b] # {}
<1>1. WriteOk(g, n) => result' = "ok" /\ n > 0 /\ AccessAccepted(g, n)
  BY DEF WriteOk
<1>2. AccessThrows(g, n) => result' = "throws"
  BY DEF AccessThrows
<1>3. AccessFaults(g, n, "w") => result' = "fault"
  BY DEF AccessFaults
<1> QED
  BY <1>1, <1>2, <1>3, WriteBytes, CallBytes DEF WriteTo, Calls

LEMMA ReadEnds ==
  ASSUME WellLinked, LoaderInv, IInv, Aligned, LinkInv, pc \in ImageStages,
         NEW g \in Addr, NEW n \in Addr, g + n + GuestPage <= Mod, NEW next,
         ReadFrom(g, n, next)
  PROVE  /\ BytesHeld' = BytesHeld
         /\ \/ pc' = "unwind" /\ result' = "throws"
            \/ /\ pc' = next /\ result' = "ok"
               /\ \A b \in g .. g + n - 1 : b \in Addr /\ Perms[b] # {}
<1>1. ~AccessFaults(g, n, "r")
  BY ReadSafe
<1>2. ReadOk(g, n) => /\ result' = "ok"
                      /\ \A b \in g .. g + n - 1 : b \in Addr /\ Perms[b] # {}
  BY AcceptedMapped DEF ReadOk
<1>3. AccessThrows(g, n) => result' = "throws"
  BY DEF AccessThrows
<1> QED
  BY <1>1, <1>2, <1>3, CallBytes DEF ReadFrom, Calls

\* Load unwinds, not killed by a signal unless it may be.
LEMMA UnwindKeeps ==
  ASSUME ImageInv, UNCHANGED <<file, options>>, pc' = "unwind", Tables',
         result' = "fault" => ~Linked
  PROVE  ImageInv'
<1>1. Linked' <=> Linked
  BY ArgumentsKept
<1> QED
  BY <1>1 DEF ImageInv, Walked, Stacked, Held, ImageStages, Started

LEMMA TablesKept ==
  ASSUME Tables, UNCHANGED <<file, options, dyn>>, pc' \notin {"idle", "construct"}
  PROVE  Tables'
  BY ArgumentsKept DEF Tables

LEMMA ImageHeldKept ==
  ASSUME UNCHANGED <<file, options>>, NEW n \in Nat, NEW exact, HoldsFile(n, exact),
         \A a \in Addr : InImage(a) => (a \in BytesHeld' <=> a \in BytesHeld)
  PROVE  HoldsFile(n, exact)' /\ HoldsFile(n, FALSE)'
<1>1. ASSUME NEW a \in Addr, InImage(a)'
      PROVE  /\ Laid(n, a)' => a \in BytesHeld'
             /\ a \in BytesHeld' => Laid(n, a)' \/ (~exact /\ a \in Relocated')
  BY <1>1, ArgumentsKept DEF HoldsFile
<1> QED
  BY <1>1 DEF HoldsFile

\* Load goes on with the image.
LEMMA GoesOn ==
  ASSUME LoaderInv', UNCHANGED <<file, options>>, Tables', ImageHeld',
         pc' \in ImageStages \ Started, pc' # "walk",
         pc' \in {"write", "entry", "apply"} => k' > 0
  PROVE  ImageInv'
  BY DEF LoaderInv, Running, ImageInv, Walked, Stacked, Held, HasStack, Started,
         ImageStages, Loading, Stages

\* The image after a step that leaves its bytes alone.
LEMMA ImageSame ==
  ASSUME ImageInv, pc \in ImageStages, UNCHANGED <<file, options>>,
         SegsWritten' = SegsWritten,
         \A a \in Addr : InImage(a) => (a \in BytesHeld' <=> a \in BytesHeld),
         pc' \in {"write", "zero"} => pc \in {"write", "zero"}
  PROVE  ImageHeld'
<1>1. PICK n \in Nat, exact \in BOOLEAN :
        n = SegsWritten /\ (exact <=> pc \in {"write", "zero"}) /\ HoldsFile(n, exact)
  <2>1. PICK n \in Nat : n = SegsWritten /\ HoldsFile(n, pc \in {"write", "zero"})
    BY DEF ImageInv, Held, ImageHeld
  <2>2. CASE pc \in {"write", "zero"}
    BY <2>1, <2>2 DEF HoldsFile
  <2>3. CASE pc \notin {"write", "zero"}
    BY <2>1, <2>3 DEF HoldsFile
  <2> QED
    BY <2>2, <2>3
<1>2. HoldsFile(n, exact)' /\ HoldsFile(n, FALSE)'
  BY <1>1, ImageHeldKept
<1>3. HoldsFile(n, pc \in {"write", "zero"})'
  <2>1. CASE pc' \in {"write", "zero"}
    BY <1>1, <1>2, <2>1 DEF HoldsFile
  <2>2. CASE pc' \notin {"write", "zero"}
    BY <1>2, <2>2 DEF HoldsFile
  <2> QED
    BY <2>1, <2>2
<1> QED
  BY <1>1, <1>3 DEF ImageHeld

\* One more segment.
LEMMA LaidStep ==
  ASSUME LoaderInv, NEW i \in Nat \ {0}, NEW a
  PROVE  Laid(i, a) <=> (i \in Loadable /\ FileByte(i, a)) \/ Laid(i - 1, a)
<1>1. \A h \in Loadable : h \in Nat /\ (h <= i <=> h = i \/ h <= i - 1)
  BY LenTypes DEF Loadable
<1> QED
  BY <1>1 DEF Laid

LEMMA LaidAll ==
  ASSUME LoaderInv, NEW i \in Nat, i >= Len(file.segs), NEW a
  PROVE  Laid(i, a) <=> Laid(Len(file.segs), a)
<1>1. \A h \in Loadable : h <= i /\ h <= Len(file.segs)
  BY LenTypes DEF Loadable
<1> QED
  BY <1>1 DEF Laid

LEMMA AtLaid ==
  ASSUME WellLinked, LoaderInv, NEW i \in Loadable
  PROVE  /\ At(i) \in Addr /\ file.segs[i] \in Segment
         /\ file.segs[i].memsz \in Addr /\ file.segs[i].filesz \in Addr
         /\ file.segs[i].memsz > 0
         /\ file.segs[i].filesz <= file.segs[i].memsz
         /\ At(i) + file.segs[i].memsz <= TaskSize
         /\ At(i) + file.segs[i].memsz + GuestPage <= Mod
         /\ \A j \in Loadable \ {i} :
              Span(At(i), file.segs[i].memsz) \cap Span(At(j), file.segs[j].memsz) = {}
<1>1. i \in 1 .. Len(file.segs) /\ file.segs[i].memsz > 0
  BY DEF Loadable
<1>2. /\ file.segs[i] \in Segment /\ At(i) \in Addr
      /\ At(i) + file.segs[i].memsz <= TaskSize
      /\ file.segs[i].filesz <= file.segs[i].memsz
      /\ \A j \in Loadable \ {i} :
           Span(At(i), file.segs[i].memsz) \cap Span(At(j), file.segs[j].memsz) = {}
  BY <1>1, LenTypes, SegmentLaid DEF At
<1>3. file.segs[i].memsz \in Addr /\ file.segs[i].filesz \in Addr
  BY <1>2 DEF Segment
<1>4. At(i) + file.segs[i].memsz + GuestPage <= Mod
  BY <1>2, <1>3, UserSpace DEF Addr
<1> QED
  BY <1>1, <1>2, <1>3, <1>4

\* A byte of a segment is on its pages and on no other's, and in the image.
LEMMA SegmentByte ==
  ASSUME WellLinked, LoaderInv, file.segs # <<>>, NEW i \in Loadable, NEW a \in Addr,
         At(i) <= a, a < At(i) + file.segs[i].memsz
  PROVE  /\ a \in Span(At(i), file.segs[i].memsz)
         /\ InImage(a)
         /\ \A j \in Loadable : a \in Span(At(j), file.segs[j].memsz) => j = i
         /\ \A j \in Loadable : At(j) <= a /\ a < At(j) + file.segs[j].memsz => j = i
<1>1. ASSUME NEW j \in Loadable, At(j) <= a, a < At(j) + file.segs[j].memsz
      PROVE  /\ a \in Span(At(j), file.segs[j].memsz)
             /\ MapStart(At(j)) <= a /\ a < MapEnd(At(j), file.segs[j].memsz)
  <2> DEFINE g == At(j)
             n == file.segs[j].memsz
  <2>1. g \in Addr /\ n \in Addr /\ n > 0 /\ g + n + GuestPage <= Mod
    BY AtLaid
  <2> HIDE DEF g, n
  <2>2. MapStart(g) \in Addr /\ MapEnd(g, n) \in Addr /\ MapStart(g) <= g /\ g + n <= MapEnd(g, n)
    BY <2>1, SpanAddr
  <2>3. g <= a /\ a < g + n
    BY <1>1 DEF g, n
  <2>4. MapStart(g) <= a /\ a < MapEnd(g, n)
    BY <2>1, <2>2, <2>3 DEF Addr
  <2>5. a \in Span(g, n)
    BY <2>1, <2>4, SpanMember
  <2> QED
    BY <2>4, <2>5 DEF g, n
<1>2. InImage(a)
  <2>1. /\ loadLow <= MapStart(At(i)) /\ MapEnd(At(i), file.segs[i].memsz) <= loadHigh
        /\ loadLow \in Addr /\ loadHigh \in Addr
    BY LenTypes, ImageLaid DEF At
  <2>2. MapStart(At(i)) \in Addr /\ MapEnd(At(i), file.segs[i].memsz) \in Addr
    BY AtLaid, RoundingAligned
  <2>3. MapStart(At(i)) <= a /\ a < MapEnd(At(i), file.segs[i].memsz)
    BY <1>1
  <2> QED
    BY <2>1, <2>2, <2>3 DEF InImage, Addr
<1>3. \A j \in Loadable : a \in Span(At(j), file.segs[j].memsz) => j = i
  BY <1>1, AtLaid
<1> QED
  BY <1>1, <1>2, <1>3

\* Until the first segment is protected the image can be written.
LEMMA WritableAtFirst ==
  ASSUME LoaderInv, LinkInv, pc \in {"write", "zero"}, NEW g \in Addr, NEW n \in Addr,
         g + n + GuestPage <= Mod
  PROVE  Granted(g, n, "w")
<1>1. SegsDone = 0 /\ RelroDone = 0 /\ ~HasStack /\ pc \in ImageStages
  BY DEF SegsDone, RelroDone, HasStack, Started, ImageStages, Loading, Stages
<1>2. \A a \in Addr : Perms[a] \subseteq {{"r", "w"}}
  BY <1>1, ShownNow, ProtOfNone
<1>3. \A b \in g .. g + n - 1 : b \in Addr
  BY UserSpace DEF Addr
<1> QED
  BY <1>2, <1>3 DEF Granted, HostProtFor

LEMMA ImageMapped ==
  ASSUME SmallUserSpace, SmallHostPages, WellLinked, LoaderInv, LoaderInv', IInv, Aligned,
         LinkInv, ImageInv, MapImage
  PROVE  ImageInv'
<1> DEFINE n == Sub(loadHigh, loadLow)
<1>1. /\ pc = "map" /\ k' = 1 /\ UNCHANGED <<file, options, dyn>>
      /\ Calls(MapOk(loadLow, n, {"r", "w"}) \/ (n = 0 /\ EmptyCall), MapThrows(loadLow, n),
               "write")
  BY DEF MapImage, locals
<1>2. /\ loadLow \in Addr /\ loadLow % GuestPage = 0
      /\ loadHigh \in Addr /\ loadHigh % GuestPage = 0
      /\ loadLow <= loadHigh /\ loadHigh <= TaskSize
  BY <1>1, LenTypes, ImageLaid DEF LinkInv, Framed
<1>3. n = loadHigh - loadLow /\ n \in Addr
  BY <1>2, SubCases
<1>4. CASE MapThrows(loadLow, n) /\ pc' = "unwind"
  <2>1. result' # "fault"
    BY <1>4 DEF MapThrows
  <2>2. Tables'
    BY <1>1, <1>4, TablesKept DEF ImageInv
  <2> QED
    BY <1>1, <1>4, <2>1, <2>2, UnwindKeeps
<1>5. CASE MapOk(loadLow, n, {"r", "w"}) /\ pc' = "write"
  <2>1. loadLow + n + GuestPage <= Mod
    BY <1>2, <1>3, UserSpace DEF Addr
  <2>2. MapStart(loadLow) = loadLow /\ MapEnd(loadLow, n) = loadHigh
    <3>1. loadLow + n = loadHigh /\ loadLow + n < Mod
      BY <1>2, <1>3, UserSpace DEF Addr
    <3>2. Add(loadLow, n) = loadHigh
      BY <1>2, <1>3, <3>1, AddCases
    <3> QED
      BY <1>2, <3>2, AlreadyAligned DEF MapStart, MapEnd
  <2>3. BytesHeld' = BytesHeld \ Span(loadLow, n)
    <3> HIDE DEF n
    <3> QED
      BY <1>2, <1>3, <1>5, <2>1, MapView DEF IInv, BytesHeld
  <2>4. \A a \in Addr : InImage(a) => a \notin BytesHeld'
    <3> HIDE DEF n
    <3> QED
      BY <1>2, <1>3, <2>2, <2>3, SpanMember DEF InImage
  <2>5. ASSUME NEW a PROVE ~Laid(0, a)
    BY LenTypes DEF Laid, Loadable
  <2>6. HoldsFile(0, TRUE)'
    BY <1>1, <2>4, <2>5, ArgumentsKept DEF HoldsFile
  <2>7. ImageHeld'
    BY <1>1, <1>5, <2>6 DEF ImageHeld, SegsWritten, HoldsFile
  <2>8. Tables'
    BY <1>1, <1>5, TablesKept DEF ImageInv
  <2> QED
    BY <1>1, <1>5, <2>7, <2>8, GoesOn DEF ImageStages, Loading, Stages, Started
<1>6. CASE n = 0 /\ EmptyCall /\ pc' = "write"
  <2>1. \A a \in Addr : ~InImage(a)
    BY <1>2, <1>3, <1>6 DEF InImage, Addr
  <2>2. HoldsFile(0, TRUE)'
    BY <1>1, <2>1, ArgumentsKept DEF HoldsFile
  <2>3. ImageHeld'
    BY <1>1, <1>6, <2>2 DEF ImageHeld, SegsWritten, HoldsFile
  <2>4. Tables'
    BY <1>1, <1>6, TablesKept DEF ImageInv
  <2> QED
    BY <1>1, <1>6, <2>3, <2>4, GoesOn DEF ImageStages, Loading, Stages, Started
<1> QED
  BY <1>1, <1>4, <1>5, <1>6 DEF Calls

LEMMA ImageWritten ==
  ASSUME SmallUserSpace, WellLinked, LoaderInv, LoaderInv', IInv, Aligned, LinkInv, ImageInv,
         WriteSegment
  PROVE  ImageInv'
<1> USE DEF ImageStages, Loading, Stages, Started
<1>1. /\ pc = "write" /\ UNCHANGED <<file, options, dyn>> /\ k \in Nat /\ k > 0
      /\ file.segs # <<>> /\ Len(file.segs) \in Nat
  BY LenTypes DEF WriteSegment, locals, ImageInv, LinkInv, Framed
<1>2. PICK now \in Nat \ {0} : now = k
  BY <1>1
<1>3. HoldsFile(now - 1, TRUE)
  BY <1>1, <1>2 DEF ImageInv, Held, ImageHeld, SegsWritten, HoldsFile
<1>4. \A a : Laid(now, a) <=> (now \in Loadable /\ FileByte(now, a)) \/ Laid(now - 1, a)
  BY LaidStep
<1>5. pc' \notin {"idle", "construct"} => Tables'
  BY <1>1, TablesKept DEF ImageInv
<1>6. ASSUME BytesHeld' = BytesHeld, NEW n \in Nat, n = SegsWritten',
             pc' \in {"write", "zero", "protect"}, pc' = "write" => k' > 0,
             \A a \in Addr : InImage(a) => (Laid(n, a) <=> Laid(now - 1, a))
      PROVE  ImageInv'
  <2>1. HoldsFile(n, TRUE)
    BY <1>3, <1>6 DEF HoldsFile
  <2>2. HoldsFile(n, TRUE)' /\ HoldsFile(n, FALSE)'
    BY <1>1, <1>6, <2>1, ImageHeldKept
  <2>3. ImageHeld'
    BY <1>6, <2>2 DEF ImageHeld, HoldsFile
  <2> QED
    BY <1>1, <1>5, <1>6, <2>3, GoesOn
<1>7. CASE k > Len(file.segs) /\ pc' = "protect" /\ k' = 1 /\ Quiet
  <2>1. PICK all \in Nat : all = Len(file.segs)
    BY <1>1
  <2>2. now - 1 \in Nat /\ now - 1 >= Len(file.segs)
    BY <1>1, <1>2, <1>7
  <2>3. \A a : Laid(now - 1, a) <=> Laid(all, a)
    BY <2>1, <2>2, LaidAll
  <2>4. SegsWritten' = all
    BY <1>1, <1>7, <2>1 DEF SegsWritten
  <2> QED
    BY <1>6, <1>7, <2>3, <2>4, CallBytes
<1>8. CASE k \in 1 .. Len(file.segs) \ Loadable /\ pc' = "write" /\ k' = k + 1 /\ Quiet
  <2>1. SegsWritten' = now /\ k' > 0 /\ \A a : Laid(now, a) <=> Laid(now - 1, a)
    BY <1>2, <1>4, <1>8 DEF SegsWritten
  <2> QED
    BY <1>2, <1>6, <1>8, <2>1, CallBytes
<1>9. CASE /\ k \in Loadable /\ k' = k
           /\ file.segs[k].filesz = 0 /\ pc' = "zero" /\ Quiet
  <2>1. \A a \in Addr : ~FileByte(now, a)
    <3>1. At(now) \in Addr
      BY <1>2, <1>9, AtLaid
    <3> QED
      BY <1>2, <1>9, <3>1 DEF FileByte, Addr
  <2>2. SegsWritten' = now /\ \A a \in Addr : Laid(now, a) <=> Laid(now - 1, a)
    BY <1>2, <1>4, <1>9, <2>1 DEF SegsWritten
  <2> QED
    BY <1>2, <1>6, <1>9, <2>2, CallBytes
<1>10. CASE Throw
  <2>1. pc' = "unwind" /\ result' # "fault"
    BY <1>1, <1>10 DEF Throw, vars, LoaderInv, Running
  <2> QED
    BY <1>1, <1>5, <2>1, UnwindKeeps
<1>11. CASE /\ k \in Loadable /\ k' = k /\ file.segs[k].filesz > 0
            /\ WriteTo(Biased(file.segs[k].vaddr), file.segs[k].filesz, "zero")
  <2> DEFINE g == At(now)
             n == file.segs[now].filesz
  <2>1. /\ g \in Addr /\ n \in Addr /\ now \in Loadable
        /\ g + n + GuestPage <= Mod
    <3>1. /\ g \in Addr /\ n \in Addr /\ file.segs[now].memsz \in Addr
          /\ n <= file.segs[now].memsz /\ g + file.segs[now].memsz + GuestPage <= Mod
      BY <1>2, <1>11, AtLaid
    <3> QED
      BY <1>2, <1>11, <3>1, UserSpace DEF Addr
  <2>2. WriteTo(g, n, "zero")
    BY <1>2, <1>11 DEF At
  <2>3. \A a \in Addr : a \in g .. g + n - 1 <=> FileByte(now, a)
    BY <2>1 DEF FileByte, Addr
  <2> HIDE DEF g, n
  <2>4. Granted(g, n, "w")
    BY <1>1, <2>1, WritableAtFirst
  <2>5. ~AccessFaults(g, n, "w")
    BY <2>1, <2>4, WriteSafe
  <2>6. CASE pc' = "unwind" /\ result' # "fault"
    BY <1>1, <1>5, <2>6, UnwindKeeps
  <2>7. CASE pc' = "zero" /\ BytesHeld' = BytesHeld \cup (g .. g + n - 1)
    <3>1. \A a \in Addr : a \in BytesHeld' <=> a \in BytesHeld \/ FileByte(now, a)
      BY <2>3, <2>7
    <3>2. HoldsFile(now, TRUE)'
      <4>1. ASSUME NEW a \in Addr, InImage(a)
            PROVE  a \in BytesHeld' <=> Laid(now, a)
        BY <1>3, <1>4, <2>1, <3>1, <4>1 DEF HoldsFile
      <4> QED
        BY <1>1, <4>1, ArgumentsKept DEF HoldsFile
    <3>3. SegsWritten' = now
      BY <1>2, <1>11, <2>7 DEF SegsWritten
    <3>4. ImageHeld'
      BY <2>7, <3>2, <3>3 DEF ImageHeld, HoldsFile
    <3> QED
      BY <1>1, <1>5, <2>7, <3>4, GoesOn
  <2> QED
    BY <2>1, <2>2, <2>5, <2>6, <2>7, WriteEnds
<1> QED
  BY <1>7, <1>8, <1>9, <1>10, <1>11 DEF WriteSegment

LEMMA ImageZeroed ==
  ASSUME SmallUserSpace, WellLinked, LoaderInv, LoaderInv', IInv, Aligned, LinkInv, ImageInv,
         ZeroSegment
  PROVE  ImageInv'
<1> USE DEF ImageStages, Loading, Stages, Started
<1>1. /\ pc = "zero" /\ UNCHANGED <<file, options, dyn>> /\ k \in Nat /\ k \in Loadable
      /\ file.segs # <<>> /\ k' = k + 1
  BY LenTypes DEF ZeroSegment, locals, LoaderInv, LinkInv, Framed
<1>2. PICK now \in Loadable : now = k /\ now \in Nat
  BY <1>1
<1>3. HoldsFile(now, TRUE)
  BY <1>1, <1>2 DEF ImageInv, Held, ImageHeld, SegsWritten, HoldsFile
<1>4. pc' \notin {"idle", "construct"} => Tables'
  BY <1>1, TablesKept DEF ImageInv
<1>5. ASSUME pc' = "write", \A a \in Addr : InImage(a) => (a \in BytesHeld' <=> a \in BytesHeld)
      PROVE  ImageInv'
  <2>1. SegsWritten' = SegsWritten /\ k' > 0
    BY <1>1, <1>5 DEF SegsWritten
  <2>2. ImageHeld'
    BY <1>1, <1>5, <2>1, ImageSame
  <2> QED
    BY <1>1, <1>4, <1>5, <2>1, <2>2, GoesOn
<1> DEFINE seg == file.segs[now]
           start == Add(At(now), seg.filesz)
           n == seg.memsz - seg.filesz
<1>6. /\ At(now) \in Addr /\ seg.memsz \in Addr /\ seg.filesz \in Addr
      /\ seg.filesz <= seg.memsz /\ At(now) + seg.memsz + GuestPage <= Mod
  BY AtLaid
<1>7. /\ start = At(now) + seg.filesz /\ start \in Addr /\ n \in Addr
      /\ start + n = At(now) + seg.memsz /\ start + n + GuestPage <= Mod
  <2>1. At(now) + seg.filesz < Mod
    BY <1>6, UserSpace DEF Addr
  <2>2. start = At(now) + seg.filesz /\ start \in Addr
    BY <1>6, <2>1, AddCases
  <2> HIDE DEF start
  <2> QED
    BY <1>6, <2>2, UserSpace DEF Addr
<1>8. CASE ~(n > 0) /\ pc' = "write" /\ Quiet
  BY <1>5, <1>8, CallBytes
<1>9. CASE n > 0 /\ Calls(ZeroOk(start, n),
                          AccessThrows(start, n) \/ AccessFaults(start, n, "w"), "write")
  <2>1. ASSUME NEW a \in Addr, InImage(a), a \in start .. start + n - 1
        PROVE  ~Laid(now, a)
    <3>1. At(now) <= a /\ a < At(now) + seg.memsz /\ ~(a < At(now) + seg.filesz)
      <4> HIDE DEF start, n
      <4> QED
        BY <1>6, <1>7, <2>1 DEF Addr
    <3>2. SUFFICES ASSUME NEW i \in Loadable, FileByte(i, a) PROVE FALSE
      BY DEF Laid
    <3>3. At(i) <= a /\ a < At(i) + file.segs[i].memsz
      <4>1. At(i) \in Addr /\ file.segs[i].memsz \in Addr /\ file.segs[i].filesz \in Addr
            /\ file.segs[i].filesz <= file.segs[i].memsz
        BY AtLaid
      <4> QED
        BY <3>2, <4>1 DEF FileByte, Addr
    <3>4. i = now
      BY <1>1, <3>1, <3>3, SegmentByte
    <3> QED
      BY <3>1, <3>2, <3>4 DEF FileByte
  <2> HIDE DEF start, n
  <2>2. Granted(start, n, "w")
    BY <1>1, <1>7, WritableAtFirst
  <2>3. ~AccessFaults(start, n, "w")
    BY <1>7, <2>2, WriteSafe
  <2>4. CASE AccessThrows(start, n) /\ pc' = "unwind"
    <3>1. result' # "fault"
      BY <2>4 DEF AccessThrows
    <3> QED
      BY <1>1, <1>4, <2>4, <3>1, UnwindKeeps
  <2>5. CASE ZeroOk(start, n) /\ pc' = "write"
    <3>1. BytesHeld' = BytesHeld \ (start .. start + n - 1)
      BY <1>7, <2>5, WriteBytes
    <3>2. \A a \in Addr : InImage(a) /\ a \in BytesHeld => Laid(now, a)
      BY <1>3 DEF HoldsFile
    <3> QED
      BY <1>5, <2>1, <2>5, <3>1, <3>2
  <2> QED
    BY <1>9, <2>3, <2>4, <2>5 DEF Calls
<1>10. \/ ~(n > 0) /\ pc' = "write" /\ Quiet
       \/ n > 0 /\ Calls(ZeroOk(start, n),
                         AccessThrows(start, n) \/ AccessFaults(start, n, "w"), "write")
  BY <1>2 DEF ZeroSegment, At
<1> QED
  BY <1>8, <1>9, <1>10

\* Permissions change no byte, and the headers are not in memory.
LEMMA ImageProtected ==
  ASSUME WellLinked, LoaderInv, LoaderInv', IInv, LinkInv, ImageInv,
         ProtectSegment \/ ProtectRelro
  PROVE  ImageInv'
<1> USE DEF ImageStages, Loading, Stages, Started
<1>1. /\ pc \in {"protect", "relro"} /\ UNCHANGED <<file, options, dyn>>
      /\ pc' \in {"protect", "headers", "relro", "stack", "unwind"}
      /\ file.segs # <<>>
  <2>1. ProtectSegment => pc = "protect" /\ UNCHANGED <<file, options, dyn>>
                          /\ pc' \in {"protect", "headers", "unwind"}
    BY DEF ProtectSegment, Calls, locals
  <2>2. ProtectRelro => pc = "relro" /\ UNCHANGED <<file, options, dyn>>
                        /\ pc' \in {"relro", "stack", "unwind"}
    BY DEF ProtectRelro, Calls, locals
  <2> QED
    BY <2>1, <2>2 DEF LinkInv, Framed
<1>2. BytesHeld' = BytesHeld /\ (pc' = "unwind" => result' # "fault")
  <2>1. ASSUME NEW g \in Addr, NEW n \in Addr, g + n <= TaskSize,
               NEW prot \in SUBSET {"r", "w", "x"}, ProtectOk(g, n, prot)
        PROVE  BytesHeld' = BytesHeld
    <3>1. g + n + GuestPage <= Mod
      BY <2>1, UserSpace DEF Addr
    <3> QED
      BY <2>1, <3>1, ProtectView DEF LinkInv, IInv, BytesHeld
  <2>2. ASSUME NEW g, NEW n, ProtectThrows(g, n)
        PROVE  BytesHeld' = BytesHeld /\ result' # "fault"
    BY <2>2, CallBytes DEF ProtectThrows
  <2>3. Quiet => BytesHeld' = BytesHeld
    BY CallBytes
  <2>4. ASSUME ProtectSegment PROVE BytesHeld' = BytesHeld /\ (pc' = "unwind" => result' # "fault")
    <3>1. CASE k \in Loadable
      <4> DEFINE g == Biased(file.segs[k].vaddr)
                 n == file.segs[k].memsz
      <4>1. /\ g \in Addr /\ n \in Addr /\ g + n <= TaskSize
            /\ file.segs[k].prot \in SUBSET {"r", "w", "x"}
        BY <3>1, AtLaid DEF At, Segment
      <4>2. Calls(ProtectOk(g, n, file.segs[k].prot), ProtectThrows(g, n), "protect") \/ Quiet
        BY <2>4, <3>1 DEF ProtectSegment
      <4>3. Calls(ProtectOk(g, n, file.segs[k].prot), ProtectThrows(g, n), "protect")
              => BytesHeld' = BytesHeld /\ (pc' = "unwind" => result' # "fault")
        <5> HIDE DEF g, n
        <5> QED
          BY <2>1, <2>2, <4>1 DEF Calls
      <4>4. Quiet => pc' # "unwind" \/ Calls(ProtectOk(g, n, file.segs[k].prot),
                                              ProtectThrows(g, n), "protect")
        BY <2>4, <3>1 DEF ProtectSegment
      <4> QED
        BY <2>3, <4>2, <4>3, <4>4
    <3>2. CASE k \notin Loadable
      <4>1. Quiet /\ pc' # "unwind"
        BY <2>4, <3>2 DEF ProtectSegment
      <4> QED
        BY <2>3, <4>1
    <3> QED
      BY <3>1, <3>2
  <2>5. ASSUME ProtectRelro PROVE BytesHeld' = BytesHeld /\ (pc' = "unwind" => result' # "fault")
    <3>1. CASE k \in Relro
      <4> DEFINE g == Biased(file.relro[k].vaddr)
                 n == file.relro[k].memsz
      <4>1. /\ g \in Addr /\ n \in Addr /\ g + n <= TaskSize
            /\ {"r"} \in SUBSET {"r", "w", "x"}
        BY <1>1, <3>1, LenTypes, RelroLaid
      <4>2. Calls(ProtectOk(g, n, {"r"}), ProtectThrows(g, n), "relro") \/ Quiet
        BY <2>5, <3>1 DEF ProtectRelro
      <4>3. Calls(ProtectOk(g, n, {"r"}), ProtectThrows(g, n), "relro")
              => BytesHeld' = BytesHeld /\ (pc' = "unwind" => result' # "fault")
        <5> HIDE DEF g, n
        <5> QED
          BY <2>1, <2>2, <4>1 DEF Calls
      <4>4. Quiet => pc' # "unwind" \/ Calls(ProtectOk(g, n, {"r"}), ProtectThrows(g, n), "relro")
        BY <2>5, <3>1 DEF ProtectRelro
      <4> QED
        BY <2>3, <4>2, <4>3, <4>4
    <3>2. CASE k \notin Relro
      <4>1. Quiet /\ pc' # "unwind"
        BY <2>5, <3>2 DEF ProtectRelro
      <4> QED
        BY <2>3, <4>1
    <3> QED
      BY <3>1, <3>2
  <2> QED
    BY <2>4, <2>5
<1>3. Tables'
  BY <1>1, TablesKept DEF ImageInv
<1>4. CASE pc' = "unwind"
  BY <1>1, <1>2, <1>3, <1>4, UnwindKeeps
<1>5. CASE pc' # "unwind"
  <2>1. SegsWritten' = SegsWritten
    BY <1>1, <1>5 DEF SegsWritten
  <2>2. ImageHeld'
    BY <1>1, <1>2, <1>5, <2>1, ImageSame
  <2> QED
    BY <1>1, <1>3, <1>5, <2>2, GoesOn
<1> QED
  BY <1>4, <1>5

(***************************************************************************)
(* Relocation.                                                             *)
(***************************************************************************)

\* A mapped byte is the image's, until there is a stack.
LEMMA MappedInImage ==
  ASSUME LinkInv, pc \in ImageStages \ Started, NEW b \in Addr, Perms[b] # {}
  PROVE  InImage(b)
  BY ShownNow DEF HasStack

\* .dynamic begins in the image.
LEMMA DynamicLaid ==
  ASSUME WellLinked, LoaderInv, file.segs # <<>>, file.dynamic # <<>>
  PROVE  LET at == Biased(dynamicHeader.vaddr)
         IN  at \in Addr /\ InImage(at)
<1> DEFINE d == dynamicHeader
           last == Len(file.dynamic)
<1>1. d \in ToSet(file.dynamic) /\ d.vaddr \in Addr
  <2>1. file.dynamic \in Seq(Dynamic)
    BY LenTypes, FileTypes
  <2>2. DOMAIN file.dynamic = 1 .. last /\ last \in DOMAIN file.dynamic
        /\ d = file.dynamic[last]
    BY <2>1 DEF dynamicHeader
  <2>3. d \in Dynamic
    BY <2>1, <2>2
  <2> QED
    BY <2>2, <2>3 DEF ToSet, Dynamic
<1>2. /\ LinkedAt(file, loadBias) /\ loadBias \in Addr
      /\ (d.vaddr + loadBias < Mod => Biased(d.vaddr) = d.vaddr + loadBias)
  BY <1>1, LenTypes, Bias
<1>3. PICK i \in Loadable :
        d.vaddr \in file.segs[i].vaddr .. file.segs[i].vaddr + file.segs[i].memsz - 1
  BY <1>1, <1>2 DEF LinkedAt, Loadable
<1>4. /\ file.segs[i].vaddr \in Addr /\ file.segs[i].memsz \in Addr
      /\ At(i) = file.segs[i].vaddr + loadBias /\ At(i) + file.segs[i].memsz <= TaskSize
  <2>1. i \in 1 .. Len(file.segs)
    BY DEF Loadable
  <2> QED
    BY <2>1, LenTypes, SegmentLaid DEF At, Segment
<1> HIDE DEF d
<1>5. /\ Biased(d.vaddr) = d.vaddr + loadBias /\ Biased(d.vaddr) \in Addr
      /\ At(i) <= Biased(d.vaddr) /\ Biased(d.vaddr) < At(i) + file.segs[i].memsz
  <2> DEFINE v == d.vaddr
             w == file.segs[i].vaddr
             m == file.segs[i].memsz
  <2>1. /\ v \in Nat /\ w \in Nat /\ m \in Nat /\ loadBias \in Nat /\ w <= v /\ v <= w + m - 1
        /\ w + loadBias + m <= TaskSize /\ At(i) = w + loadBias
    BY <1>1, <1>2, <1>3, <1>4 DEF Addr
  <2> HIDE DEF v, w, m
  <2>2. v + loadBias < Mod /\ v + loadBias \in Addr
        /\ w + loadBias <= v + loadBias /\ v + loadBias < w + loadBias + m
    BY <2>1, UserSpace DEF Addr
  <2> QED
    BY <1>2, <2>1, <2>2 DEF v, w, m
<1>6. InImage(Biased(d.vaddr))
  BY <1>5, SegmentByte
<1> QED
  BY <1>5, <1>6 DEF d

LEMMA ImageHeaders ==
  ASSUME WellLinked, LoaderInv, LoaderInv', LinkInv, ImageInv, ReadHeaders
  PROVE  ImageInv'
<1> USE DEF ImageStages, Loading, Stages, Started
<1>1. /\ pc = "headers" /\ UNCHANGED <<file, options, dyn>> /\ k' = k /\ k = 1
      /\ file.segs # <<>> /\ Quiet
      /\ pc' \in {"unwind", "walk", "relro"}
      /\ pc' = "walk" => file.dynamic # <<>>
  BY DEF ReadHeaders, Throw, Quiet, locals, LinkInv, Framed, isDynamic
<1>2. BytesHeld' = BytesHeld /\ result' = result
  BY <1>1, CallBytes DEF Quiet, vars
<1>3. Tables'
  BY <1>1, TablesKept DEF ImageInv
<1>4. CASE pc' = "unwind"
  BY <1>1, <1>2, <1>3, <1>4, UnwindKeeps DEF LoaderInv, Running
<1>5. CASE pc' # "unwind"
  <2>1. SegsWritten' = SegsWritten
    BY <1>1, <1>5 DEF SegsWritten
  <2>2. ImageHeld'
    BY <1>1, <1>2, <1>5, <2>1, ImageSame
  <2>3. Walked'
    <3>1. SUFFICES ASSUME pc' = "walk"
                   PROVE  Biased(dynamicHeader.vaddr) + (1 - 1) * DynSize <= loadHigh
      BY <1>1, LayoutKept DEF Walked, Biased, dynamicHeader
    <3>2. /\ Biased(dynamicHeader.vaddr) \in Addr /\ Biased(dynamicHeader.vaddr) < loadHigh
          /\ loadHigh \in Addr
      BY <1>1, <3>1, DynamicLaid, LenTypes, SpanTypes DEF InImage
    <3>3. DynSize \in Nat
      BY LoaderAssumption DEF Addr
    <3> QED
      BY <3>2, <3>3 DEF Addr
  <2> QED
    BY <1>1, <1>3, <1>5, <2>2, <2>3
       DEF LoaderInv, Running, ImageInv, Stacked, Held, HasStack
<1> QED
  BY <1>4, <1>5

LEMMA ImageWalked ==
  ASSUME SmallUserSpace, WellLinked, LoaderInv, LoaderInv', IInv, Aligned, LinkInv, ImageInv,
         WalkDynamic
  PROVE  ImageInv'
<1> USE DEF ImageStages, Loading, Stages, Started
<1> DEFINE base == Biased(dynamicHeader.vaddr)
           addr == Add(base, (k - 1) * DynSize)
           entry == DynEntry(k)
           stop == ~isMapped(addr, DynSize)
<1>1. /\ pc = "walk" /\ UNCHANGED <<file, options>> /\ k \in Nat /\ k > 0 /\ k' = k + 1
      /\ file.segs # <<>> /\ file.dynamic # <<>> /\ file \in Files /\ options \in Options
      /\ dyn' = IF stop THEN dyn ELSE Recorded(entry[1], entry[2])
      /\ \/ stop /\ pc' = "table" /\ Quiet
         \/ ~stop /\ ReadFrom(addr, DynSize, IF entry[1] = "NULL" THEN "table" ELSE "walk")
  BY LenTypes DEF WalkDynamic, LoaderInv, LinkInv, Framed
<1>2. /\ base \in Addr /\ DynSize \in Addr /\ DynSize \in Nat /\ DynSize <= GuestPage
      /\ 1 < DynSize
      /\ loadHigh \in Addr /\ loadHigh <= TaskSize
  BY <1>1, DynamicLaid, ImageLaid, LoaderAssumption DEF Addr
<1>3. base + (k - 1) * DynSize <= loadHigh
  BY <1>1 DEF ImageInv, Walked
<1>4. PICK offset \in Nat : offset = (k - 1) * DynSize /\ k * DynSize = offset + DynSize
  <2>1. (k - 1) * DynSize \in Nat /\ k * DynSize = (k - 1) * DynSize + DynSize
    BY <1>1, <1>2
  <2> QED
    BY <2>1
<1>5. /\ addr = base + offset /\ addr \in Addr /\ addr + DynSize + GuestPage <= Mod
  <2>1. base + offset <= TaskSize /\ base + offset < Mod /\ offset \in Addr
    BY <1>2, <1>3, <1>4, UserSpace DEF Addr
  <2>2. addr = base + offset /\ addr \in Addr
    BY <1>2, <1>4, <2>1, AddCases
  <2>3. TaskSize + 2 * GuestPage <= Mod
    BY <1>1, RoomAbove
  <2> HIDE DEF base, addr
  <2> QED
    BY <1>2, <2>1, <2>2, <2>3, UserSpace DEF Addr
<1>6. Tables'
  <2>1. TableAddrs' = TableAddrs /\ TableSizes' = TableSizes
        /\ pc' \notin {"idle", "construct"}
    <3>1. \A next : ReadFrom(addr, DynSize, next) => pc' \in {next, "unwind"}
      BY CallUnmoved
    <3> QED
      BY <1>1, <3>1, ArgumentsKept
  <2>2. /\ {dyn.rela, dyn.jmprel} \subseteq TableAddrs
        /\ {dyn.relasz, dyn.pltrelsz} \subseteq TableSizes
        /\ dyn \in [rela : Addr, relasz : Addr, relaent : Addr, jmprel : Addr, pltrelsz : Addr]
    BY DEF ImageInv, Tables, LoaderInv
  <2>3. ASSUME ~stop PROVE /\ {dyn'.rela, dyn'.jmprel} \subseteq TableAddrs
                           /\ {dyn'.relasz, dyn'.pltrelsz} \subseteq TableSizes
    <3>1. dyn' = Recorded(entry[1], entry[2])
      BY <1>1, <2>3
    <3>2. \/ entry[1] \notin {"RELA", "JMPREL", "RELASZ", "RELAENT", "PLTRELSZ"}
          \/ /\ entry[1] \in {"RELA", "JMPREL"} => Biased(entry[2]) \in TableAddrs
             /\ entry[1] \in {"RELASZ", "PLTRELSZ"} => entry[2] \in TableSizes
      <4> DEFINE entries == dynamicHeader.entries
      <4>1. dynamicHeader \in ToSet(file.dynamic) /\ entries \in Seq(STRING \X Addr)
        <5>1. file.dynamic \in Seq(Dynamic)
          BY <1>1, FileTypes
        <5>2. /\ DOMAIN file.dynamic = 1 .. Len(file.dynamic)
              /\ Len(file.dynamic) \in DOMAIN file.dynamic
              /\ dynamicHeader = file.dynamic[Len(file.dynamic)]
          BY <1>1, <5>1 DEF dynamicHeader
        <5>3. dynamicHeader \in Dynamic
          BY <5>1, <5>2
        <5> QED
          BY <5>2, <5>3 DEF ToSet, Dynamic
      <4>2. CASE k <= Len(entries)
        <5>1. entry = entries[k] /\ k \in 1 .. Len(entries)
          BY <1>1, <4>1, <4>2 DEF DynEntry
        <5>2. entry \in ToSet(entries)
          BY <4>1, <5>1 DEF ToSet
        <5> QED
          BY <4>1, <5>2 DEF TableAddrs, TableSizes, Tagged
      <4>3. CASE ~(k <= Len(entries))
        BY <4>3 DEF DynEntry
      <4> QED
        BY <4>2, <4>3
    <3> HIDE DEF entry
    <3> QED
      BY <2>2, <3>1, <3>2 DEF Recorded
  <2>4. CASE stop
    BY <1>1, <2>1, <2>2, <2>4 DEF Tables
  <2> HIDE DEF stop
  <2> QED
    BY <2>1, <2>3, <2>4 DEF Tables
<1>7. CASE stop /\ pc' = "table" /\ Quiet
  <2>1. SegsWritten' = SegsWritten /\ BytesHeld' = BytesHeld
    BY <1>1, <1>7, CallBytes DEF SegsWritten
  <2>2. ImageHeld'
    BY <1>1, <1>7, <2>1, ImageSame
  <2> QED
    BY <1>1, <1>6, <1>7, <2>2, GoesOn
<1>8. CASE ReadFrom(addr, DynSize, IF entry[1] = "NULL" THEN "table" ELSE "walk")
  <2> DEFINE next == IF entry[1] = "NULL" THEN "table" ELSE "walk"
  <2>1. ReadFrom(addr, DynSize, next) /\ next \in {"table", "walk"}
    BY <1>8
  <2> HIDE DEF next, addr
  <2>2. /\ BytesHeld' = BytesHeld
        /\ \/ pc' = "unwind" /\ result' = "throws"
           \/ /\ pc' = next /\ result' = "ok"
              /\ \A b \in addr .. addr + DynSize - 1 : b \in Addr /\ Perms[b] # {}
    BY <1>1, <1>2, <1>5, <2>1, ReadEnds
  <2>3. CASE pc' = "unwind" /\ result' = "throws"
    BY <1>1, <1>6, <2>3, UnwindKeeps
  <2>4. CASE pc' = next /\ \A b \in addr .. addr + DynSize - 1 : b \in Addr /\ Perms[b] # {}
    <3>1. SegsWritten' = SegsWritten
      BY <1>1, <2>1, <2>4 DEF SegsWritten
    <3>2. ImageHeld'
      BY <1>1, <2>1, <2>2, <2>4, <3>1, ImageSame
    <3>3. Walked'
      <4>1. addr + DynSize - 1 \in addr .. addr + DynSize - 1
        BY <1>2, <1>5 DEF Addr
      <4>2. PICK last \in Addr : last = addr + DynSize - 1 /\ Perms[last] # {}
        BY <2>4, <4>1
      <4>3. InImage(last)
        BY <1>1, <4>2, MappedInImage
      <4>4. base + k * DynSize <= loadHigh
        <5> HIDE DEF base
        <5> QED
          BY <1>2, <1>4, <1>5, <4>2, <4>3 DEF InImage, Addr
      <4>5. k' - 1 = k /\ loadHigh' = loadHigh /\ base' = base
        BY <1>1, LayoutKept DEF Biased, loadBias, dynamicHeader
      <4> QED
        BY <4>4, <4>5 DEF Walked
    <3> QED
      BY <1>1, <1>6, <2>1, <2>4, <3>2, <3>3
         DEF LoaderInv, Running, ImageInv, Stacked, Held, HasStack
  <2> QED
    BY <2>2, <2>3, <2>4
<1> QED
  BY <1>1, <1>7, <1>8

LEMMA ImageTable ==
  ASSUME LoaderInv', LinkInv, ImageInv, BeginTable
  PROVE  ImageInv'
<1> USE DEF ImageStages, Loading, Stages, Started
<1>1. /\ pc = "table" /\ UNCHANGED <<file, options, dyn>> /\ pc' \in {"relro", "entry"}
      /\ Quiet /\ k' = 1
  BY DEF BeginTable, locals
<1>2. SegsWritten' = SegsWritten /\ BytesHeld' = BytesHeld
  BY <1>1, CallBytes DEF SegsWritten
<1>3. ImageHeld'
  BY <1>1, <1>2, ImageSame
<1>4. Tables'
  BY <1>1, TablesKept DEF ImageInv
<1> QED
  BY <1>1, <1>3, <1>4, GoesOn

\* An entry of a table that lies in user space.
LEMMA EntryLaid ==
  ASSUME SmallUserSpace, WellLinked, LoaderInv, ImageInv, file.segs # <<>>,
         k > 0, k <= TableCount
  PROVE  EntryAddr \in Addr /\ EntryAddr + RelaSize + GuestPage <= Mod
<1> DEFINE t == TableAddr
           n == TableSize
           e == dyn.relaent
<1>1. /\ t \in TableAddrs /\ n \in TableSizes
      /\ t \in Addr /\ n \in Addr /\ e \in Addr /\ k \in Nat
      /\ t \in Nat /\ n \in Nat /\ e \in Nat
      /\ file \in Files /\ options \in Options
  BY LenTypes DEF ImageInv, Tables, LoaderInv, TableAddr, TableSize, Addr
<1>2. t # 0 /\ e > 0 /\ k <= n \div e
  BY <1>1 DEF TableCount
<1> HIDE DEF t, n, e
<1>3. PICK offset \in Nat : offset = (k - 1) * e /\ offset + e <= n
  <2>1. PICK q \in Nat : q = n \div e /\ q * e <= n
    <3>0. e \in Nat \ {0} /\ n \in Nat
      BY <1>1, <1>2
    <3>1. n = e * (n \div e) + (n % e) /\ n \div e \in Nat /\ n % e \in 0 .. e - 1
      BY ONLY <3>0, DivMod
    <3>2. PICK q \in Nat : q = n \div e
      BY <3>1
    <3>3. q \in Nat /\ q * e <= n
      BY <1>1, <1>2, <3>1, <3>2
    <3> QED
      BY <3>2, <3>3
  <2>2. PICK d \in Nat : q = k + d
    <3>1. q - k \in Nat /\ q = k + (q - k)
      BY <1>1, <1>2, <2>1
    <3> QED
      BY <3>1
  <2>3. d * e \in Nat /\ (k - 1) * e \in Nat
    BY <1>1
  <2>4. q * e = (k - 1) * e + e + d * e
    BY <1>1, <2>2
  <2> QED
    BY <1>1, <2>1, <2>3, <2>4
<1>4. n # 0
  BY <1>1, <1>2, <1>3
<1>5. PICK v \in Tagged(file, {"RELA", "JMPREL"}) : t = Biased(v)
  BY <1>1, <1>2 DEF TableAddrs
<1>6. n \in Tagged(file, {"RELASZ", "PLTRELSZ"})
  BY <1>1, <1>4 DEF TableSizes
<1>7. /\ loadBias \in Addr /\ LinkedAt(file, loadBias)
      /\ \A x \in Addr : x + loadBias < Mod => Biased(x) = x + loadBias
  BY <1>1, Bias
<1>8. v \in Addr
  <2>1. file.dynamic \in Seq(Dynamic)
    BY <1>1, FileTypes
  <2>2. \A d \in ToSet(file.dynamic) : d \in Dynamic
    BY <2>1 DEF ToSet
  <2>3. PICK d \in ToSet(file.dynamic) : \E x \in ToSet(d.entries) : v = x[2]
    BY <1>5 DEF Tagged
  <2>4. d.entries \in Seq(STRING \X Addr)
    BY <2>2, <2>3 DEF Dynamic
  <2>5. \A x \in ToSet(d.entries) : x \in STRING \X Addr
    BY <2>4 DEF ToSet
  <2> QED
    BY <2>3, <2>5
<1>9. v + loadBias + n <= TaskSize
  BY <1>5, <1>6, <1>7 DEF LinkedAt
<1>10. t + n <= TaskSize
  <2>1. v + loadBias < Mod
    BY <1>1, <1>7, <1>8, <1>9, UserSpace DEF Addr
  <2> QED
    BY <1>5, <1>7, <1>8, <1>9, <2>1
<1>11. Add(t, offset) = t + offset /\ Add(t, offset) \in Addr /\ t + offset <= TaskSize
  <2>0. t + offset <= TaskSize
    <3>1. TaskSize \in Nat
      BY UserSpace DEF Addr
    <3> QED
      BY <1>1, <1>2, <1>3, <1>10, <3>1
  <2>1. offset \in Addr /\ t + offset < Mod /\ t + offset <= TaskSize
    BY <1>1, <1>3, <2>0, UserSpace DEF Addr
  <2> QED
    BY <1>1, <2>1, AddCases
<1>12. EntryAddr = Add(t, offset)
  BY <1>3 DEF EntryAddr, t, e
<1>13. RelaSize <= GuestPage /\ RelaSize \in Nat /\ TaskSize + 2 * GuestPage <= Mod
  BY <1>1, RoomAbove, LoaderAssumption DEF Addr
<1> QED
  BY <1>1, <1>11, <1>12, <1>13, UserSpace

LEMMA ImageEntry ==
  ASSUME SmallUserSpace, WellLinked, LoaderInv, LoaderInv', IInv, Aligned, LinkInv, ImageInv,
         ReadEntry
  PROVE  ImageInv'
<1> USE DEF ImageStages, Loading, Stages, Started
<1>1. /\ pc = "entry" /\ UNCHANGED <<file, options, dyn, k>> /\ k > 0
      /\ file.segs # <<>>
      /\ \/ pc' = "table" /\ Quiet
         \/ k <= TableCount /\ ReadFrom(EntryAddr, RelaSize, "apply")
  <2>1. k \in Nat /\ TableCount \in Int
    <3>1. dyn \in [rela : Addr, relasz : Addr, relaent : Addr, jmprel : Addr, pltrelsz : Addr]
      BY DEF LoaderInv
    <3>2. TableSize \in Nat /\ dyn.relaent \in Nat
      BY <3>1, UserSpace DEF TableSize, Addr
    <3>3. dyn.relaent # 0 => TableSize \div dyn.relaent \in Int
      BY <3>2, DivMod
    <3> QED
      BY <3>3, LenTypes DEF TableCount
  <2> QED
    BY <2>1 DEF ReadEntry, ImageInv, LinkInv, Framed
<1>2. CASE pc' = "table" /\ Quiet
  <2>1. SegsWritten' = SegsWritten /\ BytesHeld' = BytesHeld
    BY <1>1, <1>2, CallBytes DEF SegsWritten
  <2>2. ImageHeld'
    BY <1>1, <1>2, <2>1, ImageSame
  <2>3. Tables'
    BY <1>1, <1>2, TablesKept DEF ImageInv
  <2> QED
    BY <1>1, <1>2, <2>2, <2>3, GoesOn
<1>3. CASE k <= TableCount /\ ReadFrom(EntryAddr, RelaSize, "apply")
  <2>1. EntryAddr \in Addr /\ EntryAddr + RelaSize + GuestPage <= Mod /\ RelaSize \in Addr
    BY <1>1, <1>3, EntryLaid, LoaderAssumption
  <2>2. BytesHeld' = BytesHeld /\ ((pc' = "unwind" /\ result' = "throws") \/ pc' = "apply")
    BY <1>1, <1>3, <2>1, ReadEnds
  <2>3. Tables'
    BY <1>1, <2>2, TablesKept DEF ImageInv
  <2>4. CASE pc' = "unwind" /\ result' = "throws"
    BY <1>1, <2>3, <2>4, UnwindKeeps
  <2>5. CASE pc' = "apply"
    <3>1. SegsWritten' = SegsWritten
      BY <1>1, <2>5 DEF SegsWritten
    <3>2. ImageHeld'
      BY <1>1, <2>2, <2>5, <3>1, ImageSame
    <3> QED
      BY <1>1, <2>3, <2>5, <3>2, GoesOn
  <2> QED
    BY <2>2, <2>4, <2>5
<1> QED
  BY <1>1, <1>2, <1>3

\* On the pages of a segment the permission is that segment's.
LEMMA ProtOfAlone ==
  ASSUME WellLinked, LoaderInv, NEW i \in Loadable, NEW b \in Addr,
         b \in Span(At(i), file.segs[i].memsz)
  PROVE  ProtOf(Len(file.segs), 0, b) = file.segs[i].prot
<1> DEFINE having == {h \in Loadable : h <= Len(file.segs) /\ SegCovers(h, b)}
<1>1. Loadable \subseteq 1 .. Len(file.segs) /\ Len(file.segs) \in Nat
      /\ Relro \subseteq 1 .. Len(file.relro) /\ Len(file.relro) \in Nat
  BY LenTypes DEF Loadable, Relro
<1>2. \A h \in Loadable : SegCovers(h, b) <=> b \in Span(At(h), file.segs[h].memsz)
  BY AtLaid, SpanMember DEF SegCovers, Covers, At
<1>3. \A h \in Loadable : SegCovers(h, b) => h = i
  BY <1>2, AtLaid
<1>4. having = {i}
  BY <1>1, <1>2, <1>3
<1>5. Max({i}) = i
  BY <1>1, MaxIs
<1>6. ~ \E j \in Relro : j <= 0 /\ RelroCovers(j, b)
  BY <1>1
<1> QED
  BY <1>4, <1>5, <1>6 DEF ProtOf

\* Where a relative relocation writes.
LEMMA WordLaid ==
  ASSUME SmallUserSpace, WellLinked, LoaderInv, file.segs # <<>>, NEW r \in file.relas,
         r.type = "RELATIVE"
  PROVE  /\ Biased(r.offset) \in Addr
         /\ Biased(r.offset) + WordSize + GuestPage <= Mod
         /\ InWritable(Biased(r.offset)) =>
              \E i \in Loadable :
                /\ "w" \in file.segs[i].prot
                /\ Biased(r.offset) .. Biased(r.offset) + WordSize - 1
                     \subseteq Span(At(i), file.segs[i].memsz)
<1> DEFINE o == r.offset
           t == Biased(o)
<1>1. file \in Files /\ options \in Options /\ o \in Addr
  BY LenTypes, FileTypes
<1>2. /\ loadBias \in Addr /\ LinkedAt(file, loadBias)
      /\ (o + loadBias < Mod => t = o + loadBias)
  BY <1>1, Bias
<1>3. o + loadBias <= TaskSize
  BY <1>2 DEF LinkedAt
<1>4. /\ WordSize <= GuestPage /\ WordSize \in Nat /\ TaskSize + 2 * GuestPage <= Mod
  BY <1>1, RoomAbove, LoaderAssumption DEF Addr
<1>5. t = o + loadBias /\ t \in Addr /\ t + WordSize + GuestPage <= Mod
  <2>1. o + loadBias < Mod /\ o + loadBias \in Addr
    BY <1>1, <1>2, <1>3, UserSpace DEF Addr
  <2>2. t = o + loadBias
    BY <1>2, <2>1
  <2> HIDE DEF t, o
  <2> QED
    BY <1>1, <1>2, <1>3, <1>4, <2>1, <2>2, UserSpace DEF Addr
<1>6. ASSUME InWritable(t)
      PROVE  \E i \in Loadable : /\ "w" \in file.segs[i].prot
                                 /\ t .. t + WordSize - 1 \subseteq Span(At(i), file.segs[i].memsz)
  <2>1. PICK i \in Loadable : /\ t \in At(i) .. At(i) + file.segs[i].memsz - 1
                              /\ "w" \in file.segs[i].prot
    BY <1>6 DEF InWritable, At
  <2>2. i \in 1 .. Len(file.segs)
    BY DEF Loadable
  <2>3. /\ At(i) = file.segs[i].vaddr + loadBias
        /\ file.segs[i].vaddr \in Addr /\ file.segs[i].memsz \in Addr
    BY <1>1, <2>2, SegmentLaid DEF At, Segment
  <2>4. o \in file.segs[i].vaddr .. file.segs[i].vaddr + file.segs[i].memsz - 1
    <3> DEFINE w == file.segs[i].vaddr
               m == file.segs[i].memsz
    <3>1. w \in Nat /\ m \in Nat /\ o \in Nat /\ loadBias \in Nat /\ t = o + loadBias
          /\ t \in w + loadBias .. w + loadBias + m - 1
      BY <1>1, <1>2, <1>5, <2>1, <2>3 DEF Addr
    <3> HIDE DEF w, m, o, t
    <3>2. o \in w .. w + m - 1
      BY <3>1
    <3> QED
      BY <3>2 DEF w, m, o
  <2>5. o + loadBias .. o + loadBias + WordSize - 1
          \subseteq MapStart(file.segs[i].vaddr + loadBias)
                      .. MapEnd(file.segs[i].vaddr + loadBias, file.segs[i].memsz) - 1
    BY <1>2, <2>1, <2>4 DEF LinkedAt, Loadable
  <2> QED
    BY <1>5, <2>1, <2>3, <2>5 DEF Span
<1> QED
  BY <1>5, <1>6

LEMMA ImageRelocated ==
  ASSUME SmallUserSpace, WellLinked, LoaderInv, LoaderInv', IInv, Aligned, LinkInv, ImageInv,
         ApplyEntry
  PROVE  ImageInv'
<1> USE DEF ImageStages, Loading, Stages, Started
<1> DEFINE targets == {Biased(r.offset) : r \in RelativeAt(EntryAddr)}
           mapped == {t \in targets : isMapped(t, WordSize)}
<1>1. /\ pc = "apply" /\ UNCHANGED <<file, options, dyn>> /\ k' = k + 1
      /\ file.segs # <<>> /\ k \in Nat
      /\ \/ \E t \in mapped : WriteTo(t, WordSize, "entry")
         \/ pc' = "entry" /\ Quiet
  BY LenTypes DEF ApplyEntry, LinkInv, Framed
<1>2. pc' \notin {"idle", "construct"} => Tables'
  BY <1>1, TablesKept DEF ImageInv
<1>3. CASE pc' = "entry" /\ Quiet
  <2>1. SegsWritten' = SegsWritten /\ BytesHeld' = BytesHeld
    BY <1>1, <1>3, CallBytes DEF SegsWritten
  <2>2. ImageHeld'
    BY <1>1, <1>3, <2>1, ImageSame
  <2> QED
    BY <1>1, <1>2, <1>3, <2>2, GoesOn
<1>4. ASSUME NEW t \in mapped, WriteTo(t, WordSize, "entry") PROVE ImageInv'
  <2>1. PICK r \in file.relas : r.type = "RELATIVE" /\ t = Biased(r.offset)
    BY DEF RelativeAt
  <2>2. t \in Addr /\ t + WordSize + GuestPage <= Mod /\ WordSize \in Addr
    BY <1>1, <2>1, WordLaid, LoaderAssumption
  <2>3. t .. t + WordSize - 1 \subseteq Relocated
    BY <2>1 DEF Relocated
  <2> HIDE DEF mapped
  <2>4. ASSUME Linked PROVE ~AccessFaults(t, WordSize, "w")
    <3>1. PICK i \in Loadable :
            /\ "w" \in file.segs[i].prot
            /\ t .. t + WordSize - 1 \subseteq Span(At(i), file.segs[i].memsz)
      BY <1>1, <2>1, <2>4, WordLaid DEF Linked
    <3>2. SegsDone = Len(file.segs) /\ RelroDone = 0 /\ ~HasStack
      BY <1>1 DEF SegsDone, RelroDone, HasStack
    <3>3. ASSUME NEW b \in t .. t + WordSize - 1 PROVE Perms[b] \subseteq {file.segs[i].prot}
      <4>1. b \in Addr
        BY <2>2, UserSpace DEF Addr
      <4>2. Perms[b] \subseteq {ProtOf(Len(file.segs), 0, b)}
        BY <1>1, <3>2, <4>1, ShownNow
      <4>3. b \in Span(At(i), file.segs[i].memsz)
        BY <3>1
      <4>4. ProtOf(Len(file.segs), 0, b) = file.segs[i].prot
        BY <4>1, <4>3, ProtOfAlone
      <4> QED
        BY <4>2, <4>4
    <3>4. Granted(t, WordSize, "w")
      BY <3>1, <3>3 DEF Granted, HostProtFor
    <3> QED
      BY <2>2, <3>4, WriteSafe
  <2>5. CASE /\ pc' = "unwind"
             /\ result' = "throws" \/ (result' = "fault" /\ AccessFaults(t, WordSize, "w"))
    BY <1>1, <1>2, <2>4, <2>5, UnwindKeeps
  <2>6. CASE pc' = "entry" /\ BytesHeld' = BytesHeld \cup (t .. t + WordSize - 1)
    <3>1. PICK n \in Nat : n = SegsWritten /\ HoldsFile(n, FALSE)
      BY <1>1 DEF ImageInv, Held, ImageHeld, HoldsFile
    <3>2. ASSUME NEW a \in Addr, InImage(a)
          PROVE  /\ Laid(n, a) => a \in BytesHeld'
                 /\ a \in BytesHeld' => Laid(n, a) \/ a \in Relocated
      BY <2>3, <2>6, <3>1, <3>2 DEF HoldsFile
    <3>3. HoldsFile(n, FALSE)'
      BY <1>1, <3>2, ArgumentsKept DEF HoldsFile
    <3>4. n = SegsWritten'
      BY <1>1, <2>6, <3>1 DEF SegsWritten
    <3>5. ImageHeld'
      BY <2>6, <3>3, <3>4 DEF ImageHeld, HoldsFile
    <3> QED
      BY <1>1, <1>2, <2>6, <3>5, GoesOn
  <2> QED
    BY <1>4, <2>2, <2>5, <2>6, WriteEnds
<1> QED
  BY <1>1, <1>3, <1>4

(***************************************************************************)
(* The stack.  Each push lands between the bottom of the stack and what is *)
(* already there, or throws.                                               *)
(***************************************************************************)

LEMMA StackNow ==
  ASSUME WellLinked, LoaderInv, LinkInv, HasStack
  PROVE  /\ low \in Addr /\ top \in Addr /\ top % GuestPage = 0
         /\ low \in Nat /\ top \in Nat /\ loadLow \in Nat /\ loadHigh \in Nat
         /\ low < top /\ top + GuestPage <= Mod
         /\ top <= loadLow \/ loadHigh <= low
         /\ StringsEnd \in Nat /\ StringsEnd <= top
         /\ StringsEnd = top - StringBytes[Len(Strings)]
         /\ RandomBytes + StackAlign + Slots * WordSize <= StringsEnd
         /\ cursor \in Addr /\ rsp \in Addr /\ cursor \in Nat /\ rsp \in Nat /\ k \in Nat
<1>1. /\ low \in Addr /\ top \in Addr /\ top % GuestPage = 0 /\ low < top
      /\ top <= loadLow \/ loadHigh <= low
      /\ StackBytes <= top
  BY DEF LinkInv, StackLaid
<1>2. loadLow \in Addr /\ loadHigh \in Addr
  BY LenTypes, SpanTypes DEF LinkInv, Framed, HasStack, Started, ImageStages, Loading, Stages
<1>3. top + GuestPage <= Mod
  BY <1>1, GuestRoom
<1>4. /\ StringsEnd \in Nat /\ StringsEnd <= top
      /\ RandomBytes + StackAlign + Slots * WordSize <= StringsEnd
  <2> DEFINE s == StringBytes[Len(Strings)]
             w == Slots * WordSize
             t == top
  <2>1. /\ s \in Nat /\ w \in Nat /\ RandomBytes \in Nat /\ StackAlign \in Nat
        /\ s + RandomBytes + StackAlign + w <= t /\ t \in Nat
    BY <1>1, StackBytesType DEF Addr
  <2> HIDE DEF s, w, t
  <2>2. t - s \in Nat /\ t - s <= t /\ RandomBytes + StackAlign + w <= t - s
    BY <2>1
  <2> QED
    BY <2>2 DEF StringsEnd, s, w, t
<1>5. cursor \in Addr /\ rsp \in Addr /\ k \in Nat
  BY DEF LoaderInv, LoaderTypeOK
<1> QED
  BY <1>1, <1>2, <1>3, <1>4, <1>5 DEF Addr, StringsEnd

LEMMA StackGoesOn ==
  ASSUME LoaderInv', UNCHANGED <<file, options>>, Tables', ImageHeld', StackHeld', Stacked',
         pc' \in Started
  PROVE  ImageInv'
  BY DEF LoaderInv, Running, ImageInv, Walked, Held, HasStack, Started,
         ImageStages, Loading, Stages

\* A push that reaches the top is let through only when there is a mapped page
\* above it, and that is the image's.
LEMMA StackBelow ==
  ASSUME WellLinked, LoaderInv, IInv, LinkInv, HasStack,
         NEW g \in Addr, NEW n \in Addr, n > 0, g + n = top, isMapped(g, n)
  PROVE  top <= loadLow
<1> DEFINE t == top
           last == GuestPageAlignUp(Add(g, n - 1))
<1>1. /\ t \in Addr /\ t \in Nat /\ t % GuestPage = 0 /\ t + GuestPage <= Mod /\ g + n = t
      /\ g \in Nat /\ n \in Nat /\ GuestPage \in Nat \ {0} /\ 1 < GuestPage
  <2>1. 1 < GuestPage
    BY LoaderAssumption, UserSpace DEF Addr
  <2> QED
    BY <2>1, StackNow, UserSpace DEF Addr
<1> HIDE DEF t
<1>2. Add(g, n - 1) = t - 1 /\ Add(g, n - 1) \in Addr
  <2>1. n - 1 \in Addr /\ g + (n - 1) = t - 1 /\ g + (n - 1) < Mod
    BY <1>1, UserSpace DEF Addr
  <2> QED
    BY <2>1, AddCases
<1>3. last \in Nat /\ last % GuestPage = 0 /\ t - 1 <= last
  <2>1. t - 1 + GuestPage - 1 < Mod
    BY <1>1, UserSpace
  <2> QED
    BY <1>2, <2>1, AlignUpPage DEF GuestPageAlignUp, Addr
<1>4. t <= last
  <2> HIDE DEF last
  <2>1. last < t => last + GuestPage <= t
    BY <1>1, <1>3, MultipleGap
  <2> QED
    BY <1>1, <1>3, <2>1
<1>5. GuestPageAlignDown(g) <= t
  <2>1. GuestPageAlignDown(g) \in Nat /\ GuestPageAlignDown(g) <= g
    BY <1>1, AlignDownPage DEF GuestPageAlignDown
  <2> QED
    BY <1>1, <2>1
<1>6. RegionsAt(t) # {}
  <2>1. t \in GuestPages
    BY <1>1 DEF GuestPages
  <2> HIDE DEF last
  <2> QED
    BY <1>4, <1>5, <2>1 DEF isMapped, last
<1>7. Perms[t] # {}
  <2>1. Perms[t] = {r.prot : r \in RegionsAt(t)}
    BY <1>1 DEF Perms
  <2>2. PICK r \in RegionsAt(t) : TRUE
    BY <1>6
  <2> QED
    BY <2>1, <2>2
<1>8. Perms[t] = IF InImage(t) THEN {ProtOf(SegsDone, RelroDone, t)}
                 ELSE IF HasStack /\ low <= t /\ t < top THEN {{"r", "w"}} ELSE {}
  <2>1. pc \in ImageStages
    BY DEF HasStack, Started, ImageStages, Loading, Stages
  <2> QED
    BY <1>1, <2>1, ShownNow
<1>9. InImage(t)
  BY <1>1, <1>7, <1>8 DEF t
<1> QED
  BY <1>9, StackNow DEF InImage, t

LEMMA StackWrite ==
  ASSUME WellLinked, LoaderInv, IInv, Aligned, LinkInv, ImageInv, HasStack,
         UNCHANGED <<file, options, dyn>>,
         NEW g \in Addr, NEW n \in Addr, n > 0, g + n <= top,
         g + n = top \/ top <= loadLow,
         NEW next \in Started, WriteTo(g, n, next)
  PROVE  \/ pc' = "unwind" /\ ImageInv'
         \/ /\ pc' = next /\ Tables' /\ ImageHeld'
            /\ top' = top /\ low' = low /\ loadLow' = loadLow /\ top <= loadLow
            /\ \A a \in Addr : low <= a /\ a < top =>
                 (a \in BytesHeld' <=> a \in Pushed \/ a \in g .. g + n - 1)
<1>1. /\ g \in Nat /\ n \in Nat /\ g + n + GuestPage <= Mod /\ pc \in ImageStages
      /\ Mod \in Nat /\ GuestPage \in Nat
  BY StackNow, UserSpace DEF Addr, HasStack, Started, ImageStages, Loading, Stages
<1>2. \A b \in g .. g + n - 1 : b \in Addr
  BY <1>1 DEF Addr
<1>3. AccessAccepted(g, n) => top <= loadLow
  BY StackBelow DEF AccessAccepted
<1>4. ~AccessFaults(g, n, "w")
  <2>1. SUFFICES ASSUME AccessFaults(g, n, "w") PROVE FALSE
    OBVIOUS
  <2>2. top <= loadLow
    BY <1>3, <2>1 DEF AccessFaults
  <2>3. \A b \in g .. g + n - 1 : Perms[b] \subseteq {{"r", "w"}}
    <3>1. \A b \in g .. g + n - 1 : ~InImage(b)
      BY <1>1, <2>2, StackNow DEF InImage
    <3> QED
      BY <1>1, <1>2, <3>1, ShownNow
  <2>4. Granted(g, n, "w")
    BY <2>3 DEF Granted, HostProtFor
  <2> QED
    BY <1>1, <2>1, <2>4, WriteSafe
<1>5. CASE pc' = "unwind" /\ result' = "throws"
  <2>1. Tables'
    BY <1>5, TablesKept DEF ImageInv
  <2> QED
    BY <1>5, <2>1, UnwindKeeps
<1>6. CASE /\ pc' = next /\ AccessAccepted(g, n)
           /\ BytesHeld' = BytesHeld \cup (g .. g + n - 1)
  <2>1. Tables'
    BY <1>6, TablesKept DEF ImageInv, Started
  <2>2. top' = top /\ low' = low /\ loadLow' = loadLow
    BY CallUnmoved, LayoutKept DEF object
  <2>3. top <= loadLow
    BY <1>3, <1>6
  <2>4. \A a \in Addr : InImage(a) => (a \in BytesHeld' <=> a \in BytesHeld)
    BY <1>1, <1>6, <2>3, StackNow DEF InImage, Addr
  <2>5. SegsWritten' = SegsWritten
    BY <1>6 DEF SegsWritten, HasStack, Started
  <2>6. ImageHeld'
    BY <1>1, <1>6, <2>4, <2>5, ImageSame DEF Started
  <2>7. \A a \in Addr : low <= a /\ a < top => (a \in BytesHeld <=> a \in Pushed)
    BY <1>1 DEF ImageInv, Held, StackHeld, InStack
  <2>8. \A a \in Addr : low <= a /\ a < top =>
          (a \in BytesHeld' <=> a \in Pushed \/ a \in g .. g + n - 1)
    BY <1>6, <2>7
  <2> QED
    BY <1>6, <2>1, <2>2, <2>3, <2>6, <2>8
<1> QED
  BY <1>1, <1>4, <1>5, <1>6, WriteEnds

LEMMA ImageStacked ==
  ASSUME SmallUserSpace, SmallHostPages, WellLinked, LoaderInv, LoaderInv', IInv, Aligned,
         LinkInv, LinkInv', ImageInv, MapStack
  PROVE  ImageInv'
<1> USE DEF ImageStages, Loading, Stages, Started
<1>1. /\ pc = "stack" /\ UNCHANGED <<file, options, dyn>> /\ live /\ k' = 1 /\ cursor' = top
      /\ file \in Files /\ options \in Options /\ TypeOK /\ Geometry
  BY LenTypes DEF MapStack, LoaderInv, LoaderTypeOK, IInv
<1>2. size \in Addr /\ size > 0 /\ low \in Addr /\ top \in Addr
  <2>1. size \in Addr /\ options.stackSize \in Nat /\ 0 < options.stackSize
        /\ options.stackSize <= size
    BY <1>1, StackSize
  <2> QED
    BY <1>1, <2>1, StackTypes DEF Addr
<1>3. \/ Throw
      \/ ~Overlap /\ MapOk(low, size, {"r", "w"}) /\ pc' = "push"
      \/ MapThrows(low, size) /\ pc' = "unwind"
  BY <1>2 DEF MapStack, Calls, EmptyCall
<1>4. CASE Throw \/ (MapThrows(low, size) /\ pc' = "unwind")
  <2>1. pc' = "unwind" /\ (result' = "fault" => ~Linked)
    BY <1>4 DEF Throw, vars, MapThrows, ImageInv
  <2>2. Tables'
    BY <1>1, <2>1, TablesKept DEF ImageInv
  <2> QED
    BY <1>1, <2>1, <2>2, UnwindKeeps
<1>5. CASE ~Overlap /\ MapOk(low, size, {"r", "w"}) /\ pc' = "push"
  <2>1. MapAccepted(low, size) /\ UNCHANGED <<live, object>>
    BY <1>5 DEF MapOk
  <2>2. /\ StackLaid /\ MapStart(low) = low /\ MapEnd(low, size) = top
        /\ low + size + GuestPage <= Mod
    BY <1>1, <1>5, <2>1, StackMapped DEF LinkInv
  <2>3. top' = top /\ low' = low /\ loadLow' = loadLow
    BY <1>1, <2>1, LayoutKept DEF object
  <2>4. BytesHeld' = BytesHeld \ Span(low, size)
    <3>1. PICK base \in Addr, bytes \in Addr : base = low /\ bytes = size
      BY <1>2
    <3>2. Contents(data)' = Contents(data) \ Span(base, bytes)
      BY <1>1, <1>5, <2>2, <3>1, MapView
    <3> QED
      BY <3>1, <3>2 DEF BytesHeld
  <2>5. \A a \in Addr : a \in BytesHeld' <=> a \in BytesHeld /\ ~(low <= a /\ a < top)
    BY <1>2, <2>2, <2>4, SpanMember
  <2>6. \A a \in Addr : InImage(a) => (a \in BytesHeld' <=> a \in BytesHeld)
    <3>1. loadLow \in Addr /\ loadHigh \in Addr
      BY <1>1, SpanTypes DEF LinkInv, Framed
    <3> QED
      BY <1>2, <2>2, <2>5, <3>1 DEF StackLaid, InImage, Addr
  <2>7. SegsWritten' = SegsWritten
    BY <1>1, <1>5 DEF SegsWritten
  <2>8. ImageHeld'
    BY <1>1, <1>5, <2>6, <2>7, ImageSame
  <2>9. Tables'
    BY <1>1, <1>5, TablesKept DEF ImageInv
  <2>10. Stacked'
    <3>1. Len(Strings) \in Nat \ {0} /\ StringBytes[0] = 0
      BY StringBytesType, StringBytesDef
    <3>2. top = top - StringBytes[1 - 1]
      BY <1>2, <3>1 DEF Addr
    <3>3. 1 <= Len(Strings) + 1
      BY <3>1
    <3>4. cursor' = top' - StringBytes[k' - 1]
      BY <1>1, <2>3, <3>2
    <3> QED
      BY <1>1, <1>5, <3>3, <3>4 DEF Stacked
  <2>11. StackHeld'
    <3>1. Pushed' = top .. top - 1
      BY <1>1, <1>5, <2>3 DEF Pushed
    <3>2. \A a : a \notin Pushed'
      BY <1>2, <3>1 DEF Addr
    <3> QED
      BY <2>3, <2>5, <3>2 DEF StackHeld, InStack
  <2> QED
    BY <1>1, <1>5, <2>8, <2>9, <2>10, <2>11, StackGoesOn
<1> QED
  BY <1>3, <1>4, <1>5

LEMMA ImageStrings ==
  ASSUME SmallUserSpace, WellLinked, LoaderInv, LoaderInv', IInv, Aligned, LinkInv, ImageInv,
         PushString
  PROVE  ImageInv'
<1> USE DEF Started, HasStack
<1>1. /\ pc = "push" /\ UNCHANGED <<file, options, dyn>> /\ k > 0
      /\ k <= Len(Strings) + 1 /\ cursor = top - StringBytes[k - 1]
      /\ k > 1 => top <= loadLow
  BY DEF PushString, LoaderInv, ImageInv, Stacked
<1>2. /\ low \in Nat /\ top \in Nat /\ k \in Nat /\ cursor \in Addr /\ cursor \in Nat
      /\ StringsEnd \in Nat /\ StringsEnd <= top
      /\ StringsEnd = top - StringBytes[Len(Strings)]
  BY <1>1, StackNow
<1>3. Len(Strings) \in Nat \ {0}
  BY StringBytesType
<1>4. CASE k > Len(Strings)
  <2>1. /\ pc' = "random" /\ UNCHANGED <<k, cursor>> /\ Quiet
        /\ k - 1 = Len(Strings) /\ k > 1
    BY <1>1, <1>2, <1>3, <1>4 DEF PushString
  <2>2. SegsWritten' = SegsWritten /\ BytesHeld' = BytesHeld
    BY <1>1, <2>1, CallBytes DEF SegsWritten
  <2>3. ImageHeld'
    BY <1>1, <2>1, <2>2, ImageSame DEF ImageStages, Loading, Stages
  <2>4. Tables'
    BY <1>1, <2>1, TablesKept DEF ImageInv
  <2>5. top' = top /\ low' = low /\ loadLow' = loadLow
    BY <1>1, <2>1, LayoutKept DEF Quiet, vars, object
  <2>6. StringsEnd' = StringsEnd
    BY <2>5 DEF StringsEnd
  <2>7. Stacked'
    BY <1>1, <2>1, <2>5, <2>6 DEF Stacked, StringsEnd
  <2>8. StackHeld'
    <3>1. Pushed' = Pushed
      BY <1>1, <2>1, <2>5 DEF Pushed
    <3>2. StackHeld
      BY <1>1 DEF ImageInv, Held, ImageStages, Loading, Stages
    <3> QED
      BY <2>2, <2>5, <3>1, <3>2 DEF StackHeld, InStack
  <2> QED
    BY <1>1, <2>1, <2>3, <2>4, <2>7, <2>8, StackGoesOn
<1>5. CASE ~(k > Len(Strings))
  <2> DEFINE n == Strings[k]
             g == Sub(cursor, n)
  <2>1. /\ k \in 1 .. Len(Strings) /\ n \in Addr /\ n \in Nat /\ n > 0
        /\ StringBytes[k] = StringBytes[k - 1] + n
        /\ StringBytes[k] \in Nat /\ StringBytes[k - 1] \in Nat
        /\ StringBytes[k] <= StringBytes[Len(Strings)] /\ StringBytes[Len(Strings)] \in Nat
    <3>1. k \in 1 .. Len(Strings) /\ k \in 0 .. Len(Strings) /\ k - 1 \in 0 .. Len(Strings)
          /\ Len(Strings) \in 0 .. Len(Strings) /\ k \in 0 .. Len(Strings)
      BY <1>1, <1>2, <1>3, <1>5
    <3>2. Strings[k] \in Addr \ {0} /\ StringBytes[k] = StringBytes[k - 1] + Strings[k]
      BY <3>1, StringBytesType
    <3>3. /\ StringBytes[k] \in Nat /\ StringBytes[k - 1] \in Nat
          /\ StringBytes[Len(Strings)] \in Nat
      BY <3>1, StringBytesType
    <3>4. StringBytes[k] <= StringBytes[Len(Strings)]
      BY <3>1, StringBytesGrow
    <3> QED
      BY <3>1, <3>2, <3>3, <3>4 DEF Addr
  <2>2. /\ pc' \in {"push", "unwind"} /\ cursor' = g /\ WriteTo(g, n, "push") /\ k' = k + 1
    BY <1>5, CallUnmoved DEF PushString
  <2> HIDE DEF n
  <2>3. n <= cursor
    BY <1>1, <1>2, <2>1
  <2>4. g = cursor - n /\ g \in Addr
    BY <1>2, <2>1, <2>3, SubCases
  <2> HIDE DEF g
  <2>5. /\ g \in Nat /\ g + n = cursor /\ g + n <= top /\ g = top - StringBytes[k]
        /\ (k = 1 => g + n = top) /\ (k # 1 => k > 1)
    <3> DEFINE before == StringBytes[k - 1]
               after == StringBytes[k]
               t == top
               c == cursor
    <3>1. k = 1 => before = 0
      <4>1. 0 \in 0 .. Len(Strings) /\ StringBytes[0] = 0
        BY StringBytesDef, <1>3
      <4> QED
        BY <4>1
    <3>2. /\ t \in Nat /\ c \in Nat /\ n \in Nat /\ before \in Nat /\ after \in Nat
          /\ c = t - before /\ after = before + n /\ g = c - n /\ n <= c
      BY <1>1, <1>2, <2>1, <2>3, <2>4
    <3> HIDE DEF before, after, t, c
    <3>3. g \in Nat /\ g + n = c /\ g + n <= t /\ g = t - after /\ (before = 0 => g + n = t)
      BY <3>2
    <3>4. k # 1 => k > 1
      BY <1>1, <1>2
    <3> QED
      BY <3>1, <3>3, <3>4 DEF t, c, after
  <2>6. \/ pc' = "unwind" /\ ImageInv'
        \/ /\ pc' = "push" /\ Tables' /\ ImageHeld'
           /\ top' = top /\ low' = low /\ loadLow' = loadLow /\ top <= loadLow
           /\ \A a \in Addr : low <= a /\ a < top =>
                (a \in BytesHeld' <=> a \in Pushed \/ a \in g .. g + n - 1)
    BY <1>1, <2>1, <2>2, <2>4, <2>5, StackWrite
  <2>7. CASE /\ pc' = "push" /\ Tables' /\ ImageHeld'
             /\ top' = top /\ low' = low /\ loadLow' = loadLow /\ top <= loadLow
             /\ \A a \in Addr : low <= a /\ a < top =>
                  (a \in BytesHeld' <=> a \in Pushed \/ a \in g .. g + n - 1)
    <3>1. k' - 1 = k /\ k' <= Len(Strings) + 1
      BY <1>2, <1>3, <2>1, <2>2
    <3>2. Stacked'
      BY <2>2, <2>5, <2>7, <3>1 DEF Stacked
    <3>3. Pushed = cursor .. top - 1 /\ Pushed' = g .. top - 1
      BY <1>1, <2>2, <2>7 DEF Pushed
    <3>4. \A a \in Addr : a \in Pushed' <=> a \in Pushed \/ a \in g .. g + n - 1
      <4> DEFINE t == top
                 c == cursor
      <4>1. /\ t \in Nat /\ c \in Nat /\ g \in Nat /\ n \in Nat /\ g + n = c /\ c <= t
            /\ Pushed = c .. t - 1 /\ Pushed' = g .. t - 1
        BY <1>2, <2>1, <2>5, <3>3
      <4> HIDE DEF t, c
      <4>2. \A a \in Nat : a \in g .. t - 1 <=> a \in c .. t - 1 \/ a \in g .. g + n - 1
        BY <4>1
      <4> QED
        BY <4>1, <4>2 DEF Addr
    <3>5. StackHeld'
      BY <2>7, <3>4 DEF StackHeld, InStack
    <3> QED
      BY <1>1, <2>7, <3>2, <3>5, StackGoesOn
  <2> QED
    BY <2>6, <2>7
<1> QED
  BY <1>4, <1>5

LEMMA ImageRandom ==
  ASSUME SmallUserSpace, WellLinked, LoaderInv, LoaderInv', IInv, Aligned, LinkInv, ImageInv,
         PushRandom
  PROVE  ImageInv'
<1> USE DEF Started, HasStack
<1> DEFINE c == cursor
           n == RandomBytes
           x == AlignDown(c, StackAlign)
           g == Sub(x, n)
           t == top
           e == StringsEnd
           al == StackAlign
<1>1. /\ pc = "random" /\ UNCHANGED <<file, options, dyn>>
      /\ top <= loadLow /\ cursor = StringsEnd
      /\ cursor' = g /\ WriteTo(g, n, "rsp")
  BY DEF PushRandom, ImageInv, Stacked
<1>2. /\ t \in Nat /\ c \in Addr /\ c \in Nat /\ e \in Nat /\ e <= t /\ t < Mod
      /\ n \in Nat /\ n > 0 /\ n \in Addr /\ al \in Nat \ {0} /\ n + al <= e
  <2> DEFINE w == Slots * WordSize
  <2>1. w \in Nat /\ n \in Nat \ {0} /\ al \in Nat \ {0} /\ n + al + w <= e
    BY <1>1, StackNow, StackBytesType
  <2>2. t \in Addr /\ t \in Nat /\ c \in Addr /\ c \in Nat /\ e \in Nat /\ e <= t
    BY <1>1, StackNow
  <2>3. n \in Addr
    BY LoaderAssumption
  <2> HIDE DEF w, n, al, e, t
  <2>4. n + al <= e
    BY <2>1, <2>2
  <2>5. t < Mod
    BY <2>2, UserSpace DEF Addr
  <2> QED
    BY <2>1, <2>2, <2>3, <2>4, <2>5
<1>3. x \in Nat /\ x <= c /\ c < x + al /\ x \in Addr
  BY <1>2, AlignDownPage, AlignDownAddr
<1>4. c = e
  BY <1>1
<1> HIDE DEF c, n, x, t, e, al
<1>5. n <= x
  BY <1>2, <1>3, <1>4
<1>6. g = x - n /\ g \in Addr
  BY <1>2, <1>3, <1>5, SubCases
<1> HIDE DEF g
<1>7. g \in Nat /\ g + n <= e /\ e < g + n + al /\ g + n <= t
  BY <1>2, <1>3, <1>4, <1>5, <1>6
<1>8. \/ pc' = "unwind" /\ ImageInv'
      \/ /\ pc' = "rsp" /\ Tables' /\ ImageHeld'
         /\ top' = top /\ low' = low /\ loadLow' = loadLow /\ top <= loadLow
         /\ \A a \in Addr : low <= a /\ a < top =>
              (a \in BytesHeld' <=> a \in Pushed \/ a \in g .. g + n - 1)
  <2>1. g + n <= top
    BY <1>7 DEF t
  <2> QED
    BY <1>1, <1>2, <1>6, <2>1, StackWrite
<1>9. CASE /\ pc' = "rsp" /\ Tables' /\ ImageHeld'
           /\ top' = top /\ low' = low /\ loadLow' = loadLow /\ top <= loadLow
           /\ \A a \in Addr : low <= a /\ a < top =>
                (a \in BytesHeld' <=> a \in Pushed \/ a \in g .. g + n - 1)
  <2>1. StringsEnd' = StringsEnd
    BY <1>9 DEF StringsEnd
  <2>2. Stacked'
    BY <1>1, <1>7, <1>9, <2>1 DEF Stacked, e, n, al
  <2>3. Pushed = e .. t - 1 /\ Pushed' = g .. g + n - 1 \cup e .. t - 1
    BY <1>1, <1>9, <2>1 DEF Pushed, t, e, n
  <2>4. StackHeld'
    BY <1>9, <2>3 DEF StackHeld, InStack
  <2> QED
    BY <1>1, <1>9, <2>2, <2>4, StackGoesOn
<1> QED
  BY <1>8, <1>9

LEMMA ImagePointer ==
  ASSUME SmallUserSpace, WellLinked, LoaderInv, LoaderInv', IInv, Aligned, LinkInv, ImageInv,
         SetRsp
  PROVE  ImageInv'
<1> USE DEF Started, HasStack
<1> DEFINE c == cursor
           n == RandomBytes
           w == Slots * WordSize
           v == Sub(c, w)
           g == AlignDown(v, StackAlign)
           e == StringsEnd
           al == StackAlign
           t == top
<1>1. /\ pc = "rsp" /\ UNCHANGED <<file, options, dyn, cursor>> /\ k' = 0 /\ rsp' = g
      /\ IF g < low THEN Throw ELSE pc' = "vector" /\ Quiet
  BY DEF SetRsp
<1>2. top <= loadLow /\ e < c + n + al /\ c + n <= e
  BY <1>1 DEF ImageInv, Stacked
<1>3. /\ t \in Nat /\ low \in Nat /\ c \in Addr /\ c \in Nat /\ e \in Nat /\ e <= t
      /\ w \in Nat /\ n \in Nat /\ al \in Nat \ {0} /\ n + al + w <= e /\ c < Mod
  <2>1. c \in Addr => c < Mod
    BY UserSpace DEF Addr
  <2> QED
    BY <1>1, <2>1, StackNow, StackBytesType
<1>4. UNCHANGED <<hostOffset, reservedHigh>> /\ result' = result /\ pc' \in {"unwind", "vector"}
  BY <1>1 DEF Throw, Quiet, vars, object
<1>5. top' = top /\ low' = low /\ loadLow' = loadLow
  BY <1>1, <1>4, LayoutKept
<1>6. Tables'
  BY <1>1, <1>4, TablesKept DEF ImageInv
<1>7. CASE pc' = "unwind"
  <2>1. result' = "fault" => ~Linked
    BY <1>4 DEF ImageInv
  <2> QED
    BY <1>1, <1>6, <1>7, <2>1, UnwindKeeps
<1>8. CASE pc' = "vector"
  <2>0. Quiet /\ ~(g < low)
    BY <1>1, <1>8 DEF Throw
  <2>1. w <= c
    <3> HIDE DEF c, n, w, e, al
    <3> QED
      BY <1>2, <1>3
  <2>2. v = c - w /\ v \in Nat
    <3>1. w \in Addr
      <4> HIDE DEF c, w
      <4> QED
        BY <1>3, <2>1, UserSpace DEF Addr
    <3> HIDE DEF c, w
    <3> QED
      BY <1>3, <2>1, <3>1, SubCases DEF Addr
  <2>3. g \in Nat /\ g <= v /\ g % al = 0
    BY <1>3, <2>2, AlignDownPage
  <2> HIDE DEF g, v
  <2>4. low <= g /\ g + w <= c
    <3> HIDE DEF c, w
    <3> QED
      BY <1>3, <2>0, <2>2, <2>3
  <2>5. StringsEnd' = StringsEnd
    BY <1>5 DEF StringsEnd
  <2>6. Stacked'
    <3>1. 0 <= Slots
      BY StackBytesType
    <3> QED
      BY <1>1, <1>2, <1>5, <1>8, <2>3, <2>4, <2>5, <3>1 DEF Stacked
  <2>7. SegsWritten' = SegsWritten /\ BytesHeld' = BytesHeld
    BY <1>1, <1>8, <2>0, CallBytes DEF SegsWritten
  <2>8. ImageHeld'
    BY <1>1, <1>8, <2>7, ImageSame DEF ImageStages, Loading, Stages
  <2>9. StackHeld'
    <3>1. /\ Pushed = {} \cup c .. c + n - 1 \cup e .. t - 1
          /\ Pushed' = g .. g + 0 * WordSize - 1 \cup c .. c + n - 1 \cup e .. t - 1
      BY <1>1, <1>5, <1>8, <2>5 DEF Pushed
    <3>2. 0 * WordSize = 0
      BY StackBytesType
    <3>3. \A a \in g .. g - 1 : FALSE
      BY <2>3
    <3>4. g .. g + 0 * WordSize - 1 = {}
      BY <2>3, <3>2
    <3>5. Pushed' = Pushed
      BY <3>1, <3>4
    <3>6. StackHeld
      BY <1>1 DEF ImageInv, Held, ImageStages, Loading, Stages
    <3> QED
      BY <1>5, <2>7, <3>5, <3>6 DEF StackHeld, InStack
  <2> QED
    BY <1>1, <1>6, <1>8, <2>6, <2>8, <2>9, StackGoesOn
<1> QED
  BY <1>4, <1>7, <1>8

LEMMA ImageVector ==
  ASSUME SmallUserSpace, WellLinked, LoaderInv, LoaderInv', IInv, Aligned, LinkInv, ImageInv,
         PushWord
  PROVE  ImageInv'
<1> USE DEF Started, HasStack
<1> DEFINE c == cursor
           n == RandomBytes
           w == Slots * WordSize
           e == StringsEnd
           t == top
<1>1. /\ pc = "vector" /\ UNCHANGED <<file, options, dyn, cursor, rsp>>
      /\ top <= loadLow /\ k <= Slots
      /\ StringsEnd < cursor + RandomBytes + StackAlign /\ cursor + RandomBytes <= StringsEnd
      /\ rsp % StackAlign = 0 /\ low <= rsp /\ rsp + Slots * WordSize <= cursor
  BY DEF PushWord, ImageInv, Stacked, locals
<1>2. /\ t \in Nat /\ low \in Nat /\ c \in Nat /\ e \in Nat /\ e <= t /\ k \in Nat
      /\ w \in Nat /\ n \in Nat /\ WordSize \in Nat \ {0} /\ Slots \in Nat
      /\ rsp \in Addr /\ rsp \in Nat /\ WordSize \in Addr /\ c < Mod
  <2>1. c \in Addr => c < Mod
    BY UserSpace DEF Addr
  <2>2. WordSize \in Addr
    BY LoaderAssumption
  <2> QED
    BY <1>1, <2>1, <2>2, StackNow, StackBytesType
<1>3. CASE k = Slots
  <2>1. pc' = "running" /\ UNCHANGED k /\ Quiet
    BY <1>3 DEF PushWord
  <2>2. SegsWritten' = SegsWritten /\ BytesHeld' = BytesHeld
    BY <1>1, <2>1, CallBytes DEF SegsWritten
  <2>3. ImageHeld'
    BY <1>1, <2>1, <2>2, ImageSame DEF ImageStages, Loading, Stages
  <2>4. Tables'
    BY <1>1, <2>1, TablesKept DEF ImageInv
  <2>5. top' = top /\ low' = low /\ loadLow' = loadLow
    BY <1>1, <2>1, LayoutKept DEF Quiet, vars, object
  <2>6. StringsEnd' = StringsEnd
    BY <2>5 DEF StringsEnd
  <2>7. Stacked'
    BY <1>1, <1>3, <2>1, <2>5, <2>6 DEF Stacked
  <2>8. StackHeld'
    <3>1. Pushed' = Pushed
      BY <1>1, <2>1, <2>5, <2>6 DEF Pushed
    <3>2. StackHeld
      BY <1>1 DEF ImageInv, Held, ImageStages, Loading, Stages
    <3> QED
      BY <2>2, <2>5, <3>1, <3>2 DEF StackHeld, InStack
  <2> QED
    BY <1>1, <2>1, <2>3, <2>4, <2>7, <2>8, StackGoesOn
<1>4. CASE k # Slots
  <2> DEFINE g == Add(rsp, k * WordSize)
  <2>1. WriteTo(g, WordSize, "vector") /\ k' = k + 1
    BY <1>4 DEF PushWord
  <2>2. PICK offset \in Nat : /\ offset = k * WordSize
                              /\ (k + 1) * WordSize = offset + WordSize
                              /\ offset + WordSize <= w
    <3>1. PICK d \in Nat : Slots = k + 1 + d
      <4>1. Slots - (k + 1) \in Nat /\ Slots = k + 1 + (Slots - (k + 1))
        BY <1>1, <1>2, <1>4
      <4> QED
        BY <4>1
    <3>2. k * WordSize \in Nat /\ d * WordSize \in Nat
      BY <1>2
    <3>3. Slots * WordSize = k * WordSize + WordSize + d * WordSize
      BY <1>2, <3>1
    <3>4. (k + 1) * WordSize = k * WordSize + WordSize
      BY <1>2
    <3>5. k * WordSize + WordSize <= w
      BY <1>2, <3>2, <3>3
    <3> QED
      BY <3>2, <3>4, <3>5
  <2>3. rsp + offset + WordSize <= c /\ rsp + offset + WordSize <= t
    <3>1. rsp + w <= c /\ c + n <= e
      BY <1>1
    <3> HIDE DEF c, n, w, e, t
    <3> QED
      BY <1>2, <2>2, <3>1
  <2>4. g = rsp + offset /\ g \in Addr
    <3>1. offset \in Addr /\ rsp + offset < Mod
      <4> HIDE DEF c, n, w, e, t
      <4> QED
        BY <1>2, <2>2, <2>3, UserSpace DEF Addr
    <3> QED
      BY <1>2, <2>2, <3>1, AddCases
  <2>5. \/ pc' = "unwind" /\ ImageInv'
        \/ /\ pc' = "vector" /\ Tables' /\ ImageHeld'
           /\ top' = top /\ low' = low /\ loadLow' = loadLow /\ top <= loadLow
           /\ \A a \in Addr : low <= a /\ a < top =>
                (a \in BytesHeld' <=> a \in Pushed \/ a \in g .. g + WordSize - 1)
    <3>1. g + WordSize <= top /\ WordSize > 0
      BY <1>2, <2>3, <2>4
    <3> HIDE DEF g
    <3> QED
      BY <1>1, <1>2, <2>1, <2>4, <3>1, StackWrite
  <2>6. CASE /\ pc' = "vector" /\ Tables' /\ ImageHeld'
             /\ top' = top /\ low' = low /\ loadLow' = loadLow /\ top <= loadLow
             /\ \A a \in Addr : low <= a /\ a < top =>
                  (a \in BytesHeld' <=> a \in Pushed \/ a \in g .. g + WordSize - 1)
    <3> HIDE DEF g
    <3>1. StringsEnd' = StringsEnd
      BY <2>6 DEF StringsEnd
    <3>2. k' <= Slots
      BY <1>1, <1>2, <1>4, <2>1
    <3>3. Stacked'
      BY <1>1, <2>6, <3>1, <3>2 DEF Stacked
    <3>4. /\ Pushed = (rsp .. rsp + k * WordSize - 1) \cup c .. c + n - 1 \cup e .. t - 1
          /\ Pushed' = (rsp .. rsp + (k + 1) * WordSize - 1) \cup c .. c + n - 1 \cup e .. t - 1
      BY <1>1, <2>1, <2>6, <3>1 DEF Pushed
    <3>5. \A a \in Nat : a \in rsp .. rsp + (k + 1) * WordSize - 1
                           <=> a \in rsp .. rsp + k * WordSize - 1 \/ a \in g .. g + WordSize - 1
      <4>1. \A a \in Nat : a \in rsp .. rsp + (offset + WordSize) - 1
                             <=> a \in rsp .. rsp + offset - 1 \/ a \in g .. g + WordSize - 1
        BY <1>2, <2>2, <2>4
      <4> QED
        BY <2>2, <4>1
    <3>6. \A a \in Addr : a \in Pushed' <=> a \in Pushed \/ a \in g .. g + WordSize - 1
      BY <3>4, <3>5 DEF Addr
    <3>7. StackHeld'
      BY <2>6, <3>6 DEF StackHeld, InStack
    <3> QED
      BY <1>1, <2>6, <3>3, <3>7, StackGoesOn
  <2> QED
    BY <2>5, <2>6
<1> QED
  BY <1>3, <1>4

(***************************************************************************)
(* Every step, and what the memory holds when the CPU starts.              *)
(***************************************************************************)

\* Before the image is mapped and when the object is gone there is nothing to
\* keep.
LEMMA ImageNone ==
  ASSUME LoaderInv', pc' \in {"idle", "construct", "map"}, dyn' = NoTables
  PROVE  ImageInv'
<1>1. Tables'
  BY DEF Tables, TableAddrs, TableSizes, NoTables
<1> QED
  BY <1>1 DEF LoaderInv, Running, ImageInv, Walked, Stacked, Held, ImageStages, Loading,
              Stages, Started

\* A step of something else than load.
LEMMA ImageAside ==
  ASSUME ImageInv, UNCHANGED <<object, regions, data, result, loaderVars>>
  PROVE  ImageInv'
<1>1. UNCHANGED <<hostOffset, reservedHigh, regions, data, result, pc, file, options, k, dyn,
                  cursor, rsp>>
  BY DEF object, loaderVars, locals
<1>2. /\ BytesHeld' = BytesHeld /\ top' = top /\ low' = low
      /\ loadLow' = loadLow /\ loadHigh' = loadHigh
      /\ Linked' <=> Linked
      /\ \A v : Biased(v)' = Biased(v)
  BY <1>1, BytesKept, LayoutKept, ArgumentsKept
<1>3. StringsEnd' = StringsEnd /\ Pushed' = Pushed /\ SegsWritten' = SegsWritten
  BY <1>1, <1>2 DEF StringsEnd, Pushed, SegsWritten
<1>4. Tables'
  BY <1>1, ArgumentsKept DEF ImageInv, Tables
<1>5. Walked'
  <2>1. Biased(dynamicHeader.vaddr)' = Biased(dynamicHeader.vaddr)
    BY <1>1 DEF Biased, loadBias, dynamicHeader
  <2> QED
    BY <1>1, <1>2, <2>1 DEF ImageInv, Walked
<1>6. Stacked'
  BY <1>1, <1>2, <1>3 DEF ImageInv, Stacked
<1>7. Held'
  <2>1. SUFFICES ASSUME pc \in ImageStages PROVE ImageHeld' /\ (HasStack => StackHeld')
    BY <1>1 DEF Held, HasStack
  <2>2. ImageHeld'
    BY <1>1, <1>2, <1>3, <2>1, ImageSame
  <2>3. HasStack => StackHeld'
    BY <1>1, <1>2, <1>3, <2>1 DEF ImageInv, Held, StackHeld, InStack
  <2> QED
    BY <2>2, <2>3
<1> QED
  BY <1>1, <1>2, <1>4, <1>5, <1>6, <1>7 DEF ImageInv

LEMMA ImageOtherSteps ==
  ASSUME LoaderInv, LoaderInv', ImageInv,
         \/ Begin \/ ConstructMemory \/ Unwind \/ Release
         \/ HostStep /\ UNCHANGED loaderVars
         \/ UNCHANGED allVars
  PROVE  ImageInv'
<1>1. CASE Begin
  <2>1. pc = "idle" /\ pc' \in {"construct", "idle"} /\ dyn' = dyn
    BY <1>1 DEF Begin, locals
  <2> QED
    BY <2>1, ImageNone DEF ImageInv, Tables
<1>2. CASE ConstructMemory
  <2>1. pc = "construct" /\ pc' \in {"map", "idle"} /\ dyn' = dyn
    BY <1>2 DEF ConstructMemory, locals
  <2> QED
    BY <2>1, ImageNone DEF ImageInv, Tables
<1>3. CASE Unwind \/ Release
  <2>1. pc' = "idle" /\ dyn' = NoTables
    BY <1>3 DEF Unwind, Release, Reset
  <2> QED
    BY <2>1, ImageNone
<1>4. CASE HostStep /\ UNCHANGED loaderVars
  <2>1. UNCHANGED <<object, regions, data, result, loaderVars>>
    BY <1>4 DEF HostStep, HostMaps, HostUnmaps
  <2> QED
    BY <2>1, ImageAside
<1>5. CASE UNCHANGED allVars
  <2>1. UNCHANGED <<object, regions, data, result, loaderVars>>
    BY <1>5 DEF allVars, vars, kernel
  <2> QED
    BY <2>1, ImageAside
<1> QED
  BY <1>1, <1>2, <1>3, <1>4, <1>5

LEMMA ImageStep ==
  ASSUME SmallUserSpace, SmallHostPages, WellLinked, LoaderInv, LoaderInv', IInv, Aligned,
         LinkInv, LinkInv', ImageInv, [LoaderNext]_allVars
  PROVE  ImageInv'
<1>1. CASE LoadStep
  BY <1>1, ImageMapped, ImageWritten, ImageZeroed, ImageProtected, ImageHeaders, ImageWalked,
     ImageTable, ImageEntry, ImageRelocated, ImageStacked, ImageStrings, ImageRandom,
     ImagePointer, ImageVector, ImageOtherSteps
     DEF LoadStep
<1> QED
  BY <1>1, ImageOtherSteps DEF LoaderNext

LEMMA ImageStart == LoaderInit => ImageInv /\ Aligned
<1> SUFFICES ASSUME LoaderInit PROVE ImageInv /\ Aligned
  OBVIOUS
<1>1. pc = "idle" /\ dyn = NoTables /\ result # "fault" /\ regions = {}
  BY DEF LoaderInit, Init
<1>2. Tables
  BY <1>1 DEF Tables, TableAddrs, TableSizes, NoTables
<1> QED
  BY <1>1, <1>2 DEF ImageInv, Walked, Stacked, Held, ImageStages, Loading, Stages, Started,
                    Aligned

LEMMA ImageInvariant ==
  AnyClient /\ SmallUserSpace /\ SmallHostPages /\ WellLinked
    => (LoaderSpec => [](LoaderInv /\ IInv /\ LinkInv /\ Aligned /\ ImageInv))
<1> SUFFICES ASSUME AnyClient, SmallUserSpace, SmallHostPages, WellLinked
             PROVE  LoaderSpec => [](LoaderInv /\ IInv /\ LinkInv /\ Aligned /\ ImageInv)
  OBVIOUS
<1> DEFINE Base == LoaderInv /\ IInv /\ LinkInv
<1>1. LoaderSpec => []Base
  BY LinkInvariant
<1>2. Base /\ Base' /\ Aligned /\ ImageInv /\ [LoaderNext]_allVars => Aligned' /\ ImageInv'
  <2>1. SUFFICES ASSUME Base, Base', Aligned, ImageInv, [LoaderNext]_allVars
                 PROVE  Aligned' /\ ImageInv'
    OBVIOUS
  <2>2. [Next]_vars
    BY <2>1, LoaderStep DEF IInv
  <2>3. Aligned'
    BY <2>1, <2>2, AlignedByNext
  <2> QED
    BY <2>1, <2>3, ImageStep
<1>3. LoaderInit => Aligned /\ ImageInv
  BY ImageStart
<1>4. Base /\ Aligned /\ ImageInv => LoaderInv /\ IInv /\ LinkInv /\ Aligned /\ ImageInv
  OBVIOUS
<1> HIDE DEF Base
<1> QED
  BY <1>1, <1>2, <1>3, <1>4, PTL DEF LoaderSpec

\* Loading a file that relocates no word of a read-only segment never kills the
\* process: no read, write or zero of a load, whatever the layout and whatever
\* throws on the way, touches a page without the access, relocations being
\* applied before relro and no page being shared by two segments
\* (GuestMemory.cpp:304-306, "perfectly loadable binaries").
THEOREM Loadable_NeverFaults ==
  AnyClient /\ SmallUserSpace /\ SmallHostPages /\ WellLinked
    => (LoaderSpec => []LoadableNeverFaults)
<1> SUFFICES ASSUME AnyClient, SmallUserSpace, SmallHostPages, WellLinked
             PROVE  LoaderSpec => []LoadableNeverFaults
  OBVIOUS
<1>1. ImageInv => LoadableNeverFaults
  BY DEF ImageInv, LoadableNeverFaults
<1> QED
  BY <1>1, ImageInvariant, PTL

\* In the memory the guest sees, a mapped byte holds data when its host byte does.
LEMMA SeenOnHost ==
  ASSUME LinkInv, pc = "running", NEW a \in Addr, InImage(a) \/ InStack(a)
  PROVE  a \in BytesHeld <=> toHost(a) \in data
<1>1. HasStack /\ pc \in ImageStages
  BY DEF HasStack, Started, ImageStages, Loading, Stages
<1>2. Perms[a] # {}
  BY <1>1, ShownNow DEF InStack
<1>3. Perms[a] = {r.prot : r \in RegionsAt(a)}
  BY DEF Perms
<1>4. RegionsAt(a) # {}
  BY <1>2, <1>3
<1> QED
  BY <1>4 DEF BytesHeld, Contents

LEMMA FileBytes ==
  ASSUME WellLinked, LoaderInv, file.segs # <<>>, NEW a \in Addr
  PROVE  HasFileByte(a) <=> Laid(Len(file.segs), a)
<1> DEFINE having == {i \in Loadable :
                        LET s == file.segs[i]
                        IN  /\ a >= Biased(s.vaddr)
                            /\ a < Biased(s.vaddr) + Max({s.filesz, s.memsz})}
<1>1. ASSUME NEW i \in Loadable
      PROVE  /\ Max({file.segs[i].filesz, file.segs[i].memsz}) = file.segs[i].memsz
             /\ At(i) \in Nat /\ file.segs[i].memsz \in Nat /\ file.segs[i].filesz \in Nat
             /\ file.segs[i].filesz <= file.segs[i].memsz
  <2> DEFINE f == file.segs[i].filesz
             m == file.segs[i].memsz
  <2>1. f \in Nat /\ m \in Nat /\ f <= m /\ At(i) \in Nat
    BY AtLaid DEF Addr
  <2> HIDE DEF f, m
  <2>2. Max({f, m}) = m
    <3>1. {f, m} \in SUBSET Int /\ \A x \in {f, m} : x <= m
      BY <2>1
    <3> QED
      BY <3>1, MaxIs
  <2> QED
    BY <2>1, <2>2 DEF f, m
<1>2. having = {i \in Loadable : At(i) <= a /\ a < At(i) + file.segs[i].memsz}
  BY <1>1 DEF At, Addr
<1>3. ASSUME NEW i \in having PROVE having = {i} /\ Max(having) = i
  <2>1. i \in Loadable /\ At(i) <= a /\ a < At(i) + file.segs[i].memsz
    BY <1>2
  <2>2. \A j \in having : j = i
    BY <1>2, <2>1, SegmentByte
  <2>3. having = {i}
    BY <2>2
  <2>4. i \in Int
    BY <2>1, LenTypes DEF Loadable
  <2>5. Max({i}) = i
    BY <2>4, MaxIs
  <2> QED
    BY <2>3, <2>5
<1>4. HasFileByte(a) <=> having # {} /\ a < At(Max(having)) + file.segs[Max(having)].filesz
  BY DEF HasFileByte, At
<1> HIDE DEF having
<1>5. \A i \in Loadable : FileByte(i, a) => i \in having
  <2> SUFFICES ASSUME NEW i \in Loadable, FileByte(i, a) PROVE i \in having
    OBVIOUS
  <2> DEFINE f == file.segs[i].filesz
             m == file.segs[i].memsz
             g == At(i)
  <2>1. f \in Nat /\ m \in Nat /\ f <= m /\ g \in Nat /\ g <= a /\ a < g + f /\ a \in Nat
    <3>1. f \in Nat /\ m \in Nat /\ f <= m /\ g \in Nat
      BY <1>1
    <3>2. g <= a /\ a < g + f
      BY DEF FileByte
    <3>3. a \in Nat
      BY UserSpace DEF Addr
    <3> QED
      BY <3>1, <3>2, <3>3
  <2> HIDE DEF f, m, g
  <2>2. a < g + m
    BY <2>1
  <2> QED
    BY <1>2, <2>1, <2>2 DEF g, m
<1>6. \A i \in Loadable : i <= Len(file.segs)
  BY LenTypes DEF Loadable
<1>7. ASSUME HasFileByte(a) PROVE Laid(Len(file.segs), a)
  <2>1. PICK i \in having : TRUE
    BY <1>4, <1>7
  <2>2. Max(having) = i /\ i \in Loadable /\ At(i) <= a
    BY <1>2, <1>3
  <2> QED
    BY <1>4, <1>6, <1>7, <2>2 DEF Laid, FileByte
<1>8. ASSUME Laid(Len(file.segs), a) PROVE HasFileByte(a)
  <2>1. PICK i \in Loadable : FileByte(i, a)
    BY <1>8 DEF Laid
  <2>2. i \in having /\ Max(having) = i
    BY <1>3, <1>5, <2>1
  <2> QED
    BY <1>4, <2>1, <2>2 DEF FileByte
<1> QED
  BY <1>7, <1>8

LEMMA ImageIsIntact ==
  ASSUME WellLinked, LoaderInv, LinkInv, ImageInv
  PROVE  ImageIntact
<1> SUFFICES ASSUME pc = "running", NEW a \in loadLow .. loadHigh - 1
             PROVE  /\ HasFileByte(a) => toHost(a) \in data
                    /\ toHost(a) \in data => HasFileByte(a) \/ a \in Relocated
  BY DEF ImageIntact
<1>1. file.segs # <<>> /\ pc \in ImageStages
  BY DEF LinkInv, Framed, ImageStages, Loading, Stages
<1>2. a \in Addr /\ InImage(a)
  <2>1. loadLow \in Addr /\ loadHigh \in Addr
    BY <1>1, LenTypes, SpanTypes
  <2>2. loadLow \in Nat /\ loadHigh \in Nat /\ loadHigh < Mod
    BY <2>1, UserSpace DEF Addr
  <2>3. a \in Nat /\ loadLow <= a /\ a < loadHigh
    BY <2>2
  <2> QED
    BY <2>2, <2>3, UserSpace DEF Addr, InImage
<1>3. Len(file.segs) = SegsWritten
  BY DEF SegsWritten
<1>4. HoldsFile(Len(file.segs), FALSE)
  <2>1. PICK n \in Nat : n = SegsWritten /\ HoldsFile(n, pc \in {"write", "zero"})
    BY <1>1 DEF ImageInv, Held, ImageHeld
  <2> QED
    BY <1>3, <2>1 DEF HoldsFile
<1>5. /\ Laid(Len(file.segs), a) => a \in BytesHeld
      /\ a \in BytesHeld => Laid(Len(file.segs), a) \/ a \in Relocated
  BY <1>2, <1>4 DEF HoldsFile
<1> QED
  BY <1>1, <1>2, <1>5, FileBytes, SeenOnHost

\* When the CPU starts, every byte of the image is the file's, a relocated word
\* or zero, wherever the file, the stack and the window are placed: the stack's
\* map and its pushes stay out of the image, and no segment's write, .bss or
\* relocation overwrites another's bytes (ElfMapper.cpp, GuestStack.cpp).
THEOREM Image_Intact ==
  AnyClient /\ SmallUserSpace /\ SmallHostPages /\ WellLinked => (LoaderSpec => []ImageIntact)
<1> SUFFICES ASSUME AnyClient, SmallUserSpace, SmallHostPages, WellLinked
             PROVE  LoaderSpec => []ImageIntact
  OBVIOUS
<1>1. LoaderInv /\ LinkInv /\ ImageInv => ImageIntact
  BY ImageIsIntact
<1> QED
  BY <1>1, ImageInvariant, PTL

LEMMA StackIsWellFormed ==
  ASSUME WellLinked, LoaderInv, LinkInv, ImageInv
  PROVE  StackWellFormed
<1> DEFINE vectorEnd == rsp + Slots * WordSize
           randomEnd == cursor + RandomBytes
           written == rsp .. vectorEnd - 1 \cup cursor .. randomEnd - 1
                        \cup StringsEnd .. top - 1
<1> SUFFICES ASSUME pc = "running"
             PROVE  /\ rsp % StackAlign = 0
                    /\ low <= rsp
                    /\ vectorEnd <= cursor
                    /\ randomEnd <= StringsEnd
                    /\ {a \in low .. top - 1 : toHost(a) \in data} = written
  <2>1. randomEnd - 1 = cursor + RandomBytes - 1
    BY StackBytesType DEF LoaderInv, LoaderTypeOK, Addr
  <2> HIDE DEF randomEnd
  <2> QED
    BY <2>1 DEF StackWellFormed, StringsEnd, randomEnd
<1>1. HasStack /\ pc \in ImageStages
  BY DEF HasStack, Started, ImageStages, Loading, Stages
<1>2. /\ rsp % StackAlign = 0 /\ low <= rsp /\ vectorEnd <= cursor /\ k = Slots
      /\ randomEnd <= StringsEnd
  BY DEF ImageInv, Stacked, Started
<1>3. /\ low \in Nat /\ top \in Nat /\ top < Mod /\ StringsEnd \in Nat /\ StringsEnd <= top
      /\ cursor \in Nat /\ rsp \in Nat
  <2>1. top \in Addr => top < Mod
    BY UserSpace DEF Addr
  <2> QED
    BY <1>1, <2>1, StackNow
<1>4. /\ vectorEnd \in Nat /\ randomEnd \in Nat /\ rsp <= vectorEnd /\ cursor <= randomEnd
      /\ vectorEnd - 1 = rsp + k * WordSize - 1
      /\ randomEnd - 1 = cursor + RandomBytes - 1
  <2>1. RandomBytes \in Nat /\ Slots * WordSize \in Nat /\ k * WordSize = Slots * WordSize
    BY <1>2, StackBytesType
  <2> QED
    BY <1>3, <2>1
<1> HIDE DEF vectorEnd, randomEnd
<1>5. Pushed = written
  BY <1>4 DEF Pushed
<1>6. written \subseteq low .. top - 1
  <2> DEFINE t == top
             e == StringsEnd
             v == vectorEnd
             r == randomEnd
  <2>1. /\ t \in Nat /\ e \in Nat /\ e <= t /\ low <= rsp /\ v <= cursor /\ r <= e
        /\ low \in Nat /\ rsp \in Nat /\ cursor \in Nat /\ v \in Nat /\ r \in Nat
        /\ rsp <= v /\ cursor <= r
    BY <1>2, <1>3, <1>4
  <2>2. written = rsp .. v - 1 \cup cursor .. r - 1 \cup e .. t - 1
    OBVIOUS
  <2> HIDE DEF written, v, t, e, r
  <2>3. rsp .. v - 1 \subseteq low .. t - 1
    BY <2>1
  <2>4. cursor .. r - 1 \subseteq low .. t - 1
    BY <2>1
  <2>5. e .. t - 1 \subseteq low .. t - 1
    BY <2>1
  <2> QED
    BY <2>2, <2>3, <2>4, <2>5 DEF t
<1>7. \A a \in low .. top - 1 : toHost(a) \in data <=> a \in written
  <2> SUFFICES ASSUME NEW a \in low .. top - 1 PROVE toHost(a) \in data <=> a \in written
    OBVIOUS
  <2>1. a \in Addr /\ InStack(a)
    BY <1>3, UserSpace DEF InStack, Addr
  <2>2. a \in BytesHeld <=> a \in Pushed
    BY <1>1, <2>1 DEF ImageInv, Held, StackHeld
  <2> QED
    BY <1>5, <2>1, <2>2, SeenOnHost
<1>8. {a \in low .. top - 1 : toHost(a) \in data} = written
  <2> HIDE DEF written
  <2> QED
    BY <1>6, <1>7
<1> QED
  BY <1>2, <1>8

\* When the CPU starts, rsp is aligned and from it upwards lie, inside the stack
\* and without overlap, the vector, the random bytes and the strings, every one
\* of their bytes written and no other of the stack (GuestStack.cpp), whatever
\* the strings, the number of slots and the size asked for.
THEOREM Stack_WellFormed ==
  AnyClient /\ SmallUserSpace /\ SmallHostPages /\ WellLinked
    => (LoaderSpec => []StackWellFormed)
<1> SUFFICES ASSUME AnyClient, SmallUserSpace, SmallHostPages, WellLinked
             PROVE  LoaderSpec => []StackWellFormed
  OBVIOUS
<1>1. LoaderInv /\ LinkInv /\ ImageInv => StackWellFormed
  BY StackIsWellFormed
<1> QED
  BY <1>1, ImageInvariant, PTL

\* With host pages of the guest's size, a page the running guest may write is
\* writable on the host (GuestMemory.h:101-103): the host pages LoaderWide finds
\* read-only under a writable guest page need a larger host page.
THEOREM GuestWrites_ReachHost ==
  AnyClient /\ SmallUserSpace /\ SmallHostPages /\ WellLinked
    => (LoaderSpec => []GuestWritesReachHost)
<1> SUFFICES ASSUME AnyClient, SmallUserSpace, SmallHostPages, WellLinked
             PROVE  LoaderSpec => []GuestWritesReachHost
  OBVIOUS
<1>1. LinkInv => GuestWritesReachHost
  <2> SUFFICES ASSUME LinkInv, NEW a \in Addr, NEW prot \in ProtsAt(a), "w" \in prot
               PROVE  "w" \in hprot[HostPageOf(toHost(a))]
    BY DEF GuestWritesReachHost
  <2>1. Perms[a] = {r.prot : r \in RegionsAt(a)}
    BY DEF Perms
  <2>2. prot \in Perms[a]
    BY <2>1 DEF ProtsAt
  <2>3. hprot[HostPageOf(toHost(a))] = HostProtFor(prot)
    BY <2>2 DEF LinkInv, Hosted
  <2> QED
    BY <2>3 DEF HostProtFor
<1> QED
  BY <1>1, LinkInvariant, PTL
=============================================================================
