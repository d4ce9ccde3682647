------------------------- MODULE GuestMemoryProofs -------------------------
(***************************************************************************)
(* The safety of GuestMemory for every address space, page size, image and *)
(* sequence of calls: the object keeps its window, takes nothing from the  *)
(* rest of the process and, in biased mode, claims nothing outside the     *)
(* window.  The argument is IInv: what the constructor establishes about   *)
(* the window and the one offset (Geometry) is what makes "inside the      *)
(* reservation", a comparison of GUEST addresses, imply that MAP_FIXED     *)
(* replaces only HOST pages of the window (InsideStaysInWindow).           *)
(* The second half is about the regions: what isMapped lets through is      *)
(* backed by pages the object has (Aligned, Backed, MapCovers).             *)
(***************************************************************************)
EXTENDS GuestMemoryClient, TLAPS

(***************************************************************************)
(* The alignment helpers of GuestMemory.cpp:30-37, for every page size and *)
(* every size of the address space.                                        *)
(***************************************************************************)

\* Division with remainder.
LEMMA DivMod ==
  ASSUME NEW v \in Nat, NEW a \in Nat \ {0}
  PROVE  /\ v = a * (v \div a) + (v % a)
         /\ v \div a \in Nat
         /\ v % a \in 0 .. a - 1
  BY SMT

\* A multiple is the product of its quotient.
LEMMA AlignedProduct ==
  ASSUME NEW v \in Nat, NEW a \in Nat \ {0}, v % a = 0
  PROVE  v = a * (v \div a) /\ v \div a \in Nat
  BY DivMod

\* A product is a multiple of its factor.
LEMMA ProductAligned ==
  ASSUME NEW x \in Int, NEW a \in Nat \ {0}, NEW k \in Int, x = a * k
  PROVE  x % a = 0
  BY SMT

\* Two different multiples of a are at least a apart: there is no page
\* boundary strictly between a page and the next one.
LEMMA MultipleGap ==
  ASSUME NEW x \in Nat, NEW y \in Nat, NEW a \in Nat \ {0},
         x % a = 0, y % a = 0, x < y
  PROVE  x + a <= y
<1> DEFINE i == x \div a
           j == y \div a
<1>1. i \in Nat /\ j \in Nat /\ x = a * i /\ y = a * j
  BY DivMod
<1>2. i < j
  <2>1. SUFFICES ASSUME j <= i PROVE FALSE
    BY <1>1
  <2>2. a * j <= a * i
    BY <1>1, <2>1
  <2> QED
    BY <1>1, <2>2
<1>3. a * (i + 1) <= a * j
  BY <1>1, <1>2
<1>4. a * (i + 1) = a * i + a
  BY <1>1
<1> QED
  BY <1>1, <1>3, <1>4

\* alignDown answers the page that holds the address.
LEMMA AlignDownPage ==
  ASSUME NEW v \in Nat, NEW a \in Nat \ {0}
  PROVE  /\ AlignDown(v, a) \in Nat
         /\ AlignDown(v, a) <= v
         /\ v < AlignDown(v, a) + a
         /\ AlignDown(v, a) % a = 0
<1>1. AlignDown(v, a) = a * (v \div a)
  BY DivMod DEF AlignDown
<1>2. v \div a \in Int
  BY DivMod
<1>3. AlignDown(v, a) % a = 0
  BY <1>1, <1>2, ProductAligned
<1> QED
  BY <1>3, DivMod DEF AlignDown

\* alignDown is the largest aligned address not above its argument.
LEMMA AlignDownLargest ==
  ASSUME NEW v \in Nat, NEW x \in Nat, NEW a \in Nat \ {0},
         x % a = 0, x <= v
  PROVE  x <= AlignDown(v, a)
<1>1. SUFFICES ASSUME AlignDown(v, a) < x PROVE FALSE
  BY AlignDownPage
<1>2. AlignDown(v, a) + a <= x
  BY <1>1, AlignDownPage, MultipleGap
<1> QED
  BY <1>2, AlignDownPage

\* The wrapping sum of two addresses.
LEMMA AddCases ==
  ASSUME NEW x \in Addr, NEW y \in Addr
  PROVE  /\ Add(x, y) \in Addr
         /\ Add(x, y) = IF x + y < Mod THEN x + y ELSE x + y - Mod
  BY PagingAssumption DEF Add, Addr

\* The wrapping difference of two addresses.
LEMMA SubCases ==
  ASSUME NEW x \in Addr, NEW y \in Addr
  PROVE  /\ Sub(x, y) \in Addr
         /\ Sub(x, y) = IF y <= x THEN x - y ELSE x - y + Mod
  BY PagingAssumption DEF Sub, Addr

\* A page is smaller than the address space, and the last address that is
\* aligned is one page below its end.
LEMMA PageBelowMod ==
  ASSUME NEW a \in {GuestPage, HostPage}
  PROVE  /\ a \in Nat \ {0}
         /\ a <= Mod
         /\ a - 1 \in Addr
<1>1. GuestPage <= HostPage
  <2>1. HostPage % GuestPage = 0 /\ 0 % GuestPage = 0
    BY PagingAssumption
  <2> QED
    BY <2>1, PagingAssumption, MultipleGap
<1> QED
  BY <1>1, PagingAssumption DEF Addr

\* An aligned address leaves room for its whole page.
LEMMA AlignedRoom ==
  ASSUME NEW x \in Addr, x % HostPage = 0
  PROVE  x + HostPage <= Mod
<1>1. x \in Nat /\ x < Mod
  BY PagingAssumption DEF Addr
<1>2. Mod \in Nat /\ HostPage \in Nat \ {0} /\ Mod % HostPage = 0
  BY PagingAssumption
<1> QED
  BY <1>1, <1>2, MultipleGap

\* alignDown of an address is an address.
LEMMA AlignDownAddr ==
  ASSUME NEW v \in Addr, NEW a \in Nat \ {0}
  PROVE  AlignDown(v, a) \in Addr
  BY AlignDownPage, PagingAssumption DEF Addr

\* alignUp of an address is an aligned address: not below it, or zero
\* because the sum wrapped.
LEMMA AlignUpPage ==
  ASSUME NEW v \in Addr, NEW a \in {GuestPage, HostPage}
  PROVE  /\ AlignUp(v, a) \in Addr
         /\ AlignUp(v, a) % a = 0
         /\ v + a - 1 < Mod => v <= AlignUp(v, a) /\ AlignUp(v, a) < v + a
         /\ Mod <= v + a - 1 => AlignUp(v, a) = 0
<1> DEFINE s == Add(v, a - 1)
<1>0. a \in Nat \ {0} /\ a <= Mod /\ a - 1 \in Addr
  BY PageBelowMod
<1>1. s \in Addr /\ s = IF v + (a - 1) < Mod THEN v + (a - 1) ELSE v + (a - 1) - Mod
  BY <1>0, AddCases
<1>2. s \in Nat
  BY <1>1 DEF Addr
<1>3. AlignUp(v, a) = AlignDown(s, a)
  BY DEF AlignUp
<1>4. /\ AlignDown(s, a) \in Nat
      /\ AlignDown(s, a) <= s
      /\ s < AlignDown(s, a) + a
      /\ AlignDown(s, a) % a = 0
  BY <1>0, <1>2, AlignDownPage
<1>5. ASSUME Mod <= v + a - 1 PROVE AlignUp(v, a) = 0
  <2>1. s < a
    BY <1>0, <1>1, <1>5, PagingAssumption DEF Addr
  <2>2. 0 % a = 0
    BY <1>0
  <2>3. ASSUME 0 < AlignDown(s, a) PROVE 0 + a <= AlignDown(s, a)
    BY <2>2, <2>3, <1>0, <1>4, MultipleGap
  <2> QED
    BY <2>1, <2>3, <1>0, <1>2, <1>3, <1>4
<1> QED
  BY <1>0, <1>1, <1>3, <1>4, <1>5, PagingAssumption DEF Addr

\* alignUp never passes an aligned bound.
LEMMA AlignUpBelow ==
  ASSUME NEW v \in Addr, NEW x \in Addr, NEW a \in {GuestPage, HostPage},
         x % a = 0, v <= x
  PROVE  AlignUp(v, a) <= x
<1>0. a \in Nat \ {0}
  BY PageBelowMod
<1>1. CASE Mod <= v + a - 1
  BY <1>1, AlignUpPage DEF Addr
<1>2. CASE v + a - 1 < Mod
  <2>1. /\ AlignUp(v, a) \in Nat /\ AlignUp(v, a) % a = 0 /\ AlignUp(v, a) < v + a
    BY <1>2, AlignUpPage DEF Addr
  <2>2. ASSUME x < AlignUp(v, a) PROVE FALSE
    <3>1. x + a <= AlignUp(v, a)
      BY <1>0, <2>1, <2>2, MultipleGap DEF Addr
    <3> QED
      BY <1>0, <2>1, <3>1 DEF Addr
  <2> QED
    BY <2>1, <2>2 DEF Addr
<1> QED
  BY <1>0, <1>1, <1>2, PagingAssumption DEF Addr

(***************************************************************************)
(* The invariant.                                                          *)
(***************************************************************************)

\* What the constructor fixes: an aligned window inside user space and a
\* reservation that is the window seen through the offset.
Geometry ==
  live =>
    /\ windowBase % HostPage = 0
    /\ windowBase + windowSize <= TaskSize
    /\ reservedLow % HostPage = 0
    /\ reservedHigh % HostPage = 0
    /\ reservedHigh = Add(reservedLow, windowSize)
    /\ hostOffset = Sub(windowBase, reservedLow)

\* Without an object no page belongs to one.
Unowned == ~live => \A p \in HostPages : owner[p] # "guest"

IInv ==
  /\ TypeOK
  /\ Geometry
  /\ WindowHeld
  /\ Unowned
  /\ BiasedInsideWindow

\* The sum and difference of two aligned addresses, wrapped, are aligned.
LEMMA AddAligned ==
  ASSUME NEW x \in Addr, NEW y \in Addr,
         x % HostPage = 0, y % HostPage = 0
  PROVE  Add(x, y) % HostPage = 0
<1> DEFINE i == x \div HostPage
           j == y \div HostPage
           m == Mod \div HostPage
<1>1. HostPage \in Nat \ {0} /\ Mod \in Nat /\ x \in Nat /\ y \in Nat
      /\ Mod % HostPage = 0
  BY PagingAssumption DEF Addr
<1>2. i \in Nat /\ x = HostPage * i
  BY <1>1, AlignedProduct
<1>3. j \in Nat /\ y = HostPage * j
  BY <1>1, AlignedProduct
<1>4. m \in Nat /\ Mod = HostPage * m
  BY <1>1, AlignedProduct
<1> HIDE DEF i, j, m
<1>5. x + y = HostPage * (i + j) /\ i + j \in Int /\ x + y \in Int
  BY <1>1, <1>2, <1>3
<1>6. x + y - Mod = HostPage * (i + j - m) /\ i + j - m \in Int /\ x + y - Mod \in Int
  BY <1>1, <1>2, <1>3, <1>4
<1>7. (x + y) % HostPage = 0
  BY <1>1, <1>5, ProductAligned
<1>8. (x + y - Mod) % HostPage = 0
  BY <1>1, <1>6, ProductAligned
<1> QED
  BY <1>7, <1>8, AddCases

\* The pieces of a map's rounding are addresses.
LEMMA RoundingTypes ==
  ASSUME NEW g \in Addr, NEW n \in Addr, hostOffset \in Addr
  PROVE  /\ MapStart(g) \in Addr
         /\ MapEnd(g, n) \in Addr
         /\ MapSize(g, n) \in Addr
         /\ HostBase(g) \in Addr
         /\ HostBase(g) % HostPage = 0
         /\ HostBase(g) <= MapStart(g)
         /\ HostSize(g, n) \in Addr
         /\ Desired(g) \in Addr
<1>1. MapStart(g) \in Addr
  BY AlignDownAddr, PageBelowMod DEF MapStart, GuestPageAlignDown
<1>2. MapEnd(g, n) \in Addr
  BY AddCases, AlignUpPage DEF MapEnd, GuestPageAlignUp
<1>3. HostPage \in Nat \ {0} /\ MapStart(g) \in Nat
  BY <1>1, PagingAssumption DEF Addr
<1>4. HostBase(g) \in Addr /\ HostBase(g) % HostPage = 0 /\ HostBase(g) <= MapStart(g)
  BY <1>1, <1>3, AlignDownAddr, AlignDownPage DEF HostBase
<1>5. AlignUp(MapEnd(g, n), HostPage) \in Addr
  BY <1>2, AlignUpPage
<1> QED
  BY <1>1, <1>2, <1>4, <1>5, AddCases, SubCases DEF MapSize, HostSize, Desired

\* A range that isAddressable accepts and whose guest bounds are inside the
\* reservation is backed by pages of the window only, although it is rounded
\* out to host pages and every sum on the way may wrap.
LEMMA InsideStaysInWindow ==
  ASSUME TypeOK, Geometry, live,
         NEW g \in Addr, NEW n \in Addr,
         insideReservation(g, n),
         isAddressable(MapStart(g), MapSize(g, n)),
         UserRange(Desired(g), HostSize(g, n))
  PROVE  PageRange(Desired(g), HostSize(g, n)) \subseteq Window
<1> DEFINE st == MapStart(g)
           en == MapEnd(g, n)
           hb == HostBase(g)
           he == AlignUp(en, HostPage)
           low == reservedLow
           high == reservedHigh
           wb == windowBase
           ws == windowSize
<1>1. /\ st \in Addr /\ en \in Addr /\ hb \in Addr /\ hb <= st
      /\ low \in Addr /\ high \in Addr /\ wb \in Addr /\ ws \in Addr
      /\ hostOffset \in Addr
  BY RoundingTypes DEF TypeOK
<1>2. low <= st /\ en <= high
  BY DEF insideReservation
<1>3. HostPage \in Nat \ {0} /\ Mod \in Nat \ {0} /\ TaskSize \in Nat
      /\ TaskSize + HostPage <= Mod
  BY PagingAssumption
<1>4. low <= hb
  <2>1. low \in Nat /\ st \in Nat /\ low % HostPage = 0
    BY <1>1 DEF Addr, Geometry
  <2> QED
    BY <2>1, <1>2, <1>3, AlignDownLargest DEF HostBase
<1>5. he \in Addr /\ he <= high
  <2>1. high % HostPage = 0
    BY DEF Geometry
  <2> QED
    BY <1>1, <1>2, <2>1, AlignUpPage, AlignUpBelow
<1>6. en <= he
  <2>1. high + HostPage <= Mod
    BY <1>1, AlignedRoom DEF Geometry
  <2>2. en + HostPage - 1 < Mod
    BY <2>1, <1>1, <1>2, <1>3 DEF Addr
  <2> QED
    BY <1>1, <2>2, AlignUpPage
<1>7. /\ hostOffset = IF low <= wb THEN wb - low ELSE wb - low + Mod
      /\ high = IF low + ws < Mod THEN low + ws ELSE low + ws - Mod
      /\ wb + ws <= TaskSize
  BY <1>1, AddCases, SubCases DEF Geometry
<1>8. /\ Desired(g) = IF hb + hostOffset < Mod THEN hb + hostOffset
                                               ELSE hb + hostOffset - Mod
      /\ HostSize(g, n) = IF hb <= he THEN he - hb ELSE he - hb + Mod
  BY <1>1, <1>5, AddCases, SubCases DEF Desired, HostSize
<1>9. Desired(g) + HostSize(g, n) <= TaskSize
  BY DEF UserRange
<1>10. isIdentity => hb <= he
  <2>1. SUFFICES ASSUME isIdentity, he < hb PROVE FALSE
    BY <1>1, <1>5 DEF Addr
  <2>2. Desired(g) = hb
    <3>1. hostOffset = 0
      BY <2>1 DEF isIdentity
    <3>2. hb + hostOffset = hb /\ hb < Mod
      BY <1>1, <1>3, <3>1 DEF Addr
    <3> QED
      BY <1>8, <3>2
  <2> QED
    BY <1>1, <1>3, <1>5, <1>8, <1>9, <2>1, <2>2 DEF Addr
<1>11. hb <= he
  <2>1. ASSUME ~isIdentity, en < st PROVE FALSE
    <3>1. MapSize(g, n) = en - st + Mod /\ MapSize(g, n) \in Addr
      BY <1>1, <2>1, SubCases DEF MapSize, Addr
    <3>2. Add(st, MapSize(g, n)) = en
      BY <1>1, <1>3, <3>1, AddCases DEF Addr
    <3> QED
      BY <1>1, <2>1, <3>2 DEF isAddressable, Addr
  <2> QED
    BY <1>1, <1>5, <1>6, <1>10, <2>1 DEF Addr
<1>12. high = low + ws
  BY <1>1, <1>3, <1>4, <1>5, <1>7, <1>11 DEF Addr
<1>13. Desired(g) = wb + (hb - low) /\ HostSize(g, n) = he - hb
  BY <1>1, <1>3, <1>4, <1>5, <1>7, <1>8, <1>11, <1>12 DEF Addr
<1>14. wb <= Desired(g) /\ Desired(g) + HostSize(g, n) <= wb + ws
  BY <1>1, <1>4, <1>5, <1>12, <1>13 DEF Addr
<1>15. Desired(g) \in Nat /\ HostSize(g, n) \in Nat /\ wb \in Nat /\ ws \in Nat
  BY <1>1, RoundingTypes, PagingAssumption DEF Addr
<1> QED
  BY <1>14, <1>15, PagingAssumption DEF Window, PageRange, HostPages

\* Splitting a region yields regions.
LEMMA PiecesTypes ==
  ASSUME NEW r \in Region, NEW start \in Addr, NEW end \in Addr,
         NEW prot \in SUBSET {"r", "w", "x"}
  PROVE  Pieces(r, start, end, prot) \subseteq Region
<1>1. r.addr \in Addr /\ r.length \in Addr /\ r.prot \in SUBSET {"r", "w", "x"}
  BY DEF Region
<1>2. RangeEnd(r) \in Addr
  BY <1>1, AddCases DEF RangeEnd
<1>3. MaxOf(r.addr, start) \in Addr /\ MinOf(RangeEnd(r), end) \in Addr
  BY <1>1, <1>2 DEF MaxOf, MinOf
<1>4. /\ Sub(MinOf(RangeEnd(r), end), MaxOf(r.addr, start)) \in Addr
      /\ Sub(start, r.addr) \in Addr
      /\ Sub(RangeEnd(r), end) \in Addr
  BY <1>1, <1>2, <1>3, SubCases
<1>5. ASSUME NEW a \in Addr, NEW n \in Addr
      PROVE  /\ [addr |-> a, length |-> n, prot |-> prot] \in Region
             /\ [r EXCEPT !.addr = a, !.length = n] \in Region
             /\ [r EXCEPT !.length = n] \in Region
  BY DEF Region
<1>6. SUFFICES ASSUME NEW piece \in Pieces(r, start, end, prot)
               PROVE  piece \in Region
  OBVIOUS
<1>7. \/ piece = [addr |-> MaxOf(r.addr, start),
                  length |-> Sub(MinOf(RangeEnd(r), end), MaxOf(r.addr, start)),
                  prot |-> prot]
      \/ piece = [r EXCEPT !.length = Sub(start, r.addr)]
      \/ piece = [r EXCEPT !.addr = end, !.length = Sub(RangeEnd(r), end)]
  BY <1>6 DEF Pieces
<1> QED
  BY <1>3, <1>4, <1>5, <1>7

\* A window granted by the kernel is a pair of addresses.
LEMMA UserRangeTypes ==
  ASSUME NEW base \in Addr, NEW size \in Addr, UserRange(base, size)
  PROVE  base % HostPage = 0 /\ base + size <= TaskSize
  BY DEF UserRange

\* The constructor's roundings are aligned addresses.
LEMMA ProbeTypes ==
  ASSUME NEW lo \in Addr, NEW hi \in Addr, NEW fb \in Addr
  PROVE  /\ ProbeLow(lo) \in Addr
         /\ ProbeLow(lo) % HostPage = 0
         /\ ProbeSize(lo, hi) \in Addr
         /\ Add(ProbeLow(lo), ProbeSize(lo, hi)) = AlignUp(hi, HostPage)
         /\ AlignUp(hi, HostPage) % HostPage = 0
         /\ FallbackSize(ProbeSize(lo, hi), fb) \in Addr
         /\ FallbackSize(ProbeSize(lo, hi), fb) % HostPage = 0
<1>1. HostPage \in Nat \ {0} /\ lo \in Nat
  BY PagingAssumption DEF Addr
<1>2. ProbeLow(lo) \in Addr /\ ProbeLow(lo) % HostPage = 0
  BY <1>1, AlignDownAddr, AlignDownPage DEF ProbeLow
<1>3. AlignUp(hi, HostPage) \in Addr /\ AlignUp(hi, HostPage) % HostPage = 0
  BY AlignUpPage
<1>4. ProbeSize(lo, hi) \in Addr
  BY <1>2, <1>3, SubCases DEF ProbeSize
<1>5. Add(ProbeLow(lo), ProbeSize(lo, hi)) = AlignUp(hi, HostPage)
  <2>1. ProbeSize(lo, hi) = IF ProbeLow(lo) <= AlignUp(hi, HostPage)
                            THEN AlignUp(hi, HostPage) - ProbeLow(lo)
                            ELSE AlignUp(hi, HostPage) - ProbeLow(lo) + Mod
    BY <1>2, <1>3, SubCases DEF ProbeSize
  <2>2. Add(ProbeLow(lo), ProbeSize(lo, hi)) =
          IF ProbeLow(lo) + ProbeSize(lo, hi) < Mod
          THEN ProbeLow(lo) + ProbeSize(lo, hi)
          ELSE ProbeLow(lo) + ProbeSize(lo, hi) - Mod
    BY <1>2, <1>4, AddCases
  <2> QED
    BY <1>2, <1>3, <2>1, <2>2, PagingAssumption DEF Addr
<1>6. Add(ProbeSize(lo, hi), ProbeSize(lo, hi)) \in Addr
  BY <1>4, AddCases
<1> QED
  BY <1>2, <1>3, <1>4, <1>5, <1>6, AlignUpPage DEF FallbackSize

\* A page taken or kept has an owner and a protection, a byte kept an address.
LEMMA TakeTypes ==
  ASSUME TypeOK, NEW pages, NEW prot \in SUBSET {"r", "w"}, Take(pages, prot)
  PROVE  /\ owner' \in [HostPages -> Owner]
         /\ hprot' \in [HostPages -> SUBSET {"r", "w"}]
         /\ data' \subseteq Addr
  BY DEF TypeOK, Take, Owner

LEMMA InitInvariant == Init => IInv
<1> SUFFICES ASSUME Init PROVE IInv
  OBVIOUS
<1>1. TypeOK
  <2>1. 0 \in Addr /\ FALSE \in BOOLEAN /\ "none" \in Result
    BY PagingAssumption DEF Addr, Result
  <2>2. owner \in [HostPages -> Owner]
    BY DEF Init, Owner
  <2>3. hprot \in [HostPages -> SUBSET {"r", "w"}]
    BY DEF Init
  <2> QED
    BY <2>1, <2>2, <2>3 DEF Init, TypeOK
<1>2. Geometry /\ WindowHeld /\ BiasedInsideWindow
  BY DEF Init, Geometry, WindowHeld, BiasedInsideWindow
<1>3. Unowned
  BY DEF Init, Unowned
<1> QED
  BY <1>1, <1>2, <1>3 DEF IInv

\* Both constructors take exactly the window they record.
LEMMA ConstructInvariant == IInv /\ Construct => IInv'
<1> SUFFICES ASSUME IInv, Construct PROVE IInv'
  OBVIOUS
<1>0. TypeOK /\ Unowned
  BY DEF IInv
<1>1. PICK img \in Images :
        \/ ConstructIdentity(img[1], img[2])
        \/ \E base \in HostPages : ConstructBiased(img[1], img[2], img[3], base)
        \/ ConstructThrows
  BY DEF Construct
<1>2. img[1] \in Addr /\ img[2] \in Addr /\ img[3] \in Addr
  BY ClientAssumption
<1>3. /\ ProbeLow(img[1]) \in Addr
      /\ ProbeLow(img[1]) % HostPage = 0
      /\ ProbeSize(img[1], img[2]) \in Addr
      /\ Add(ProbeLow(img[1]), ProbeSize(img[1], img[2])) % HostPage = 0
      /\ FallbackSize(ProbeSize(img[1], img[2]), img[3]) \in Addr
      /\ FallbackSize(ProbeSize(img[1], img[2]), img[3]) % HostPage = 0
  BY <1>2, ProbeTypes
<1>4. {} \in SUBSET {"r", "w"} /\ {} \subseteq Region /\ 0 \in Addr /\ "ok" \in Result
  BY PagingAssumption DEF Addr, Result
<1>5. CASE ConstructIdentity(img[1], img[2])
  <2> DEFINE low == ProbeLow(img[1])
             size == ProbeSize(img[1], img[2])
  <2>1. Take(PageRange(low, size), {}) /\ UserRange(low, size)
    BY <1>5 DEF ConstructIdentity
  <2>2. TypeOK'
    <3>1. Add(low, size) \in Addr
      BY <1>3, AddCases
    <3> QED
      BY <1>0, <1>3, <1>4, <1>5, <2>1, <3>1, TakeTypes DEF ConstructIdentity, TypeOK
  <2>3. Geometry'
    <3>1. Sub(low, low) = 0
      BY <1>3, SubCases DEF Addr
    <3> QED
      BY <1>3, <1>5, <2>1, <3>1, UserRangeTypes DEF ConstructIdentity, Geometry
  <2>4. WindowHeld'
    BY <1>0, <1>5, <2>1 DEF ConstructIdentity, WindowHeld, Window, Take, PageRange
  <2>5. Unowned' /\ BiasedInsideWindow'
    BY <1>5 DEF ConstructIdentity, Unowned, BiasedInsideWindow, isIdentity
  <2> QED
    BY <2>2, <2>3, <2>4, <2>5 DEF IInv
<1>6. CASE \E base \in HostPages : ConstructBiased(img[1], img[2], img[3], base)
  <2> DEFINE low == ProbeLow(img[1])
             size == FallbackSize(ProbeSize(img[1], img[2]), img[3])
  <2>1. PICK base \in HostPages : ConstructBiased(img[1], img[2], img[3], base)
    BY <1>6
  <2>2. Take(PageRange(base, size), {}) /\ UserRange(base, size)
    BY <2>1 DEF ConstructBiased
  <2>3. base \in Addr
    BY PagingAssumption DEF HostPages, Addr
  <2>4. TypeOK'
    <3>1. Add(low, size) \in Addr /\ Sub(base, low) \in Addr
      BY <1>3, <2>3, AddCases, SubCases
    <3> QED
      BY <1>0, <1>3, <1>4, <2>1, <2>2, <2>3, <3>1, TakeTypes DEF ConstructBiased, TypeOK
  <2>5. Geometry'
    BY <1>3, <2>1, <2>2, <2>3, UserRangeTypes, AddAligned DEF ConstructBiased, Geometry
  <2>6. WindowHeld'
    BY <1>0, <2>1, <2>2 DEF ConstructBiased, WindowHeld, Window, Take, PageRange
  <2>7. Unowned'
    BY <2>1 DEF ConstructBiased, Unowned
  <2>8. BiasedInsideWindow'
    <3>1. \A p \in HostPages : owner[p] # "guest"
      BY <1>0, <2>1 DEF ConstructBiased, Unowned
    <3> QED
      BY <2>1, <2>2, <3>1 DEF ConstructBiased, BiasedInsideWindow, Window, Take, PageRange
  <2> QED
    BY <2>4, <2>5, <2>6, <2>7, <2>8 DEF IInv
<1>7. CASE ConstructThrows
  BY <1>7 DEF ConstructThrows, IInv, TypeOK, Geometry, WindowHeld, Unowned,
              BiasedInsideWindow, isIdentity, Window, PageRange, object, kernel, Result
<1> QED
  BY <1>1, <1>5, <1>6, <1>7

\* A map that succeeds takes free pages or pages of the window, and in biased
\* mode only the latter.
LEMMA MapPages ==
  ASSUME IInv, NEW g \in Addr, NEW n \in Addr, live, MapAccepted(g, n)
  PROVE  LET pages == PageRange(Desired(g), HostSize(g, n))
         IN  /\ \A p \in pages : owner[p] \in {"free", "guest"}
             /\ ~isIdentity => pages \subseteq Window
<1> DEFINE pages == PageRange(Desired(g), HostSize(g, n))
<1>1. TypeOK /\ Geometry /\ WindowHeld
  BY DEF IInv
<1>2. /\ isAddressable(MapStart(g), MapSize(g, n))
      /\ UserRange(Desired(g), HostSize(g, n))
      /\ insideReservation(g, n) \/ AllFree(pages)
  BY DEF MapAccepted
<1>3. insideReservation(g, n) => pages \subseteq Window
  BY <1>1, <1>2, InsideStaysInWindow
<1>4. ~isIdentity => insideReservation(g, n)
  <2>1. SUFFICES ASSUME ~isIdentity PROVE insideReservation(g, n)
    OBVIOUS
  <2>2. MapStart(g) >= reservedLow /\ Add(MapStart(g), MapSize(g, n)) <= reservedHigh
    BY <1>2, <2>1 DEF isAddressable
  <2>3. Add(MapStart(g), MapSize(g, n)) = MapEnd(g, n)
    <3>1. MapStart(g) \in Addr /\ MapEnd(g, n) \in Addr /\ MapSize(g, n) \in Addr
      BY <1>1, RoundingTypes DEF TypeOK
    <3>2. MapSize(g, n) = IF MapStart(g) <= MapEnd(g, n)
                          THEN MapEnd(g, n) - MapStart(g)
                          ELSE MapEnd(g, n) - MapStart(g) + Mod
      BY <3>1, SubCases DEF MapSize
    <3>3. Add(MapStart(g), MapSize(g, n)) =
            IF MapStart(g) + MapSize(g, n) < Mod
            THEN MapStart(g) + MapSize(g, n)
            ELSE MapStart(g) + MapSize(g, n) - Mod
      BY <3>1, AddCases
    <3> QED
      BY <3>1, <3>2, <3>3, PagingAssumption DEF Addr
  <2> QED
    BY <2>2, <2>3 DEF insideReservation
<1>5. \A p \in pages : owner[p] \in {"free", "guest"}
  BY <1>1, <1>2, <1>3 DEF AllFree, WindowHeld
<1> QED
  BY <1>3, <1>4, <1>5

LEMMA MapInvariant == IInv /\ Map => IInv'
<1> SUFFICES ASSUME IInv, Map PROVE IInv'
  OBVIOUS
<1>0. TypeOK
  BY DEF IInv
<1>1. PICK rng \in Ranges :
        \/ \E prot \in Prots : MapOk(rng[1], rng[2], prot)
        \/ MapThrows(rng[1], rng[2])
  BY DEF Map
<1>2. rng[1] \in Addr /\ rng[2] \in Addr
  BY ClientAssumption
<1>3. CASE \E prot \in Prots : MapOk(rng[1], rng[2], prot)
  <2> DEFINE pages == PageRange(Desired(rng[1]), HostSize(rng[1], rng[2]))
  <2>1. PICK prot \in Prots : MapOk(rng[1], rng[2], prot)
    BY <1>3
  <2>2. prot \in SUBSET {"r", "w", "x"}
    BY ClientAssumption
  <2>3. /\ live /\ MapAccepted(rng[1], rng[2]) /\ Take(pages, {"r", "w"})
        /\ UNCHANGED <<live, object>>
    BY <2>1 DEF MapOk
  <2>4. ~isIdentity => pages \subseteq Window
    BY <1>2, <2>3, MapPages
  <2>5. TypeOK'
    <3>1. /\ owner' \in [HostPages -> Owner]
          /\ hprot' \in [HostPages -> SUBSET {"r", "w"}]
          /\ data' \subseteq Addr
      BY <1>0, <2>3, TakeTypes
    <3>2. MapStart(rng[1]) \in Addr /\ MapSize(rng[1], rng[2]) \in Addr
      BY <1>0, <1>2, RoundingTypes DEF TypeOK
    <3>3. regions' \subseteq Region
      <4>1. [addr |-> MapStart(rng[1]), length |-> MapSize(rng[1], rng[2]),
             prot |-> prot] \in Region
        BY <2>2, <3>2 DEF Region
      <4> QED
        BY <1>0, <2>1, <4>1 DEF MapOk, TypeOK
    <3> QED
      BY <1>0, <2>1, <3>1, <3>3 DEF MapOk, TypeOK, object, Result
  <2>6. Geometry' /\ Unowned'
    BY <2>3 DEF IInv, Geometry, Unowned, object
  <2>7. WindowHeld'
    BY <2>3 DEF IInv, WindowHeld, Window, PageRange, Take, object
  <2>8. BiasedInsideWindow'
    BY <2>3, <2>4 DEF IInv, BiasedInsideWindow, isIdentity, Window, PageRange, Take, object
  <2> QED
    BY <2>5, <2>6, <2>7, <2>8 DEF IInv
<1>4. CASE MapThrows(rng[1], rng[2])
  BY <1>4 DEF MapThrows, IInv, TypeOK, Geometry, WindowHeld, Unowned,
              BiasedInsideWindow, isIdentity, Window, PageRange, object, kernel, Result
<1> QED
  BY <1>1, <1>3, <1>4

\* What a step must leave alone for the parts of IInv about the window.
LEMMA WindowUntouched ==
  ASSUME IInv, UNCHANGED <<live, object, owner>>
  PROVE  Geometry' /\ WindowHeld' /\ Unowned' /\ BiasedInsideWindow'
  BY DEF IInv, Geometry, WindowHeld, Unowned, BiasedInsideWindow, isIdentity,
         Window, PageRange, object

LEMMA ProtectInvariant == IInv /\ Protect => IInv'
<1> SUFFICES ASSUME IInv, Protect PROVE IInv'
  OBVIOUS
<1>0. TypeOK
  BY DEF IInv
<1>1. PICK rng \in Ranges :
        \/ \E prot \in Prots : ProtectOk(rng[1], rng[2], prot)
        \/ ProtectThrows(rng[1], rng[2])
  BY DEF Protect
<1>2. rng[1] \in Addr /\ rng[2] \in Addr
  BY ClientAssumption
<1>3. CASE \E prot \in Prots : ProtectOk(rng[1], rng[2], prot)
  <2> DEFINE start == MapStart(rng[1])
             end == MapEnd(rng[1], rng[2])
             touched == {r \in regions : Touches(r, start, end)}
  <2>1. PICK prot \in Prots : ProtectOk(rng[1], rng[2], prot)
    BY <1>3
  <2>2. prot \in SUBSET {"r", "w", "x"}
    BY ClientAssumption
  <2>3. Geometry' /\ WindowHeld' /\ Unowned' /\ BiasedInsideWindow'
    BY <2>1, WindowUntouched DEF ProtectOk
  <2>4. regions' \subseteq Region
    <3>1. start \in Addr /\ end \in Addr
      BY <1>0, <1>2, RoundingTypes DEF TypeOK
    <3>2. \A r \in touched : Pieces(r, start, end, prot) \subseteq Region
      BY <1>0, <2>2, <3>1, PiecesTypes DEF TypeOK
    <3>3. regions' = (regions \ touched)
                       \cup UNION {Pieces(r, start, end, prot) : r \in touched}
      BY <2>1 DEF ProtectOk
    <3>4. UNION {Pieces(r, start, end, prot) : r \in touched} \subseteq Region
      BY <3>2
    <3>5. regions \subseteq Region
      BY <1>0 DEF TypeOK
    <3> QED
      BY <3>3, <3>4, <3>5
  <2>5. hprot' \in [HostPages -> SUBSET {"r", "w"}]
    <3>1. HostProtFor(prot) \in SUBSET {"r", "w"}
      BY <2>2 DEF HostProtFor
    <3> QED
      BY <1>0, <2>1, <3>1 DEF ProtectOk, TypeOK
  <2>6. TypeOK'
    BY <1>0, <2>1, <2>4, <2>5 DEF ProtectOk, TypeOK, object, Result
  <2> QED
    BY <2>3, <2>6 DEF IInv
<1>4. CASE ProtectThrows(rng[1], rng[2])
  <2>1. TypeOK'
    BY <1>0, <1>4 DEF ProtectThrows, TypeOK, object, kernel, Result
  <2> QED
    BY <1>4, <2>1, WindowUntouched DEF ProtectThrows, kernel, IInv
<1> QED
  BY <1>1, <1>3, <1>4

\* A byte the host lets the process touch has a 64-bit address.
LEMMA AllowedBytes ==
  ASSUME TypeOK, NEW g \in Addr, NEW n \in Addr, NEW access,
         HostAllows(g, n, access)
  PROVE  HostBytes(g, n) \subseteq Addr
<1>1. SUFFICES ASSUME NEW h \in HostBytes(g, n) PROVE h \in Addr
  OBVIOUS
<1>2. toHost(g) \in Addr
  BY AddCases DEF toHost, TypeOK
<1>3. h \in Nat
  BY <1>1, <1>2 DEF HostBytes, Addr
<1>4. HostPage \in Nat \ {0} /\ TaskSize + HostPage <= Mod /\ TaskSize \in Nat /\ Mod \in Nat
  BY PagingAssumption
<1>5. HostPageOf(h) \in 0 .. TaskSize - 1
  BY <1>1 DEF HostAllows, HostPages
<1>6. h < HostPageOf(h) + HostPage
  BY <1>3, <1>4, AlignDownPage DEF HostPageOf
<1> QED
  BY <1>3, <1>4, <1>5, <1>6 DEF Addr

LEMMA AccessInvariant == IInv /\ Access => IInv'
<1> SUFFICES ASSUME IInv, Access PROVE IInv'
  OBVIOUS
<1>0. TypeOK
  BY DEF IInv
<1>1. PICK rng \in Accesses :
        \/ WriteOk(rng[1], rng[2])
        \/ ZeroOk(rng[1], rng[2])
        \/ ReadOk(rng[1], rng[2])
        \/ AccessThrows(rng[1], rng[2])
        \/ \E access \in {"r", "w"} : AccessFaults(rng[1], rng[2], access)
  BY DEF Access
<1>2. rng[1] \in Addr /\ rng[2] \in Addr
  BY ClientAssumption
<1>3. CASE WriteOk(rng[1], rng[2])
  <2>1. HostBytes(rng[1], rng[2]) \subseteq Addr
    BY <1>0, <1>2, <1>3, AllowedBytes DEF WriteOk
  <2>2. TypeOK'
    BY <1>0, <1>3, <2>1 DEF WriteOk, TypeOK, object, Result
  <2> QED
    BY <1>3, <2>2, WindowUntouched DEF WriteOk, IInv
<1>4. CASE ZeroOk(rng[1], rng[2])
  <2>1. TypeOK'
    BY <1>0, <1>4 DEF ZeroOk, TypeOK, object, Result
  <2> QED
    BY <1>4, <2>1, WindowUntouched DEF ZeroOk, IInv
<1>5. ASSUME UNCHANGED <<live, object, regions, kernel>>, result' \in Result
      PROVE  IInv'
  <2>1. TypeOK'
    BY <1>0, <1>5 DEF TypeOK, object, kernel
  <2> QED
    BY <1>5, <2>1, WindowUntouched DEF kernel, IInv
<1> QED
  BY <1>1, <1>3, <1>4, <1>5 DEF ReadOk, AccessThrows, AccessFaults, Result

\* Destruction leaves no page with the object: the window is freed, the rest
\* is orphaned.
LEMMA DestroyInvariant == IInv /\ Destroy => IInv'
<1> SUFFICES ASSUME IInv, Destroy PROVE IInv'
  OBVIOUS
<1>1. TypeOK
  BY DEF IInv
<1>2. ~live'
  BY DEF Destroy
<1>3. owner' = [p \in HostPages |->
                  IF p \in Window THEN "free"
                  ELSE IF owner[p] = "guest" THEN "leaked" ELSE owner[p]]
  BY DEF Destroy
<1>4. owner' \in [HostPages -> Owner]
  BY <1>1, <1>3 DEF TypeOK, Owner
<1>5. hprot' \in [HostPages -> SUBSET {"r", "w"}]
  BY <1>1 DEF Destroy, TypeOK
<1>6. 0 \in Addr /\ "ok" \in Result
  BY PagingAssumption DEF Addr, Result
<1>7. TypeOK'
  BY <1>1, <1>4, <1>5, <1>6 DEF Destroy, TypeOK
<1>8. Geometry' /\ WindowHeld' /\ BiasedInsideWindow'
  BY <1>2 DEF Geometry, WindowHeld, BiasedInsideWindow
<1>9. Unowned'
  BY <1>3 DEF Unowned
<1> QED
  BY <1>7, <1>8, <1>9 DEF IInv

\* The rest of the process only turns free pages into its own and back.
LEMMA HostInvariant == IInv /\ HostStep => IInv'
<1> SUFFICES ASSUME IInv, HostStep PROVE IInv'
  OBVIOUS
<1>1. PICK p \in HostChurn : HostMaps(p) \/ HostUnmaps(p)
  BY DEF HostStep
<1>2. p \in HostPages
  BY HostAssumption
<1>3. PICK to \in {"free", "other"} :
        /\ owner[p] \in {"free", "other"}
        /\ owner' = [owner EXCEPT ![p] = to]
  BY <1>1 DEF HostMaps, HostUnmaps
<1>4. UNCHANGED <<live, object, regions, data, result>>
  BY <1>1 DEF HostMaps, HostUnmaps
<1>5. TypeOK'
  <2>1. owner' \in [HostPages -> Owner]
    BY <1>3 DEF IInv, TypeOK, Owner
  <2>2. hprot' \in [HostPages -> SUBSET {"r", "w"}]
    BY <1>1 DEF IInv, TypeOK, HostMaps, HostUnmaps
  <2> QED
    BY <1>4, <2>1, <2>2 DEF IInv, TypeOK, object
<1>6. owner \in [HostPages -> Owner]
  BY DEF IInv, TypeOK
<1>7. \A q \in HostPages : owner'[q] = "guest" <=> owner[q] = "guest"
  BY <1>2, <1>3, <1>6
<1>8. Geometry' /\ WindowHeld' /\ Unowned' /\ BiasedInsideWindow'
  BY <1>4, <1>7 DEF IInv, Geometry, WindowHeld, Unowned, BiasedInsideWindow,
                    isIdentity, Window, PageRange, object
<1> QED
  BY <1>5, <1>8 DEF IInv

LEMMA NextInvariant == IInv /\ [Next]_vars => IInv'
<1> SUFFICES ASSUME IInv, [Next]_vars PROVE IInv'
  OBVIOUS
<1>1. ASSUME UNCHANGED <<live, object, regions, kernel>>, result' \in Result
      PROVE  IInv'
  <2>1. TypeOK'
    BY <1>1 DEF IInv, TypeOK, object, kernel
  <2> QED
    BY <1>1, <2>1, WindowUntouched DEF kernel, IInv
<1>2. CASE EmptyCall
  BY <1>1, <1>2 DEF EmptyCall, Result
<1>3. CASE UNCHANGED vars
  BY <1>1, <1>3 DEF vars, IInv, TypeOK
<1> QED
  BY <1>2, <1>3, ConstructInvariant, MapInvariant, ProtectInvariant,
     AccessInvariant, DestroyInvariant, HostInvariant DEF Next

THEOREM Invariant == Spec => []IInv
  BY InitInvariant, NextInvariant, PTL DEF Spec

\* Type correctness for every value of the constants.
THEOREM TypeCorrect == Spec => []TypeOK
<1>1. IInv => TypeOK
  BY DEF IInv
<1> QED
  BY <1>1, Invariant, PTL

\* The window stays the object's as long as the object lives.
THEOREM WindowNeverLost == Spec => []WindowHeld
<1>1. IInv => WindowHeld
  BY DEF IInv
<1> QED
  BY <1>1, Invariant, PTL

\* The window is a hard boundary in biased mode.
THEOREM BiasedHardBoundary == Spec => []BiasedInsideWindow
<1>1. IInv => BiasedInsideWindow
  BY DEF IInv
<1> QED
  BY <1>1, Invariant, PTL

\* One step of ForeignKept.
ForeignKeptStep ==
  \A p \in HostPages :
    owner[p] = "other" /\ owner'[p] # "other" => HostUnmaps(p)

\* Taking pages none of which is foreign leaves the foreign pages alone.
LEMMA TakeKeepsForeign ==
  ASSUME NEW pages, NEW prot, Take(pages, prot),
         \A p \in pages : owner[p] \in {"free", "guest"}
  PROVE  ForeignKeptStep
  BY DEF Take, ForeignKeptStep

LEMMA ForeignKeptByNext == IInv /\ [Next]_vars => [ForeignKeptStep]_vars
<1> SUFFICES ASSUME IInv, Next PROVE ForeignKeptStep
  OBVIOUS
<1>0. TypeOK
  BY DEF IInv
<1>1. ASSUME UNCHANGED owner PROVE ForeignKeptStep
  BY <1>1 DEF ForeignKeptStep
<1>2. CASE Construct
  <2>1. PICK img \in Images :
          \/ ConstructIdentity(img[1], img[2])
          \/ \E base \in HostPages : ConstructBiased(img[1], img[2], img[3], base)
          \/ ConstructThrows
    BY <1>2 DEF Construct
  <2>2. CASE ConstructIdentity(img[1], img[2])
    BY <2>2, TakeKeepsForeign DEF ConstructIdentity, AllFree
  <2>3. CASE \E base \in HostPages : ConstructBiased(img[1], img[2], img[3], base)
    BY <2>3, TakeKeepsForeign DEF ConstructBiased, AllFree
  <2>4. CASE ConstructThrows
    BY <1>1, <2>4 DEF ConstructThrows, kernel
  <2> QED
    BY <2>1, <2>2, <2>3, <2>4
<1>3. CASE Map
  <2>1. PICK rng \in Ranges :
          \/ \E prot \in Prots : MapOk(rng[1], rng[2], prot)
          \/ MapThrows(rng[1], rng[2])
    BY <1>3 DEF Map
  <2>2. rng[1] \in Addr /\ rng[2] \in Addr
    BY ClientAssumption
  <2>3. CASE \E prot \in Prots : MapOk(rng[1], rng[2], prot)
    BY <2>2, <2>3, MapPages, TakeKeepsForeign DEF MapOk
  <2>4. CASE MapThrows(rng[1], rng[2])
    BY <1>1, <2>4 DEF MapThrows, kernel
  <2> QED
    BY <2>1, <2>3, <2>4
<1>4. CASE Protect
  BY <1>1, <1>4 DEF Protect, ProtectOk, ProtectThrows, kernel
<1>5. CASE Access
  BY <1>1, <1>5 DEF Access, WriteOk, ZeroOk, ReadOk, AccessThrows, AccessFaults, kernel
<1>6. CASE EmptyCall
  BY <1>1, <1>6 DEF EmptyCall, kernel
<1>7. CASE Destroy
  <2>1. \A p \in Window : owner[p] = "guest"
    BY <1>7 DEF IInv, WindowHeld, Destroy
  <2> QED
    BY <1>7, <2>1 DEF Destroy, ForeignKeptStep
<1>8. CASE HostStep
  <2>1. PICK q \in HostChurn : HostMaps(q) \/ HostUnmaps(q)
    BY <1>8 DEF HostStep
  <2>2. owner \in [HostPages -> Owner]
    BY <1>0 DEF TypeOK
  <2>3. \A p \in HostPages : p # q => owner'[p] = owner[p]
    BY <2>1, <2>2 DEF HostMaps, HostUnmaps
  <2>4. CASE HostMaps(q)
    BY <2>3, <2>4 DEF HostMaps, ForeignKeptStep
  <2>5. CASE HostUnmaps(q)
    BY <2>3, <2>5 DEF ForeignKeptStep
  <2> QED
    BY <2>1, <2>4, <2>5
<1> QED
  BY <1>2, <1>3, <1>4, <1>5, <1>6, <1>7, <1>8 DEF Next

\* No call of the class takes, frees or replaces a page of the rest of the
\* process, whatever ranges a client passes.
THEOREM ForeignPagesKept == Spec => ForeignKept
<1>1. Spec => [][ForeignKeptStep]_vars
  BY Invariant, ForeignKeptByNext, PTL DEF Spec
<1> QED
  BY <1>1 DEF ForeignKept, ForeignKeptStep

(***************************************************************************)
(* What m_regions says of memory: isMapped never answers for a byte no      *)
(* region has; and as long as the client's ranges end below the last page,  *)
(* every byte of a region is on a page of the object, so that what the      *)
(* guest writes never lands on the rest of the process.                     *)
(***************************************************************************)

\* Regions begin and end at guest pages.
Aligned == \A r \in regions : r.addr % GuestPage = 0 /\ r.length % GuestPage = 0

\* Sums and differences of aligned addresses, wrapped, are aligned.
LEMMA GuestSums ==
  ASSUME NEW x \in Addr, NEW y \in Addr,
         x % GuestPage = 0, y % GuestPage = 0
  PROVE  Add(x, y) % GuestPage = 0 /\ Sub(x, y) % GuestPage = 0
<1> DEFINE i == x \div GuestPage
           j == y \div GuestPage
           h == HostPage \div GuestPage
           k == Mod \div HostPage
<1>1. GuestPage \in Nat \ {0} /\ HostPage \in Nat \ {0} /\ Mod \in Nat
      /\ x \in Nat /\ y \in Nat
      /\ HostPage % GuestPage = 0 /\ Mod % HostPage = 0
  BY PagingAssumption DEF Addr
<1>2. i \in Nat /\ x = GuestPage * i
  BY <1>1, AlignedProduct
<1>3. j \in Nat /\ y = GuestPage * j
  BY <1>1, AlignedProduct
<1>4. h \in Nat /\ HostPage = GuestPage * h
  BY <1>1, AlignedProduct
<1>5. k \in Nat /\ Mod = HostPage * k
  BY <1>1, AlignedProduct
<1> HIDE DEF i, j, h, k
<1> DEFINE m == h * k
<1>6. m \in Nat /\ Mod = GuestPage * m
  BY <1>1, <1>4, <1>5
<1> HIDE DEF m
<1>7. ASSUME NEW z \in Int, NEW n \in Int, z = GuestPage * n
      PROVE  z % GuestPage = 0
  BY <1>1, <1>7, ProductAligned
<1>8. x + y = GuestPage * (i + j) /\ x + y \in Int /\ i + j \in Int
  BY <1>1, <1>2, <1>3
<1>9. x + y - Mod = GuestPage * (i + j - m) /\ x + y - Mod \in Int /\ i + j - m \in Int
  BY <1>1, <1>2, <1>3, <1>6
<1>10. x - y = GuestPage * (i - j) /\ x - y \in Int /\ i - j \in Int
  BY <1>1, <1>2, <1>3
<1>11. x - y + Mod = GuestPage * (i - j + m) /\ x - y + Mod \in Int /\ i - j + m \in Int
  BY <1>1, <1>2, <1>3, <1>6
<1>12. (x + y) % GuestPage = 0 /\ (x + y - Mod) % GuestPage = 0
  BY <1>7, <1>8, <1>9
<1>13. (x - y) % GuestPage = 0 /\ (x - y + Mod) % GuestPage = 0
  BY <1>7, <1>10, <1>11
<1> QED
  BY <1>12, <1>13, AddCases, SubCases

\* What map and protect round to is aligned.
LEMMA RoundingAligned ==
  ASSUME NEW g \in Addr, NEW n \in Addr
  PROVE  /\ MapStart(g) \in Addr /\ MapStart(g) % GuestPage = 0
         /\ MapEnd(g, n) \in Addr /\ MapEnd(g, n) % GuestPage = 0
         /\ MapSize(g, n) \in Addr /\ MapSize(g, n) % GuestPage = 0
<1>1. GuestPage \in Nat \ {0} /\ g \in Nat
  BY PagingAssumption DEF Addr
<1>2. MapStart(g) \in Addr /\ MapStart(g) % GuestPage = 0
  BY <1>1, AlignDownAddr, AlignDownPage DEF MapStart, GuestPageAlignDown
<1>3. MapEnd(g, n) \in Addr /\ MapEnd(g, n) % GuestPage = 0
  BY AddCases, AlignUpPage DEF MapEnd, GuestPageAlignUp
<1> QED
  BY <1>2, <1>3, SubCases, GuestSums DEF MapSize

\* Splitting an aligned region at aligned addresses gives aligned regions.
LEMMA PiecesAligned ==
  ASSUME NEW r \in Region, r.addr % GuestPage = 0, r.length % GuestPage = 0,
         NEW start \in Addr, start % GuestPage = 0,
         NEW end \in Addr, end % GuestPage = 0, NEW prot,
         NEW piece \in Pieces(r, start, end, prot)
  PROVE  piece.addr % GuestPage = 0 /\ piece.length % GuestPage = 0
<1>1. r.addr \in Addr /\ r.length \in Addr
  BY DEF Region
<1>2. RangeEnd(r) \in Addr /\ RangeEnd(r) % GuestPage = 0
  BY <1>1, AddCases, GuestSums DEF RangeEnd
<1> DEFINE lo == MaxOf(r.addr, start)
           hi == MinOf(RangeEnd(r), end)
<1>3. lo \in Addr /\ lo % GuestPage = 0 /\ hi \in Addr /\ hi % GuestPage = 0
  BY <1>1, <1>2 DEF MaxOf, MinOf
<1> HIDE DEF lo, hi
<1>4. /\ Sub(hi, lo) % GuestPage = 0
      /\ Sub(start, r.addr) % GuestPage = 0
      /\ Sub(RangeEnd(r), end) % GuestPage = 0
  BY <1>1, <1>2, <1>3, GuestSums
<1>5. \/ piece = [addr |-> lo, length |-> Sub(hi, lo), prot |-> prot]
      \/ piece = [r EXCEPT !.length = Sub(start, r.addr)]
      \/ piece = [r EXCEPT !.addr = end, !.length = Sub(RangeEnd(r), end)]
  BY DEF Pieces, lo, hi
<1>6. CASE piece = [addr |-> lo, length |-> Sub(hi, lo), prot |-> prot]
  BY <1>3, <1>4, <1>6
<1>7. CASE piece = [r EXCEPT !.length = Sub(start, r.addr)]
  <2>1. piece.addr = r.addr /\ piece.length = Sub(start, r.addr)
    BY <1>7 DEF Region
  <2> QED
    BY <1>4, <2>1
<1>8. CASE piece = [r EXCEPT !.addr = end, !.length = Sub(RangeEnd(r), end)]
  <2>1. piece.addr = end /\ piece.length = Sub(RangeEnd(r), end)
    BY <1>8 DEF Region
  <2> QED
    BY <1>4, <2>1
<1> QED
  BY <1>5, <1>6, <1>7, <1>8

LEMMA AlignedByNext == IInv /\ Aligned /\ [Next]_vars => Aligned'
<1> SUFFICES ASSUME IInv, Aligned, [Next]_vars PROVE Aligned'
  OBVIOUS
<1>0. regions \subseteq Region
  BY DEF IInv, TypeOK
<1>1. ASSUME UNCHANGED regions PROVE Aligned'
  BY <1>1 DEF Aligned
<1>2. ASSUME regions' = {} PROVE Aligned'
  BY <1>2 DEF Aligned
<1>3. CASE Construct
  BY <1>1, <1>2, <1>3 DEF Construct, ConstructIdentity, ConstructBiased, ConstructThrows
<1>4. CASE Map
  <2>1. PICK rng \in Ranges :
          \/ \E prot \in Prots : MapOk(rng[1], rng[2], prot)
          \/ MapThrows(rng[1], rng[2])
    BY <1>4 DEF Map
  <2>2. rng[1] \in Addr /\ rng[2] \in Addr
    BY ClientAssumption
  <2>3. CASE \E prot \in Prots : MapOk(rng[1], rng[2], prot)
    <3>1. PICK prot \in Prots : MapOk(rng[1], rng[2], prot)
      BY <2>3
    <3>2. regions' = regions \cup {[addr |-> MapStart(rng[1]),
                                    length |-> MapSize(rng[1], rng[2]),
                                    prot |-> prot]}
      BY <3>1 DEF MapOk
    <3> QED
      BY <2>2, <3>2, RoundingAligned DEF Aligned
  <2> QED
    BY <1>1, <2>1, <2>3 DEF MapThrows
<1>5. CASE Protect
  <2>1. PICK rng \in Ranges :
          \/ \E prot \in Prots : ProtectOk(rng[1], rng[2], prot)
          \/ ProtectThrows(rng[1], rng[2])
    BY <1>5 DEF Protect
  <2>2. rng[1] \in Addr /\ rng[2] \in Addr
    BY ClientAssumption
  <2>3. CASE \E prot \in Prots : ProtectOk(rng[1], rng[2], prot)
    <3> DEFINE start == MapStart(rng[1])
               end == MapEnd(rng[1], rng[2])
               touched == {r \in regions : Touches(r, start, end)}
    <3>1. PICK prot \in Prots : ProtectOk(rng[1], rng[2], prot)
      BY <2>3
    <3>2. regions' = (regions \ touched)
                       \cup UNION {Pieces(r, start, end, prot) : r \in touched}
      BY <3>1 DEF ProtectOk
    <3>3. /\ start \in Addr /\ start % GuestPage = 0
          /\ end \in Addr /\ end % GuestPage = 0
      BY <2>2, RoundingAligned
    <3>4. ASSUME NEW r \in touched, NEW piece \in Pieces(r, start, end, prot)
          PROVE  piece.addr % GuestPage = 0 /\ piece.length % GuestPage = 0
      <4>1. r \in Region /\ r.addr % GuestPage = 0 /\ r.length % GuestPage = 0
        BY <1>0 DEF Aligned
      <4> QED
        BY <3>3, <4>1, PiecesAligned
    <3> QED
      BY <3>2, <3>4 DEF Aligned
  <2> QED
    BY <1>1, <2>1, <2>3 DEF ProtectThrows
<1>6. CASE Access
  BY <1>1, <1>6 DEF Access, WriteOk, ZeroOk, ReadOk, AccessThrows, AccessFaults
<1>7. CASE EmptyCall
  BY <1>1, <1>7 DEF EmptyCall
<1>8. CASE Destroy
  BY <1>2, <1>8 DEF Destroy
<1>9. CASE HostStep
  BY <1>1, <1>9 DEF HostStep, HostMaps, HostUnmaps
<1>10. CASE UNCHANGED vars
  BY <1>1, <1>10 DEF vars
<1> QED
  BY <1>3, <1>4, <1>5, <1>6, <1>7, <1>8, <1>9, <1>10 DEF Next

\* A page whose first byte is in a region is in it as a whole.
LEMMA WholePages ==
  ASSUME TypeOK, Aligned, NEW b \in Addr, RegionsAt(GuestPageAlignDown(b)) # {}
  PROVE  RegionsAt(b) # {}
<1> DEFINE p == GuestPageAlignDown(b)
<1>1. PICK r \in regions : r.addr <= p /\ p < RangeEnd(r)
  BY DEF RegionsAt
<1>2. GuestPage \in Nat \ {0} /\ b \in Nat
  BY PagingAssumption DEF Addr
<1>3. p \in Nat /\ p % GuestPage = 0 /\ p <= b /\ b < p + GuestPage
  BY <1>2, AlignDownPage DEF GuestPageAlignDown
<1>4. r.addr \in Addr /\ r.length \in Addr
  BY DEF TypeOK, Region
<1>5. RangeEnd(r) \in Addr /\ RangeEnd(r) % GuestPage = 0
  BY <1>4, AddCases, GuestSums DEF RangeEnd, Aligned
<1> HIDE DEF p
<1>6. p + GuestPage <= RangeEnd(r)
  BY <1>1, <1>2, <1>3, <1>5, MultipleGap DEF Addr
<1>7. r.addr <= b /\ b < RangeEnd(r)
  BY <1>1, <1>2, <1>3, <1>4, <1>5, <1>6 DEF Addr
<1> QED
  BY <1>7 DEF RegionsAt

\* isMapped looks at every page of the range.
LEMMA MappedSound == TypeOK /\ Aligned => MappedIsSound
<1> SUFFICES ASSUME TypeOK, Aligned,
                    NEW a \in Addr, NEW n \in 1 .. Mod - GuestPage - a,
                    isMapped(a, n), NEW b \in a .. a + n - 1
             PROVE  RegionsAt(b) # {}
  BY DEF MappedIsSound
<1> DEFINE p == GuestPageAlignDown(b)
           last == a + n - 1
<1>1. GuestPage \in Nat \ {0} /\ Mod \in Nat /\ GuestPage <= Mod
  BY PageBelowMod, PagingAssumption
<1>2. a \in Nat /\ n \in Nat /\ b \in Nat /\ last \in Nat
      /\ a <= b /\ b <= last /\ last + GuestPage - 1 < Mod /\ n > 0
  BY <1>1 DEF Addr
<1>3. b \in Addr /\ last \in Addr /\ n - 1 \in Addr /\ GuestPage - 1 \in Addr
  BY <1>1, <1>2 DEF Addr
<1>4. Add(a, n - 1) = last
  BY <1>1, <1>2, <1>3, AddCases DEF Addr
<1>5. p \in GuestPages
  <2>1. p % GuestPage = 0 /\ p \in Addr
    BY <1>1, <1>2, <1>3, AlignDownPage, AlignDownAddr DEF GuestPageAlignDown
  <2> QED
    BY <2>1 DEF GuestPages
<1>6. GuestPageAlignDown(a) <= p
  <2>1. /\ GuestPageAlignDown(a) \in Nat /\ GuestPageAlignDown(a) % GuestPage = 0
        /\ GuestPageAlignDown(a) <= a
    BY <1>1, <1>2, AlignDownPage DEF GuestPageAlignDown
  <2> QED
    BY <1>1, <1>2, <2>1, AlignDownLargest DEF GuestPageAlignDown
<1>7. p <= GuestPageAlignUp(last)
  <2>1. last <= GuestPageAlignUp(last)
    BY <1>2, <1>3, AlignUpPage DEF GuestPageAlignUp
  <2>2. GuestPageAlignUp(last) \in Nat
    BY <1>3, AlignUpPage DEF GuestPageAlignUp, Addr
  <2>3. p \in Nat /\ p <= b
    BY <1>1, <1>2, AlignDownPage DEF GuestPageAlignDown
  <2> QED
    BY <1>2, <2>1, <2>2, <2>3
<1>8. RegionsAt(p) # {}
  BY <1>2, <1>4, <1>5, <1>6, <1>7 DEF isMapped
<1> QED
  BY <1>3, <1>8, WholePages

THEOREM RegionsAligned == Spec => []Aligned
<1>1. Init => Aligned
  BY DEF Init, Aligned
<1> QED
  BY <1>1, Invariant, AlignedByNext, PTL DEF Spec

\* isMapped never vouches for a byte that no region has, whatever was mapped
\* and protected before.
THEOREM Mapped_Sound == Spec => []MappedIsSound
<1>1. IInv /\ Aligned => MappedIsSound
  BY MappedSound DEF IInv
<1> QED
  BY <1>1, Invariant, RegionsAligned, PTL

(***************************************************************************)
(* Regions and pages.  A range that ends in the last page of the address    *)
(* space has an end that rounds to 0: map then records a region longer than *)
(* what mmap gave when host pages are larger, and isMapped is true of what   *)
(* no region has.  No other range needs excluding.                          *)
(***************************************************************************)

\* The client's ranges end below the last page.
NoWrap == \A rng \in Ranges \cup Accesses : rng[1] + rng[2] + GuestPage <= Mod

\* A region is not empty and does not wrap.
Placed == \A r \in regions : r.length > 0 /\ r.addr + r.length < Mod

\* What was written is on pages the object owns or left behind.
DataBacked ==
  \A b \in data :
    /\ HostPageOf(b) \in HostPages
    /\ owner[HostPageOf(b)] \in {"guest", "leaked"}

Backed == IInv /\ Aligned /\ Placed /\ RegionsBacked /\ DataBacked

\* The rounded range of a call.
LEMMA RoundedRange ==
  ASSUME NEW g \in Addr, NEW n \in Addr, n > 0, g + n + GuestPage <= Mod
  PROVE  /\ MapStart(g) < MapEnd(g, n)
         /\ MapSize(g, n) = MapEnd(g, n) - MapStart(g)
<1>1. GuestPage \in Nat \ {0} /\ Mod \in Nat /\ g \in Nat /\ n \in Nat
  BY PagingAssumption DEF Addr
<1>2. MapStart(g) \in Addr /\ MapStart(g) <= g
  BY <1>1, RoundingAligned, AlignDownPage DEF MapStart, GuestPageAlignDown
<1>3. Add(g, n) = g + n /\ Add(g, n) \in Addr
  BY <1>1, AddCases
<1>4. Add(g, n) + GuestPage - 1 < Mod
  BY <1>1, <1>3
<1>5. MapEnd(g, n) \in Addr /\ Add(g, n) <= MapEnd(g, n)
  BY <1>3, <1>4, AlignUpPage DEF MapEnd, GuestPageAlignUp
<1>6. MapStart(g) < MapEnd(g, n)
  BY <1>1, <1>2, <1>3, <1>5 DEF Addr
<1> QED
  BY <1>2, <1>5, <1>6, SubCases DEF MapSize, Addr

\* Every byte of the rounded range is on a page mmap was asked for.
LEMMA MapCovers ==
  ASSUME TypeOK, Geometry, live,
         NEW g \in Addr, NEW n \in Addr, n > 0, g + n + GuestPage <= Mod,
         MapAccepted(g, n),
         NEW a \in MapStart(g) .. MapEnd(g, n) - 1
  PROVE  HostPageOf(toHost(a)) \in PageRange(Desired(g), HostSize(g, n))
<1> DEFINE st == MapStart(g)
           en == MapEnd(g, n)
           hb == HostBase(g)
           he == AlignUp(en, HostPage)
           base == Desired(g)
           size == HostSize(g, n)
           off == hostOffset
<1>1. /\ st \in Addr /\ en \in Addr /\ hb \in Addr /\ hb <= st
      /\ off \in Addr /\ base \in Addr /\ size \in Addr
      /\ reservedHigh \in Addr
  BY RoundingTypes DEF TypeOK
<1>2. HostPage \in Nat \ {0} /\ Mod \in Nat \ {0} /\ TaskSize \in Nat
      /\ TaskSize + HostPage <= Mod
  BY PagingAssumption
<1>3. st < en /\ MapSize(g, n) = en - st /\ MapSize(g, n) \in Addr
  BY RoundedRange, RoundingTypes DEF TypeOK
<1>4. /\ isAddressable(st, MapSize(g, n))
      /\ size > 0 /\ base % HostPage = 0 /\ base + size <= TaskSize
  BY DEF MapAccepted, UserRange
<1>5. he \in Addr /\ (Mod <= en + HostPage - 1 => he = 0)
      /\ (en + HostPage - 1 < Mod => en <= he)
  BY <1>1, AlignUpPage
<1>6. base = (IF hb + off < Mod THEN hb + off ELSE hb + off - Mod)
  BY <1>1, AddCases DEF Desired
<1>7. size = (IF hb <= he THEN he - hb ELSE he - hb + Mod)
  BY <1>1, <1>5, SubCases DEF HostSize
<1> HIDE DEF st, en, hb, he, base, size, off
<1>8. en <= he
  <2>1. SUFFICES ASSUME Mod <= en + HostPage - 1 PROVE FALSE
    BY <1>1, <1>2, <1>5 DEF Addr
  <2>2. CASE isIdentity
    <3>1. off = 0
      BY <2>2 DEF isIdentity, off
    <3>2. base = hb
      BY <1>1, <1>2, <1>6, <3>1 DEF Addr
    <3> QED
      BY <1>1, <1>2, <1>4, <1>5, <1>7, <2>1, <3>2 DEF Addr
  <2>3. CASE ~isIdentity
    <3>1. Add(st, MapSize(g, n)) <= reservedHigh
      BY <1>4, <2>3 DEF isAddressable
    <3>2. Add(st, MapSize(g, n)) = en
      BY <1>1, <1>2, <1>3, AddCases DEF Addr
    <3>3. reservedHigh + HostPage <= Mod
      BY <1>1, AlignedRoom DEF Geometry
    <3> QED
      BY <1>1, <1>2, <2>1, <3>1, <3>2, <3>3 DEF Addr
  <2> QED
    BY <2>2, <2>3
<1>9. a \in Addr /\ hb <= a /\ a < he
  <2>1. a \in st .. en - 1
    BY DEF st, en
  <2> QED
    BY <1>1, <1>2, <1>5, <1>8, <2>1 DEF Addr
<1>10. size = he - hb
  BY <1>1, <1>5, <1>7, <1>9 DEF Addr
<1>11. toHost(a) = IF a + off < Mod THEN a + off ELSE a + off - Mod
  BY <1>1, <1>9, AddCases DEF toHost, off
<1>12. toHost(a) = base + (a - hb)
  BY <1>1, <1>2, <1>4, <1>5, <1>6, <1>9, <1>10, <1>11 DEF Addr
<1>13. toHost(a) \in Nat /\ base <= toHost(a) /\ toHost(a) < base + size
  BY <1>1, <1>5, <1>9, <1>10, <1>12 DEF Addr
<1> DEFINE p == HostPageOf(toHost(a))
<1>14. p \in Nat /\ p <= toHost(a) /\ p % HostPage = 0
  BY <1>2, <1>13, AlignDownPage DEF HostPageOf
<1>15. base <= p
  <2>1. base \in Nat
    BY <1>1, <1>2 DEF Addr
  <2> QED
    BY <1>2, <1>4, <1>13, <2>1, AlignDownLargest DEF HostPageOf
<1> HIDE DEF p
<1>16. p < base + size /\ p \in 0 .. TaskSize - 1
  BY <1>1, <1>2, <1>4, <1>13, <1>14 DEF Addr
<1>17. p \in PageRange(base, size)
  BY <1>14, <1>15, <1>16 DEF PageRange, HostPages
<1> QED
  BY <1>17 DEF p, base, size

\* Splitting a region invents no byte.
LEMMA PiecesWithin ==
  ASSUME NEW r \in Region, r.length > 0, r.addr + r.length < Mod,
         NEW start \in Addr, NEW end \in Addr, start < end, NEW prot,
         Touches(r, start, end),
         NEW piece \in Pieces(r, start, end, prot)
  PROVE  /\ piece.length > 0
         /\ piece.addr + piece.length < Mod
         /\ Bytes(piece) \subseteq Bytes(r)
<1> DEFINE x == r.addr
           y == RangeEnd(r)
           lo == MaxOf(x, start)
           hi == MinOf(y, end)
<1>1. x \in Addr /\ r.length \in Addr /\ Mod \in Nat
  BY PagingAssumption DEF Region
<1>2. y = x + r.length /\ y \in Addr /\ x < y
  <2>1. y = Add(x, r.length) /\ y \in Addr
    BY <1>1, AddCases DEF RangeEnd
  <2>2. x \in Nat /\ r.length \in Nat
    BY <1>1 DEF Addr
  <2>3. x + r.length < Mod
    OBVIOUS
  <2>4. Add(x, r.length) = x + r.length
    BY <1>1, <2>3, AddCases
  <2> QED
    BY <2>1, <2>2, <2>4
<1>3. start < y /\ x < end
  BY <1>1, <1>2 DEF Touches, Addr
<1>4. /\ lo \in Addr /\ hi \in Addr /\ lo < hi
      /\ x <= lo /\ hi <= y
  BY <1>1, <1>2, <1>3 DEF MaxOf, MinOf, Addr
<1>5. Bytes(r) = x .. y - 1
  <2>1. Bytes(r) = r.addr .. r.addr + r.length - 1
    BY DEF Bytes
  <2>2. r.addr + r.length - 1 = y - 1
    BY <1>1, <1>2 DEF Addr
  <2> QED
    BY <2>1, <2>2
<1>6. \/ piece = [addr |-> lo, length |-> Sub(hi, lo), prot |-> prot]
      \/ x \in 0 .. start - 1 /\ piece = [r EXCEPT !.length = Sub(start, x)]
      \/ end \in 0 .. y - 1 /\ piece = [r EXCEPT !.addr = end, !.length = Sub(y, end)]
  BY DEF Pieces
<1> HIDE DEF x, y, lo, hi
<1>7. ASSUME NEW from \in Addr, NEW to \in Addr, from < to, x <= from, to <= y,
             piece.addr = from, piece.length = Sub(to, from)
      PROVE  /\ piece.length > 0
             /\ piece.addr + piece.length < Mod
             /\ Bytes(piece) \subseteq Bytes(r)
  <2>1. Sub(to, from) = to - from
    BY <1>7, SubCases DEF Addr
  <2>2. piece.addr + piece.length = to
    BY <1>7, <2>1 DEF Addr
  <2>3. Bytes(piece) = from .. to - 1
    <3>1. Bytes(piece) = piece.addr .. piece.addr + piece.length - 1
      BY DEF Bytes
    <3>2. piece.addr \in Int /\ piece.length \in Int
      BY <1>7, <2>1 DEF Addr
    <3>3. piece.addr + piece.length - 1 = to - 1
      BY <2>2, <3>2
    <3> QED
      BY <1>7, <3>1, <3>3
  <2> QED
    BY <1>1, <1>2, <1>5, <1>7, <2>1, <2>2, <2>3 DEF Addr
<1>8. CASE piece = [addr |-> lo, length |-> Sub(hi, lo), prot |-> prot]
  <2>1. piece.addr = lo /\ piece.length = Sub(hi, lo)
    BY <1>8
  <2> QED
    BY <1>4, <1>7, <2>1
<1>9. CASE x \in 0 .. start - 1 /\ piece = [r EXCEPT !.length = Sub(start, x)]
  <2>1. piece.addr = x /\ piece.length = Sub(start, x)
    BY <1>9 DEF Region, x
  <2>2. x < start /\ x <= x /\ start <= y
    BY <1>1, <1>2, <1>3, <1>9 DEF Addr
  <2> QED
    BY <1>1, <1>7, <2>1, <2>2
<1>10. CASE end \in 0 .. y - 1 /\ piece = [r EXCEPT !.addr = end, !.length = Sub(y, end)]
  <2>1. piece.addr = end /\ piece.length = Sub(y, end)
    BY <1>10 DEF Region
  <2>2. end < y /\ x <= end /\ y <= y
    BY <1>1, <1>2, <1>3, <1>10 DEF Addr
  <2> QED
    BY <1>2, <1>7, <2>1, <2>2
<1> QED
  BY <1>6, <1>8, <1>9, <1>10

\* Taking pages leaves every backed byte backed: it is on the same page, now
\* or still the object's, or it is gone.
LEMMA TakeBacked ==
  ASSUME TypeOK, NEW pages, NEW prot, Take(pages, prot)
  PROVE  /\ DataBacked => DataBacked'
         /\ \A p \in HostPages : owner[p] = "guest" \/ p \in pages => owner'[p] = "guest"
<1>1. \A p \in HostPages : owner'[p] = IF p \in pages THEN "guest" ELSE owner[p]
  BY DEF Take
<1>2. data' = {b \in data : HostPageOf(b) \notin pages}
  BY DEF Take
<1> QED
  BY <1>1, <1>2 DEF DataBacked

\* What a step that keeps the regions, the offset and the object's pages
\* keeps.
LEMMA RegionsUntouched ==
  ASSUME Placed, RegionsBacked, UNCHANGED <<hostOffset, regions>>,
         \A p \in HostPages : owner[p] = "guest" => owner'[p] = "guest"
  PROVE  Placed' /\ RegionsBacked'
  BY DEF Placed, RegionsBacked, toHost, Bytes

LEMMA NoRegions ==
  ASSUME regions' = {}
  PROVE  Placed' /\ RegionsBacked'
  BY DEF Placed, RegionsBacked

\* A byte written through an accepted access is on a page of the object.
LEMMA WriteBacked ==
  ASSUME Backed, NEW g \in Addr, NEW n \in Addr, n > 0, g + n + GuestPage <= Mod,
         AccessAccepted(g, n), HostAllows(g, n, "w"),
         NEW h \in HostBytes(g, n)
  PROVE  HostPageOf(h) \in HostPages /\ owner[HostPageOf(h)] = "guest"
<1> DEFINE a == g + (h - toHost(g))
<1>0. TypeOK /\ Aligned /\ Placed /\ RegionsBacked
  BY DEF Backed, IInv
<1>1. GuestPage \in Nat \ {0} /\ Mod \in Nat /\ g \in Nat /\ n \in Nat
  BY PagingAssumption DEF Addr
<1>2. /\ toHost(g) \in Addr /\ hostOffset \in Addr
      /\ toHost(g) = IF g + hostOffset < Mod THEN g + hostOffset
                                            ELSE g + hostOffset - Mod
  BY <1>0, AddCases DEF toHost, TypeOK
<1>3. h \in Addr
  BY <1>0, AllowedBytes
<1>4. h \in toHost(g) .. toHost(g) + n - 1
  BY DEF HostBytes
<1>5. a \in g .. g + n - 1 /\ a \in Addr
  BY <1>1, <1>2, <1>3, <1>4 DEF Addr
<1>6. toHost(a) = h
  <2>1. toHost(a) = IF a + hostOffset < Mod THEN a + hostOffset
                                          ELSE a + hostOffset - Mod
    BY <1>2, <1>5, AddCases DEF toHost
  <2> QED
    BY <1>1, <1>2, <1>3, <1>4, <1>5, <2>1 DEF Addr
<1> HIDE DEF a
<1>7. RegionsAt(a) # {}
  <2>1. n \in 1 .. Mod - GuestPage - g
    BY <1>1
  <2>2. isMapped(g, n)
    BY DEF AccessAccepted
  <2> QED
    BY <1>0, <1>5, <2>1, <2>2, MappedSound DEF MappedIsSound
<1>8. PICK r \in regions : r.addr <= a /\ a < RangeEnd(r)
  BY <1>7 DEF RegionsAt
<1>9. a \in Bytes(r)
  <2>1. r.addr \in Addr /\ r.length \in Addr /\ r.addr + r.length < Mod
    BY <1>0 DEF TypeOK, Region, Placed
  <2>2. RangeEnd(r) = r.addr + r.length
    BY <2>1, AddCases DEF RangeEnd
  <2> QED
    BY <1>5, <1>8, <2>1, <2>2 DEF Bytes, Addr
<1> QED
  BY <1>0, <1>6, <1>9 DEF RegionsBacked

LEMMA BackedByMap ==
  ASSUME NoWrap, Backed, Map
  PROVE  Placed' /\ RegionsBacked' /\ DataBacked'
<1>0. TypeOK /\ Geometry /\ Placed /\ RegionsBacked /\ DataBacked
  BY DEF Backed, IInv
<1>1. PICK rng \in Ranges :
        \/ \E prot \in Prots : MapOk(rng[1], rng[2], prot)
        \/ MapThrows(rng[1], rng[2])
  BY DEF Map
<1>2. /\ rng[1] \in Addr /\ rng[2] \in Addr
      /\ rng[1] + rng[2] + GuestPage <= Mod
  BY ClientAssumption DEF NoWrap
<1>3. CASE \E prot \in Prots : MapOk(rng[1], rng[2], prot)
  <2> DEFINE st == MapStart(rng[1])
             size == MapSize(rng[1], rng[2])
             pages == PageRange(Desired(rng[1]), HostSize(rng[1], rng[2]))
  <2>1. PICK prot \in Prots : MapOk(rng[1], rng[2], prot)
    BY <1>3
  <2>2. /\ live /\ rng[2] > 0 /\ MapAccepted(rng[1], rng[2]) /\ Take(pages, {"r", "w"})
        /\ regions' = regions \cup {[addr |-> st, length |-> size, prot |-> prot]}
        /\ UNCHANGED hostOffset
    BY <2>1 DEF MapOk, object
  <2>3. /\ DataBacked'
        /\ \A p \in HostPages : owner[p] = "guest" \/ p \in pages => owner'[p] = "guest"
    BY <1>0, <2>2, TakeBacked
  <2>4. /\ st \in Addr /\ MapEnd(rng[1], rng[2]) \in Addr
        /\ st < MapEnd(rng[1], rng[2])
        /\ size = MapEnd(rng[1], rng[2]) - st
    BY <1>2, <2>2, RoundedRange, RoundingAligned
  <2>5. size > 0 /\ st + size < Mod /\ st + size = MapEnd(rng[1], rng[2])
        /\ st \in Int /\ size \in Int
    BY <2>4, PagingAssumption DEF Addr
  <2>6. ASSUME NEW a \in st .. st + size - 1
        PROVE  HostPageOf(toHost(a)) \in HostPages /\ HostPageOf(toHost(a)) \in pages
    <3>1. st + size - 1 = MapEnd(rng[1], rng[2]) - 1
      BY <2>5
    <3>2. HostPageOf(toHost(a)) \in pages
      BY <1>0, <1>2, <2>2, <2>6, <3>1, MapCovers
    <3> QED
      BY <3>2 DEF PageRange
  <2> HIDE DEF st, size, pages
  <2>7. Placed'
    BY <1>0, <2>2, <2>5 DEF Placed
  <2>8. ASSUME NEW r \in regions', NEW a \in Bytes(r)
        PROVE  HostPageOf(toHost(a)) \in HostPages /\ owner'[HostPageOf(toHost(a))] = "guest"
    <3>1. CASE r \in regions
      BY <1>0, <2>3, <2>8, <3>1 DEF RegionsBacked
    <3>2. CASE r = [addr |-> st, length |-> size, prot |-> prot]
      <4>1. r.addr = st /\ r.length = size
        BY <3>2
      <4>2. a \in st .. st + size - 1
        BY <2>8, <4>1 DEF Bytes
      <4> QED
        BY <2>3, <2>6, <4>2
    <3> QED
      BY <2>2, <2>8, <3>1, <3>2
  <2>9. RegionsBacked'
    BY <2>2, <2>8 DEF RegionsBacked, toHost, Bytes
  <2> QED
    BY <2>3, <2>7, <2>9
<1>4. CASE MapThrows(rng[1], rng[2])
  BY <1>0, <1>4, RegionsUntouched DEF MapThrows, object, kernel, DataBacked
<1> QED
  BY <1>1, <1>3, <1>4

LEMMA BackedByProtect ==
  ASSUME NoWrap, Backed, Protect
  PROVE  Placed' /\ RegionsBacked' /\ DataBacked'
<1>0. TypeOK /\ Placed /\ RegionsBacked /\ DataBacked
  BY DEF Backed, IInv
<1>1. PICK rng \in Ranges :
        \/ \E prot \in Prots : ProtectOk(rng[1], rng[2], prot)
        \/ ProtectThrows(rng[1], rng[2])
  BY DEF Protect
<1>2. /\ rng[1] \in Addr /\ rng[2] \in Addr
      /\ rng[1] + rng[2] + GuestPage <= Mod
  BY ClientAssumption DEF NoWrap
<1>3. CASE \E prot \in Prots : ProtectOk(rng[1], rng[2], prot)
  <2> DEFINE start == MapStart(rng[1])
             end == MapEnd(rng[1], rng[2])
             touched == {r \in regions : Touches(r, start, end)}
  <2>1. PICK prot \in Prots : ProtectOk(rng[1], rng[2], prot)
    BY <1>3
  <2>2. /\ rng[2] > 0
        /\ regions' = (regions \ touched)
                        \cup UNION {Pieces(r, start, end, prot) : r \in touched}
        /\ UNCHANGED <<hostOffset, owner, data>>
    BY <2>1 DEF ProtectOk, object
  <2>3. start \in Addr /\ end \in Addr /\ start < end
    BY <1>2, <2>2, RoundedRange, RoundingAligned
  <2> HIDE DEF start, end
  <2>4. ASSUME NEW piece \in regions'
        PROVE  /\ piece.length > 0 /\ piece.addr + piece.length < Mod
               /\ \E r \in regions : Bytes(piece) \subseteq Bytes(r)
    <3>1. CASE piece \in regions
      BY <1>0, <3>1 DEF Placed
    <3>2. CASE \E r \in touched : piece \in Pieces(r, start, end, prot)
      <4>1. PICK r \in touched : piece \in Pieces(r, start, end, prot)
        BY <3>2
      <4>2. /\ r \in Region /\ r \in regions /\ Touches(r, start, end)
            /\ r.length > 0 /\ r.addr + r.length < Mod
        BY <1>0 DEF TypeOK, Placed
      <4>3. /\ piece.length > 0 /\ piece.addr + piece.length < Mod
            /\ Bytes(piece) \subseteq Bytes(r)
        BY <2>3, <4>1, <4>2, PiecesWithin
      <4> QED
        BY <4>2, <4>3
    <3> QED
      BY <2>2, <2>4, <3>1, <3>2
  <2>5. Placed'
    BY <2>4 DEF Placed
  <2>6. RegionsBacked'
    BY <1>0, <2>2, <2>4 DEF RegionsBacked, toHost, Bytes
  <2>7. DataBacked'
    BY <1>0, <2>2 DEF DataBacked
  <2> QED
    BY <2>5, <2>6, <2>7
<1>4. CASE ProtectThrows(rng[1], rng[2])
  BY <1>0, <1>4, RegionsUntouched DEF ProtectThrows, object, kernel, DataBacked
<1> QED
  BY <1>1, <1>3, <1>4

LEMMA BackedByAccess ==
  ASSUME NoWrap, Backed, Access
  PROVE  Placed' /\ RegionsBacked' /\ DataBacked'
<1>0. TypeOK /\ Placed /\ RegionsBacked /\ DataBacked
  BY DEF Backed, IInv
<1>1. PICK rng \in Accesses :
        \/ WriteOk(rng[1], rng[2])
        \/ ZeroOk(rng[1], rng[2])
        \/ ReadOk(rng[1], rng[2])
        \/ AccessThrows(rng[1], rng[2])
        \/ \E access \in {"r", "w"} : AccessFaults(rng[1], rng[2], access)
  BY DEF Access
<1>2. /\ rng[1] \in Addr /\ rng[2] \in Addr
      /\ rng[1] + rng[2] + GuestPage <= Mod
  BY ClientAssumption DEF NoWrap
<1>3. UNCHANGED <<hostOffset, regions, owner>>
  BY <1>1 DEF WriteOk, ZeroOk, ReadOk, AccessThrows, AccessFaults, object, kernel
<1>4. Placed' /\ RegionsBacked'
  BY <1>0, <1>3, RegionsUntouched
<1>5. CASE WriteOk(rng[1], rng[2])
  <2>1. \A h \in HostBytes(rng[1], rng[2]) :
          HostPageOf(h) \in HostPages /\ owner[HostPageOf(h)] = "guest"
    BY <1>2, <1>5, WriteBacked DEF WriteOk
  <2>2. data' = data \cup HostBytes(rng[1], rng[2])
    BY <1>5 DEF WriteOk
  <2> QED
    BY <1>0, <1>3, <1>4, <2>1, <2>2 DEF DataBacked
<1>6. CASE ~WriteOk(rng[1], rng[2])
  <2>1. data' \subseteq data
    BY <1>1, <1>6 DEF ZeroOk, ReadOk, AccessThrows, AccessFaults, kernel
  <2> QED
    BY <1>0, <1>3, <1>4, <2>1 DEF DataBacked
<1> QED
  BY <1>5, <1>6

LEMMA BackedByNext ==
  ASSUME NoWrap, Backed, [Next]_vars
  PROVE  Backed'
<1>0. TypeOK /\ WindowHeld /\ Placed /\ RegionsBacked /\ DataBacked
  BY DEF Backed, IInv
<1>1. IInv' /\ Aligned'
  BY NextInvariant, AlignedByNext DEF Backed
<1> SUFFICES Placed' /\ RegionsBacked' /\ DataBacked'
  BY <1>1 DEF Backed
<1>2. ASSUME UNCHANGED <<hostOffset, regions, owner, data>>
      PROVE  Placed' /\ RegionsBacked' /\ DataBacked'
  BY <1>0, <1>2, RegionsUntouched DEF DataBacked
<1>3. CASE Construct
  <2>1. PICK img \in Images :
          \/ ConstructIdentity(img[1], img[2])
          \/ \E base \in HostPages : ConstructBiased(img[1], img[2], img[3], base)
          \/ ConstructThrows
    BY <1>3 DEF Construct
  <2>2. CASE ConstructThrows
    BY <1>2, <2>2 DEF ConstructThrows, object, kernel
  <2>3. CASE ~ConstructThrows
    <3>1. regions' = {} /\ \E pages : Take(pages, {})
      BY <2>1, <2>3 DEF ConstructIdentity, ConstructBiased
    <3> QED
      BY <1>0, <3>1, NoRegions, TakeBacked
  <2> QED
    BY <2>2, <2>3
<1>4. CASE Map
  BY <1>4, BackedByMap
<1>5. CASE Protect
  BY <1>5, BackedByProtect
<1>6. CASE Access
  BY <1>6, BackedByAccess
<1>7. CASE EmptyCall
  BY <1>2, <1>7 DEF EmptyCall, object, kernel
<1>8. CASE Destroy
  <2>1. /\ regions' = {}
        /\ data' = {b \in data : HostPageOf(b) \notin Window}
        /\ \A p \in HostPages : owner'[p] = IF p \in Window THEN "free"
                              ELSE IF owner[p] = "guest" THEN "leaked" ELSE owner[p]
    BY <1>8 DEF Destroy
  <2>2. DataBacked'
    BY <1>0, <2>1 DEF DataBacked
  <2> QED
    BY <2>1, <2>2, NoRegions
<1>9. CASE HostStep
  <2>1. PICK q \in HostChurn : HostMaps(q) \/ HostUnmaps(q)
    BY <1>9 DEF HostStep
  <2>2. /\ owner[q] \in {"free", "other"}
        /\ \A p \in HostPages : p # q => owner'[p] = owner[p]
        /\ UNCHANGED <<hostOffset, regions, data>>
    BY <1>0, <2>1 DEF HostMaps, HostUnmaps, TypeOK, object
  <2>3. \A p \in HostPages : owner[p] \in {"guest", "leaked"} => owner'[p] = owner[p]
    BY <2>2
  <2>4. Placed' /\ RegionsBacked'
    BY <1>0, <2>2, <2>3, RegionsUntouched
  <2>5. DataBacked'
    BY <1>0, <2>2, <2>3 DEF DataBacked
  <2> QED
    BY <2>4, <2>5
<1>10. CASE UNCHANGED vars
  BY <1>2, <1>10 DEF vars, object, kernel
<1> QED
  BY <1>3, <1>4, <1>5, <1>6, <1>7, <1>8, <1>9, <1>10 DEF Next

LEMMA BackedAlways ==
  ASSUME NoWrap
  PROVE  Spec => []Backed
<1>1. Init => Backed
  BY InitInvariant DEF Backed, Init, Aligned, Placed, RegionsBacked, DataBacked
<1>2. Backed /\ [Next]_vars => Backed'
  BY BackedByNext
<1> QED
  BY <1>1, <1>2, PTL DEF Spec

\* m_regions never promises memory that toHost resolves to a hole or to a page
\* of the rest of the process.
THEOREM Regions_Backed ==
  ASSUME NoWrap
  PROVE  Spec => []RegionsBacked
<1>1. Backed => RegionsBacked
  BY DEF Backed
<1> QED
  BY <1>1, BackedAlways, PTL

\* What the guest writes stays off the pages of the rest of the process, also
\* of those it maps later.
THEOREM Data_InGuest ==
  ASSUME NoWrap
  PROVE  Spec => []DataInGuest
<1>1. Backed => DataInGuest
  BY DEF Backed, DataBacked, DataInGuest
<1> QED
  BY <1>1, BackedAlways, PTL
=============================================================================
