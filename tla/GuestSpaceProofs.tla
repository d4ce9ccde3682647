-------------------------- MODULE GuestSpaceProofs --------------------------
(***************************************************************************)
(* GuestMemory implements AddressSpace: with host pages of the guest's size *)
(* and ranges that end below the last page (NoWrap), every step is a step of *)
(* a flat address space or a stutter.                                      *)
(*                                                                         *)
(* Two facts carry it.  toHost is injective, so what a call does to its own *)
(* host bytes it does to its own guest bytes and to no other (BytesExact for *)
(* accesses, PagesExact for map).  And the pieces protect cuts a region into *)
(* hold the bytes the region held, each with one permission (PiecesExact).  *)
(***************************************************************************)
EXTENDS GuestMemoryProofs

SmallHostPages == HostPage = GuestPage

\* Without an object there is no region.
Idle == ~live => regions = {}

SpaceInv == Backed /\ Idle

Has(r, a) == r.addr <= a /\ a < RangeEnd(r)
Perms == [a \in Addr |-> {r.prot : r \in RegionsAt(a)}]

\* The host bytes of an access are those of the guest bytes it is about.
LEMMA BytesExact ==
  ASSUME TypeOK, NEW g \in Addr, NEW n \in Addr, n > 0, g + n <= Mod,
         HostBytes(g, n) \subseteq Addr,
         NEW a \in Addr
  PROVE  toHost(a) \in HostBytes(g, n) <=> a \in g .. g + n - 1
<1>1. Mod \in Nat /\ g \in Nat /\ n \in Nat /\ a \in Nat /\ a < Mod
      /\ hostOffset \in Nat /\ hostOffset < Mod
  BY PagingAssumption DEF Addr, TypeOK
<1>2. /\ toHost(g) \in Nat
      /\ toHost(g) = IF g + hostOffset < Mod THEN g + hostOffset
                                            ELSE g + hostOffset - Mod
      /\ toHost(a) \in Nat
      /\ toHost(a) = IF a + hostOffset < Mod THEN a + hostOffset
                                            ELSE a + hostOffset - Mod
  BY AddCases DEF toHost, TypeOK, Addr
<1>3. toHost(g) + n - 1 \in Addr
  BY <1>1, <1>2 DEF HostBytes
<1>4. toHost(g) + n <= Mod
  BY <1>1, <1>2, <1>3 DEF Addr
<1>5. toHost(a) \in HostBytes(g, n) <=> toHost(g) <= toHost(a) /\ toHost(a) < toHost(g) + n
  BY <1>1, <1>2 DEF HostBytes
<1>6. a \in g .. g + n - 1 <=> g <= a /\ a < g + n
  BY <1>1
<1>7. toHost(g) <= toHost(a) /\ toHost(a) < toHost(g) + n <=> g <= a /\ a < g + n
  BY <1>1, <1>2, <1>4
<1> QED
  BY <1>5, <1>6, <1>7

\* With host pages of the guest's size nothing is rounded twice.
LEMMA RoundedOnce ==
  ASSUME SmallHostPages, NEW g \in Addr, NEW n \in Addr, n > 0, g + n + GuestPage <= Mod
  PROVE  /\ HostBase(g) = MapStart(g)
         /\ AlignUp(MapEnd(g, n), HostPage) = MapEnd(g, n)
         /\ HostSize(g, n) = MapEnd(g, n) - MapStart(g)
<1> DEFINE st == MapStart(g)
           en == MapEnd(g, n)
           size == HostSize(g, n)
<1>1. st \in Addr /\ en \in Addr
  BY RoundingAligned
<1>2. HostPage \in Nat \ {0} /\ Mod \in Nat \ {0}
  BY PagingAssumption
<1>3. st < en /\ st % HostPage = 0 /\ en % HostPage = 0
  BY RoundedRange, RoundingAligned DEF SmallHostPages
<1>5. HostBase(g) = st
  <2>0. st \in Nat
    BY <1>1 DEF Addr
  <2>1. HostBase(g) \in Nat /\ HostBase(g) <= st
    BY <1>2, <2>0, AlignDownPage DEF HostBase
  <2>2. st <= HostBase(g)
    BY <1>1, <1>2, <1>3, AlignDownLargest DEF HostBase, Addr
  <2> QED
    BY <1>1, <2>1, <2>2 DEF Addr
<1>6. AlignUp(en, HostPage) = en
  <2>1. AlignUp(en, HostPage) <= en
    BY <1>1, <1>3, AlignUpBelow DEF Addr
  <2>2. en + HostPage <= Mod
    BY <1>1, <1>3, AlignedRoom
  <2>3. en <= AlignUp(en, HostPage) /\ AlignUp(en, HostPage) \in Addr
    BY <1>1, <1>2, <2>2, AlignUpPage DEF Addr
  <2> QED
    BY <1>1, <2>1, <2>3 DEF Addr
<1>7. size = en - st
  BY <1>1, <1>3, <1>5, <1>6, SubCases DEF HostSize, Addr
<1> QED
  BY <1>5, <1>6, <1>7

\* The host pages map claims are those of the rounded guest range.
LEMMA PagesExact ==
  ASSUME SmallHostPages, TypeOK, Geometry, live,
         NEW g \in Addr, NEW n \in Addr, n > 0, g + n + GuestPage <= Mod,
         MapAccepted(g, n),
         NEW a \in Addr
  PROVE  HostPageOf(toHost(a)) \in PageRange(Desired(g), HostSize(g, n))
           <=> a \in MapStart(g) .. MapEnd(g, n) - 1
<1> DEFINE st == MapStart(g)
           en == MapEnd(g, n)
           base == Desired(g)
           size == HostSize(g, n)
           p == HostPageOf(toHost(a))
<1>1. /\ st \in Addr /\ en \in Addr /\ base \in Addr /\ size \in Addr
      /\ hostOffset \in Addr
  BY RoundingTypes DEF TypeOK
<1>2. HostPage \in Nat \ {0} /\ Mod \in Nat \ {0} /\ TaskSize \in Nat
      /\ TaskSize + HostPage <= Mod
  BY PagingAssumption
<1>3. st < en /\ st % HostPage = 0 /\ en % HostPage = 0
  BY RoundedRange, RoundingAligned DEF SmallHostPages
<1>4. size > 0 /\ base % HostPage = 0 /\ base + size <= TaskSize
  BY DEF MapAccepted, UserRange
<1>5. HostBase(g) = st /\ AlignUp(en, HostPage) = en /\ size = en - st
  BY RoundedOnce
<1>8. size % HostPage = 0
  <2>1. Sub(en, st) % GuestPage = 0
    BY <1>1, <1>3, GuestSums DEF SmallHostPages
  <2> QED
    BY <1>5, <2>1 DEF HostSize, SmallHostPages
<1>9. (base + size) % HostPage = 0
  <2>1. Add(base, size) = base + size
    BY <1>1, <1>2, <1>4, AddCases DEF Addr
  <2> QED
    BY <1>1, <1>4, <1>8, <2>1, AddAligned
<1>10. base = IF st + hostOffset < Mod THEN st + hostOffset
                                      ELSE st + hostOffset - Mod
  BY <1>1, <1>5, AddCases DEF Desired
<1>11. /\ toHost(a) \in Addr
       /\ toHost(a) = IF a + hostOffset < Mod THEN a + hostOffset
                                             ELSE a + hostOffset - Mod
  BY <1>1, AddCases DEF toHost
<1> HIDE DEF st, en, base, size
<1>12. base <= toHost(a) /\ toHost(a) < base + size <=> st <= a /\ a < en
  BY <1>1, <1>2, <1>3, <1>4, <1>5, <1>10, <1>11 DEF Addr
<1>13. /\ p \in Nat /\ p <= toHost(a) /\ toHost(a) < p + HostPage
       /\ p % HostPage = 0
  <2>1. toHost(a) \in Nat
    BY <1>2, <1>11 DEF Addr
  <2> QED
    BY <1>2, <2>1, AlignDownPage DEF HostPageOf
<1>14. p \in PageRange(base, size) => base <= toHost(a) /\ toHost(a) < base + size
  <2>1. SUFFICES ASSUME p \in PageRange(base, size)
                 PROVE  base <= toHost(a) /\ toHost(a) < base + size
    OBVIOUS
  <2>2. base <= p /\ p < base + size
    BY <2>1 DEF PageRange
  <2>3. base + size \in Nat
    BY <1>1 DEF Addr
  <2>4. p + HostPage <= base + size
    BY <1>2, <1>9, <1>13, <2>2, <2>3, MultipleGap
  <2> QED
    BY <1>1, <1>2, <1>11, <1>13, <2>2, <2>4 DEF Addr
<1>15. st <= a /\ a < en => p \in PageRange(base, size)
  <2>1. SUFFICES ASSUME st <= a, a < en PROVE p \in PageRange(base, size)
    OBVIOUS
  <2>2. a \in MapStart(g) .. MapEnd(g, n) - 1
    BY <1>1, <2>1 DEF st, en, Addr
  <2> QED
    BY <2>2, MapCovers DEF base, size
<1>16. a \in st .. en - 1 <=> st <= a /\ a < en
  BY <1>1 DEF Addr
<1>17. p \in PageRange(base, size) <=> a \in st .. en - 1
  BY <1>12, <1>14, <1>15, <1>16
<1> QED
  BY <1>17 DEF p, st, en, base, size

\* The pieces of a region hold its bytes; those in the range have the new
\* permission, the others keep theirs.
LEMMA PiecesExact ==
  ASSUME NEW r \in Region, r.length > 0, r.addr + r.length < Mod,
         NEW start \in Addr, NEW end \in Addr, start < end,
         NEW prot \in SUBSET {"r", "w", "x"},
         Touches(r, start, end),
         NEW a \in Addr
  PROVE  /\ \A q \in Pieces(r, start, end, prot) :
              Has(q, a) =>
                /\ Has(r, a)
                /\ q.prot = IF a \in start .. end - 1 THEN prot ELSE r.prot
         /\ Has(r, a) => \E q \in Pieces(r, start, end, prot) : Has(q, a)
<1> DEFINE x == r.addr
           y == RangeEnd(r)
           lo == MaxOf(x, start)
           hi == MinOf(y, end)
           body == [addr |-> lo, length |-> Sub(hi, lo), prot |-> prot]
           before == [r EXCEPT !.length = Sub(start, x)]
           after == [r EXCEPT !.addr = end, !.length = Sub(y, end)]
<1>1. x \in Addr /\ r.length \in Addr /\ Mod \in Nat
  BY PagingAssumption DEF Region
<1>2. y = x + r.length /\ y \in Addr /\ x < y
  <2>1. x \in Nat /\ r.length \in Nat
    BY <1>1 DEF Addr
  <2>2. y \in Addr /\ y = x + r.length
    BY <1>1, <2>1, AddCases DEF RangeEnd
  <2> QED
    BY <2>1, <2>2
<1>3. start < y /\ x < end
  BY <1>1, <1>2 DEF Touches, Addr
<1>4. lo \in Addr /\ hi \in Addr /\ lo < hi
  BY <1>1, <1>2, <1>3 DEF MaxOf, MinOf, Addr
<1>5. /\ lo = IF x < start THEN start ELSE x
      /\ hi = IF y < end THEN y ELSE end
  BY DEF MaxOf, MinOf
<1>6. Pieces(r, start, end, prot) =
        {body} \cup (IF x < start THEN {before} ELSE {})
               \cup (IF end < y THEN {after} ELSE {})
  <2>1. x \in {x} \cap 0 .. start - 1 <=> x < start
    BY <1>1 DEF Addr
  <2>2. end \in {end} \cap 0 .. y - 1 <=> end < y
    BY <1>2 DEF Addr
  <2> QED
    BY <2>1, <2>2 DEF Pieces
<1>7. body.addr = lo /\ body.length = Sub(hi, lo) /\ body.prot = prot
  OBVIOUS
<1>8. before.addr = x /\ before.length = Sub(start, x) /\ before.prot = r.prot
  BY DEF Region
<1>9. after.addr = end /\ after.length = Sub(y, end) /\ after.prot = r.prot
  BY DEF Region
<1> HIDE DEF x, y, lo, hi, body, before, after
<1>10. \A from, to \in Addr : from < to => Add(from, Sub(to, from)) = to
  BY <1>1, AddCases, SubCases DEF Addr
<1>11. /\ RangeEnd(body) = hi
       /\ x < start => RangeEnd(before) = start
       /\ end < y => RangeEnd(after) = y
  BY <1>1, <1>2, <1>4, <1>7, <1>8, <1>9, <1>10 DEF RangeEnd
<1>12. Has(r, a) <=> x <= a /\ a < y
  BY DEF Has, x, y
<1>13. Has(body, a) <=> lo <= a /\ a < hi
  BY <1>7, <1>11 DEF Has
<1>14. x < start => (Has(before, a) <=> x <= a /\ a < start)
  BY <1>8, <1>11 DEF Has
<1>15. end < y => (Has(after, a) <=> end <= a /\ a < y)
  BY <1>9, <1>11 DEF Has
<1>16. /\ a \in Int /\ x \in Int /\ y \in Int /\ start \in Int /\ end \in Int
       /\ (a \in start .. end - 1 <=> start <= a /\ a < end)
  BY <1>1, <1>2 DEF Addr
<1>17. ASSUME NEW q \in Pieces(r, start, end, prot), Has(q, a)
       PROVE  /\ Has(r, a)
              /\ q.prot = IF a \in start .. end - 1 THEN prot ELSE r.prot
  <2>1. CASE q = body
    BY <1>3, <1>5, <1>7, <1>12, <1>13, <1>16, <1>17, <2>1
  <2>2. CASE x < start /\ q = before
    BY <1>3, <1>8, <1>12, <1>14, <1>16, <1>17, <2>2
  <2>3. CASE end < y /\ q = after
    BY <1>3, <1>9, <1>12, <1>15, <1>16, <1>17, <2>3
  <2> QED
    BY <1>6, <1>17, <2>1, <2>2, <2>3
<1>18. ASSUME Has(r, a)
       PROVE  \E q \in Pieces(r, start, end, prot) : Has(q, a)
  <2>1. CASE a < start
    BY <1>6, <1>12, <1>14, <1>16, <1>18, <2>1
  <2>2. CASE end <= a
    BY <1>6, <1>12, <1>15, <1>16, <1>18, <2>2
  <2>3. CASE start <= a /\ a < end
    BY <1>5, <1>6, <1>12, <1>13, <1>16, <1>18, <2>3
  <2> QED
    BY <1>16, <2>1, <2>2, <2>3
<1> QED
  BY <1>17, <1>18
(***************************************************************************)
(* What each call does to the guest's view.                                *)
(***************************************************************************)

\* A call that leaves the regions and the offset alone, and the data too, is
\* not seen by the guest.
LEMMA Unseen ==
  ASSUME UNCHANGED <<hostOffset, regions, data>>
  PROVE  UNCHANGED Space!space
  BY DEF Space!space, Contents, RegionsAt, toHost

\* With no regions before and after, nothing is mapped and nothing is seen.
LEMMA UnseenEmpty ==
  ASSUME regions = {}, regions' = {}
  PROVE  UNCHANGED Space!space
  BY DEF Space!space, Contents, RegionsAt

LEMMA DestroyClears ==
  ASSUME regions' = {}
  PROVE  Space!Clear
  BY DEF Space!Clear, Contents, RegionsAt

\* map: the rounded range becomes readable as zero, all else stays.
LEMMA MapSeen ==
  ASSUME SmallHostPages, TypeOK, Geometry,
         NEW g \in Addr, NEW n \in Addr, g + n + GuestPage <= Mod,
         NEW prot, MapOk(g, n, prot)
  PROVE  Space!Map(MapStart(g) .. MapEnd(g, n) - 1, prot)
<1> DEFINE st == MapStart(g)
           en == MapEnd(g, n)
           span == st .. en - 1
           new == [addr |-> st, length |-> MapSize(g, n), prot |-> prot]
           pages == PageRange(Desired(g), HostSize(g, n))
<1>0. TypeOK /\ Geometry
  OBVIOUS
<1>1. /\ g \in Addr /\ n \in Addr
      /\ g + n + GuestPage <= Mod
  OBVIOUS
<1>2. /\ live /\ n > 0 /\ MapAccepted(g, n)
      /\ regions' = regions \cup {new}
      /\ data' = {b \in data : HostPageOf(b) \notin pages}
      /\ hostOffset' = hostOffset
  BY DEF MapOk, Take, object
<1>3. \A a \in Addr : HostPageOf(toHost(a)) \in pages <=> a \in span
  BY <1>0, <1>1, <1>2, PagesExact
<1>4. RangeEnd(new) = en
  <2>1. st \in Addr /\ en \in Addr /\ MapSize(g, n) = en - st /\ st < en
    BY <1>1, <1>2, RoundingAligned, RoundedRange
  <2>2. Add(st, en - st) = en
    BY <2>1, PagingAssumption DEF Add, Addr
  <2> QED
    BY <2>1, <2>2 DEF RangeEnd
<1>5. \A a \in Addr : new.addr <= a /\ a < RangeEnd(new) <=> a \in span
  <2>1. st \in Addr /\ en \in Addr /\ new.addr = st
    BY <1>1, RoundingAligned
  <2> HIDE DEF st, en, new
  <2> QED
    BY <1>4, <2>1 DEF Addr
<1> HIDE DEF span, pages
<1>6. new.prot = prot
  OBVIOUS
<1> HIDE DEF new
<1>7. \A a \in Addr :
        RegionsAt(a)' = IF a \in span THEN RegionsAt(a) \cup {new} ELSE RegionsAt(a)
  BY <1>2, <1>5 DEF RegionsAt, RangeEnd
<1>8. Perms' = [a \in Addr |-> IF a \in span THEN Perms[a] \cup {prot} ELSE Perms[a]]
  BY <1>6, <1>7 DEF Perms
<1>9. Contents(data)' = Contents(data) \ span
  BY <1>2, <1>3, <1>7 DEF Contents, toHost
<1> QED
  BY <1>8, <1>9 DEF Space!Map, Perms, span

\* protect: what is mapped in the rounded range gets the permission.
LEMMA ProtectSeen ==
  ASSUME TypeOK, Placed,
         NEW g \in Addr, NEW n \in Addr, g + n + GuestPage <= Mod,
         NEW prot \in SUBSET {"r", "w", "x"}, ProtectOk(g, n, prot)
  PROVE  Space!Protect(MapStart(g) .. MapEnd(g, n) - 1, prot)
<1> DEFINE st == MapStart(g)
           en == MapEnd(g, n)
           span == st .. en - 1
           touched == {r \in regions : Touches(r, st, en)}
<1>0. TypeOK /\ Placed
  OBVIOUS
<1>1. /\ g \in Addr /\ n \in Addr
      /\ g + n + GuestPage <= Mod
      /\ prot \in SUBSET {"r", "w", "x"}
  OBVIOUS
<1>2. /\ regions' = (regions \ touched) \cup UNION {Pieces(r, st, en, prot) : r \in touched}
      /\ UNCHANGED <<hostOffset, data>>
      /\ n > 0
  BY DEF ProtectOk, object
<1>3. st \in Addr /\ en \in Addr /\ st < en
  BY <1>1, <1>2, RoundingAligned, RoundedRange
<1> HIDE DEF st, en
<1>4. ASSUME NEW a \in Addr, NEW r \in touched
      PROVE  /\ \A q \in Pieces(r, st, en, prot) :
                  Has(q, a) => /\ Has(r, a)
                               /\ q.prot = IF a \in span THEN prot ELSE r.prot
             /\ Has(r, a) => \E q \in Pieces(r, st, en, prot) : Has(q, a)
  <2>1. /\ r \in Region /\ r.length > 0 /\ r.addr + r.length < Mod
        /\ Touches(r, st, en)
    BY <1>0 DEF TypeOK, Placed
  <2> QED
    BY <1>1, <1>3, <2>1, PiecesExact
<1>5. ASSUME NEW a \in Addr, NEW r \in regions \ touched, Has(r, a)
      PROVE  a \notin span
  <2>1. RangeEnd(r) <= st \/ en <= r.addr
    BY <1>5 DEF Touches
  <2>2. RangeEnd(r) \in Addr /\ r.addr \in Addr
    BY <1>0, AddCases DEF RangeEnd, TypeOK, Region
  <2> QED
    BY <1>3, <1>5, <2>1, <2>2 DEF Has, Addr
<1> HIDE DEF span
<1>6. \A a \in Addr : RegionsAt(a) = {r \in regions : Has(r, a)}
  BY DEF RegionsAt, Has
<1>7. \A a \in Addr : RegionsAt(a)' = {r \in regions' : Has(r, a)}
  BY DEF RegionsAt, Has, RangeEnd
<1>8. ASSUME NEW a \in Addr
      PROVE  RegionsAt(a)' = {} <=> RegionsAt(a) = {}
  <2>1. ASSUME NEW r \in regions, Has(r, a)
        PROVE  \E q \in regions' : Has(q, a)
    <3>1. CASE r \in touched
      BY <1>2, <1>4, <2>1, <3>1
    <3>2. CASE r \notin touched
      BY <1>2, <2>1, <3>2
    <3> QED
      BY <3>1, <3>2
  <2>2. ASSUME NEW q \in regions', Has(q, a)
        PROVE  \E r \in regions : Has(r, a)
    BY <1>2, <1>4, <2>2
  <2> QED
    BY <1>6, <1>7, <2>1, <2>2
<1>9. ASSUME NEW a \in Addr
      PROVE  {r.prot : r \in RegionsAt(a)'} =
               IF a \in span /\ Perms[a] # {} THEN {prot} ELSE Perms[a]
  <2>1. Perms[a] = {r.prot : r \in RegionsAt(a)}
    BY DEF Perms
  <2>2. CASE a \in span /\ RegionsAt(a) # {}
    <3>1. \A q \in RegionsAt(a)' : q.prot = prot
      BY <1>2, <1>4, <1>5, <1>7, <2>2
    <3>2. RegionsAt(a)' # {}
      BY <1>8, <2>2
    <3> QED
      BY <2>1, <2>2, <3>1, <3>2
  <2>3. CASE a \in span /\ RegionsAt(a) = {}
    BY <1>8, <2>1, <2>3
  <2>4. CASE a \notin span
    <3>1. ASSUME NEW q \in RegionsAt(a)'
          PROVE  \E r \in RegionsAt(a) : r.prot = q.prot
      <4>1. q \in regions' /\ Has(q, a)
        BY <1>7, <3>1
      <4> QED
        BY <1>2, <1>4, <1>6, <2>4, <4>1
    <3>2. ASSUME NEW r \in RegionsAt(a)
          PROVE  \E q \in RegionsAt(a)' : q.prot = r.prot
      <4>1. r \in regions /\ Has(r, a)
        BY <1>6, <3>2
      <4>2. CASE r \in touched
        BY <1>2, <1>4, <1>7, <2>4, <4>1, <4>2
      <4>3. CASE r \notin touched
        BY <1>2, <1>7, <4>1, <4>3
      <4> QED
        BY <4>2, <4>3
    <3> QED
      BY <2>1, <2>4, <3>1, <3>2
  <2> QED
    BY <2>2, <2>3, <2>4
<1>10. Perms' =
         [a \in Addr |->
            IF a \in span \cap {b \in Addr : Perms[b] # {}} THEN {prot} ELSE Perms[a]]
  <2>1. Perms' = [a \in Addr |-> {r.prot : r \in RegionsAt(a)'}]
    BY DEF Perms
  <2> QED
    BY <1>9, <2>1
<1>11. Contents(data)' = Contents(data)
  BY <1>2, <1>8 DEF Contents, toHost
<1> QED
  BY <1>10, <1>11 DEF Space!Protect, Space!Mapped, Perms, span, st, en
\* write and zero: the bytes asked for, all of them mapped, and no other.
LEMMA AccessSeen ==
  ASSUME TypeOK, Aligned, NEW g \in Addr, NEW n \in Addr, g + n + GuestPage <= Mod
  PROVE  /\ WriteOk(g, n) =>
              Space!Write(g .. g + n - 1)
         /\ ZeroOk(g, n) =>
              Space!Zero(g .. g + n - 1)
<1> DEFINE span == g .. g + n - 1
           bytes == HostBytes(g, n)
<1>0. TypeOK /\ Aligned
  OBVIOUS
<1>1. /\ g \in Addr /\ n \in Addr
      /\ g + n + GuestPage <= Mod
      /\ g \in Nat /\ n \in Nat /\ GuestPage \in Nat /\ Mod \in Nat
      /\ span \subseteq Addr
  BY PagingAssumption DEF Addr
<1>2. ASSUME n > 0, AccessAccepted(g, n),
             HostAllows(g, n, "w")
      PROVE  /\ \A a \in Addr : toHost(a) \in bytes <=> a \in span
             /\ \A a \in span : RegionsAt(a) # {}
  <2>1. bytes \subseteq Addr
    BY <1>0, <1>1, <1>2, AllowedBytes
  <2>2. \A a \in Addr : toHost(a) \in bytes <=> a \in span
    BY <1>0, <1>1, <1>2, <2>1, BytesExact
  <2>3. n \in 1 .. Mod - GuestPage - g /\ isMapped(g, n)
    BY <1>1, <1>2 DEF AccessAccepted
  <2>4. \A a \in span : RegionsAt(a) # {}
    BY <1>0, <1>1, <2>3, MappedSound DEF MappedIsSound
  <2> QED
    BY <2>2, <2>4
<1> HIDE DEF span, bytes
<1>3. ASSUME UNCHANGED <<hostOffset, regions>>
      PROVE  /\ Perms' = Perms
             /\ \A mem : Contents(mem)' = {a \in Addr : RegionsAt(a) # {} /\ toHost(a) \in mem'}
  BY <1>3 DEF Perms, Contents, RegionsAt, toHost
<1>4. ASSUME WriteOk(g, n)
      PROVE  Space!Write(span)
  <2>1. /\ n > 0 /\ AccessAccepted(g, n)
        /\ HostAllows(g, n, "w")
        /\ UNCHANGED <<hostOffset, regions>>
        /\ data' = data \cup bytes
    BY <1>4 DEF WriteOk, object, bytes
  <2>2. Contents(data)' = Contents(data) \cup span
    BY <1>1, <1>2, <2>1 DEF Contents, RegionsAt, toHost
  <2>3. span \subseteq {a \in Addr : Perms[a] # {}}
    BY <1>1, <1>2, <2>1 DEF Perms
  <2> QED
    BY <1>3, <2>1, <2>2, <2>3 DEF Space!Write, Space!Mapped, Perms
<1>5. ASSUME ZeroOk(g, n)
      PROVE  Space!Zero(span)
  <2>1. /\ n > 0 /\ AccessAccepted(g, n)
        /\ HostAllows(g, n, "w")
        /\ UNCHANGED <<hostOffset, regions>>
        /\ data' = data \ bytes
    BY <1>5 DEF ZeroOk, object, bytes
  <2>2. Contents(data)' = Contents(data) \ span
    BY <1>1, <1>2, <2>1 DEF Contents, RegionsAt, toHost
  <2>3. span \subseteq {a \in Addr : Perms[a] # {}}
    BY <1>1, <1>2, <2>1 DEF Perms
  <2> QED
    BY <1>3, <2>1, <2>2, <2>3 DEF Space!Zero, Space!Mapped, Perms
<1> QED
  BY <1>4, <1>5 DEF span

LEMMA IdleByNext == Idle /\ [Next]_vars => Idle'
BY DEF Idle, Next, Construct, ConstructIdentity, ConstructBiased, ConstructThrows,
       Map, MapOk, MapThrows, Protect, ProtectOk, ProtectThrows, Access, WriteOk,
       ZeroOk, ReadOk, AccessThrows, AccessFaults, EmptyCall, Destroy, HostStep,
       HostMaps, HostUnmaps, vars

LEMMA SpaceStep ==
  ASSUME SmallHostPages, NoWrap, SpaceInv, [Next]_vars
  PROVE  [Space!Next]_(Space!space)
<1> SUFFICES Space!Next \/ UNCHANGED Space!space
  OBVIOUS
<1>0. /\ TypeOK /\ Geometry /\ Aligned /\ Placed
      /\ \A rng \in Ranges \cup Accesses :
           rng[1] \in Addr /\ rng[2] \in Addr /\ rng[1] + rng[2] + GuestPage <= Mod
      /\ Prots \subseteq SUBSET {"r", "w", "x"}
  BY ClientAssumption DEF NoWrap, SpaceInv, Backed, IInv
<1>1. CASE Construct
  <2>1. UNCHANGED <<hostOffset, regions, data>> \/ (~live /\ regions' = {})
    BY <1>1 DEF Construct, ConstructIdentity, ConstructBiased, ConstructThrows,
                object, kernel
  <2> QED
    BY <2>1, Unseen, UnseenEmpty DEF SpaceInv, Idle
<1>2. CASE Map
  <2>1. PICK rng \in Ranges :
          \/ \E prot \in Prots : MapOk(rng[1], rng[2], prot)
          \/ MapThrows(rng[1], rng[2])
    BY <1>2 DEF Map
  <2>2. ASSUME NEW prot \in Prots, MapOk(rng[1], rng[2], prot)
        PROVE  Space!Next
    <3>1. Space!Map(MapStart(rng[1]) .. MapEnd(rng[1], rng[2]) - 1, prot)
      BY <1>0, <2>2, MapSeen
    <3> QED
      BY <3>1 DEF Space!Next
  <2>3. CASE MapThrows(rng[1], rng[2])
    BY <2>3, Unseen DEF MapThrows, object, kernel
  <2> QED
    BY <2>1, <2>2, <2>3
<1>3. CASE Protect
  <2>1. PICK rng \in Ranges :
          \/ \E prot \in Prots : ProtectOk(rng[1], rng[2], prot)
          \/ ProtectThrows(rng[1], rng[2])
    BY <1>3 DEF Protect
  <2>2. ASSUME NEW prot \in Prots, ProtectOk(rng[1], rng[2], prot)
        PROVE  Space!Next
    <3>1. Space!Protect(MapStart(rng[1]) .. MapEnd(rng[1], rng[2]) - 1, prot)
      BY <1>0, <2>2, ProtectSeen
    <3> QED
      BY <3>1 DEF Space!Next
  <2>3. CASE ProtectThrows(rng[1], rng[2])
    BY <2>3, Unseen DEF ProtectThrows, object, kernel
  <2> QED
    BY <2>1, <2>2, <2>3
<1>4. CASE Access
  <2>1. PICK rng \in Accesses :
          \/ WriteOk(rng[1], rng[2])
          \/ ZeroOk(rng[1], rng[2])
          \/ ReadOk(rng[1], rng[2])
          \/ AccessThrows(rng[1], rng[2])
          \/ \E access \in {"r", "w"} : AccessFaults(rng[1], rng[2], access)
    BY <1>4 DEF Access
  <2>2. CASE WriteOk(rng[1], rng[2])
    <3>1. Space!Write(rng[1] .. rng[1] + rng[2] - 1)
      BY <1>0, <2>2, AccessSeen
    <3> QED
      BY <3>1 DEF Space!Next
  <2>3. CASE ZeroOk(rng[1], rng[2])
    <3>1. Space!Zero(rng[1] .. rng[1] + rng[2] - 1)
      BY <1>0, <2>3, AccessSeen
    <3> QED
      BY <3>1 DEF Space!Next
  <2>4. CASE UNCHANGED <<hostOffset, regions, data>>
    BY <2>4, Unseen
  <2> QED
    BY <2>1, <2>2, <2>3, <2>4
    DEF ReadOk, AccessThrows, AccessFaults, object, kernel
<1>5. CASE EmptyCall
  BY <1>5, Unseen DEF EmptyCall, object, kernel
<1>6. CASE Destroy
  BY <1>6, DestroyClears DEF Destroy, Space!Next
<1>7. CASE HostStep
  BY <1>7, Unseen DEF HostStep, HostMaps, HostUnmaps, object
<1>8. CASE UNCHANGED vars
  BY <1>8, Unseen DEF vars, object, kernel
<1> QED
  BY <1>1, <1>2, <1>3, <1>4, <1>5, <1>6, <1>7, <1>8 DEF Next

\* Whatever the client calls and the host process does, the guest sees a flat
\* address space: GuestMemory implements AddressSpace (GuestMemory.h:49-73).
THEOREM Implements_AddressSpace ==
  ASSUME SmallHostPages, NoWrap
  PROVE  Spec => ImplementsAddressSpace
<1>1. Init => Space!Init
  BY DEF Init, Space!Init, Contents, RegionsAt
<1>2. Init => Idle
  BY DEF Init, Idle
<1>3. SpaceInv /\ [Next]_vars => [Space!Next]_(Space!space)
  BY SpaceStep
<1> QED
  BY <1>1, <1>2, <1>3, BackedAlways, IdleByNext, PTL
  DEF Spec, SpaceInv, ImplementsAddressSpace, Space!Spec

(***************************************************************************)
(* The guest's view and the host's page table.                             *)
(***************************************************************************)

\* The host page under a mapped address allows what the guest's permission
\* implies.
Hosted ==
  \A a \in Addr : \A prot \in Perms[a] :
    /\ HostPageOf(toHost(a)) \in HostPages
    /\ owner[HostPageOf(toHost(a))] = "guest"
    /\ hprot[HostPageOf(toHost(a))] = HostProtFor(prot)

\* The reservation does not wrap.
Room == live => reservedHigh = reservedLow + windowSize

Span(g, n) == MapStart(g) .. MapEnd(g, n) - 1

LEMMA SpanAddr ==
  ASSUME NEW g \in Addr, NEW n \in Addr, n > 0, g + n + GuestPage <= Mod
  PROVE  /\ MapStart(g) \in Addr /\ MapEnd(g, n) \in Addr
         /\ MapStart(g) < MapEnd(g, n)
         /\ MapStart(g) <= g /\ g + n <= MapEnd(g, n)
         /\ Span(g, n) \subseteq Addr
<1>1. GuestPage \in Nat \ {0} /\ Mod \in Nat /\ g \in Nat /\ n \in Nat
  BY PagingAssumption DEF Addr
<1>2. MapStart(g) \in Addr /\ MapEnd(g, n) \in Addr /\ MapStart(g) < MapEnd(g, n)
  BY RoundedRange, RoundingAligned
<1>3. MapStart(g) <= g
  BY <1>1, AlignDownPage DEF MapStart, GuestPageAlignDown
<1>4. Add(g, n) = g + n /\ Add(g, n) \in Addr
  BY <1>1, AddCases
<1>5. g + n <= MapEnd(g, n)
  BY <1>1, <1>4, AlignUpPage DEF MapEnd, GuestPageAlignUp
<1> QED
  BY <1>1, <1>2, <1>3, <1>5 DEF Span, Addr

LEMMA PlacedByMap ==
  ASSUME Placed, NEW g \in Addr, NEW n \in Addr, g + n + GuestPage <= Mod,
         NEW prot, MapOk(g, n, prot)
  PROVE  Placed'
<1>1. /\ n > 0
      /\ regions' = regions \cup {[addr |-> MapStart(g), length |-> MapSize(g, n),
                                   prot |-> prot]}
  BY DEF MapOk
<1>2. /\ MapStart(g) \in Addr /\ MapEnd(g, n) \in Addr
      /\ MapStart(g) < MapEnd(g, n) /\ MapSize(g, n) = MapEnd(g, n) - MapStart(g)
  BY <1>1, RoundedRange, RoundingAligned
<1>3. MapSize(g, n) > 0 /\ MapStart(g) + MapSize(g, n) < Mod
  BY <1>2, PagingAssumption DEF Addr
<1> QED
  BY <1>1, <1>3 DEF Placed

LEMMA PlacedByProtect ==
  ASSUME TypeOK, Placed, NEW g \in Addr, NEW n \in Addr, g + n + GuestPage <= Mod,
         NEW prot, ProtectOk(g, n, prot)
  PROVE  Placed'
<1> DEFINE start == MapStart(g)
           end == MapEnd(g, n)
           touched == {r \in regions : Touches(r, start, end)}
<1>1. /\ n > 0
      /\ regions' = (regions \ touched)
                      \cup UNION {Pieces(r, start, end, prot) : r \in touched}
  BY DEF ProtectOk
<1>2. start \in Addr /\ end \in Addr /\ start < end
  BY <1>1, RoundedRange, RoundingAligned
<1> HIDE DEF start, end
<1>3. ASSUME NEW piece \in regions'
      PROVE  piece.length > 0 /\ piece.addr + piece.length < Mod
  <2>1. CASE piece \in regions
    BY <2>1 DEF Placed
  <2>2. CASE \E r \in touched : piece \in Pieces(r, start, end, prot)
    <3>1. PICK r \in touched : piece \in Pieces(r, start, end, prot)
      BY <2>2
    <3>2. /\ r \in Region /\ Touches(r, start, end)
          /\ r.length > 0 /\ r.addr + r.length < Mod
      BY DEF TypeOK, Placed
    <3> QED
      BY <1>2, <3>1, <3>2, PiecesWithin
  <2> QED
    BY <1>1, <1>3, <2>1, <2>2
<1> QED
  BY <1>3 DEF Placed

\* What each call does to permissions and contents.
LEMMA MapView ==
  ASSUME SmallHostPages, TypeOK, Geometry,
         NEW g \in Addr, NEW n \in Addr, g + n + GuestPage <= Mod,
         NEW prot, MapOk(g, n, prot)
  PROVE  /\ \A a \in Addr :
              Perms'[a] = IF a \in Span(g, n) THEN Perms[a] \cup {prot} ELSE Perms[a]
         /\ Contents(data)' = Contents(data) \ Span(g, n)
<1>1. /\ Perms' = [a \in Addr |-> IF a \in Span(g, n) THEN Perms[a] \cup {prot} ELSE Perms[a]]
      /\ Contents(data)' = Contents(data) \ Span(g, n)
  BY MapSeen DEF Space!Map, Perms, Span
<1> QED
  BY <1>1

LEMMA ProtectView ==
  ASSUME TypeOK, Placed, NEW g \in Addr, NEW n \in Addr, g + n + GuestPage <= Mod,
         NEW prot \in SUBSET {"r", "w", "x"}, ProtectOk(g, n, prot)
  PROVE  /\ \A a \in Addr :
              Perms'[a] = IF a \in Span(g, n) /\ Perms[a] # {} THEN {prot} ELSE Perms[a]
         /\ Contents(data)' = Contents(data)
<1>1. /\ Perms' = [a \in Addr |-> IF a \in Span(g, n) \cap {b \in Addr : Perms[b] # {}}
                                 THEN {prot} ELSE Perms[a]]
      /\ Contents(data)' = Contents(data)
  BY ProtectSeen DEF Space!Protect, Space!Mapped, Perms, Span
<1> QED
  BY <1>1

LEMMA AccessView ==
  ASSUME TypeOK, Aligned, NEW g \in Addr, NEW n \in Addr, g + n + GuestPage <= Mod
  PROVE  /\ WriteOk(g, n) =>
              /\ Perms' = Perms
              /\ Contents(data)' = Contents(data) \cup (g .. g + n - 1)
         /\ ZeroOk(g, n) =>
              /\ Perms' = Perms
              /\ Contents(data)' = Contents(data) \ (g .. g + n - 1)
  BY AccessSeen DEF Space!Write, Space!Zero, Perms

LEMMA MapHosted ==
  ASSUME SmallHostPages, TypeOK, Geometry, Hosted,
         NEW g \in Addr, NEW n \in Addr, g + n + GuestPage <= Mod,
         MapOk(g, n, {"r", "w"}),
         \A a \in Span(g, n) : Perms[a] = {}
  PROVE  Hosted'
<1> DEFINE pages == PageRange(Desired(g), HostSize(g, n))
           page(a) == HostPageOf(toHost(a))
<1>1. /\ live /\ n > 0 /\ MapAccepted(g, n) /\ Take(pages, {"r", "w"})
      /\ hostOffset' = hostOffset
  BY DEF MapOk, object
<1>2. \A a \in Addr : page(a) \in pages <=> a \in Span(g, n)
  BY <1>1, PagesExact DEF Span
<1>3. \A a \in Addr : toHost(a)' = toHost(a) /\ page(a)' = page(a)
  BY <1>1 DEF toHost
<1>4. \A a \in Addr :
        Perms'[a] = IF a \in Span(g, n) THEN Perms[a] \cup {{"r", "w"}} ELSE Perms[a]
  BY MapView
<1>5. pages \subseteq HostPages
  BY DEF PageRange
<1>6. \A p \in HostPages : /\ owner'[p] = IF p \in pages THEN "guest" ELSE owner[p]
                           /\ hprot'[p] = IF p \in pages THEN {"r", "w"} ELSE hprot[p]
  BY <1>1 DEF Take
<1>7. HostProtFor({"r", "w"}) = {"r", "w"}
  BY DEF HostProtFor
<1> SUFFICES ASSUME NEW a \in Addr, NEW prot \in Perms'[a]
             PROVE  /\ page(a) \in HostPages
                    /\ owner'[page(a)] = "guest"
                    /\ hprot'[page(a)] = HostProtFor(prot)
  BY <1>1 DEF Hosted, toHost
<1> HIDE DEF page, pages
<1>8. CASE a \in Span(g, n)
  <2>1. prot = {"r", "w"}
    BY <1>4, <1>8
  <2> QED
    BY <1>2, <1>5, <1>6, <1>7, <1>8, <2>1
<1>9. CASE a \notin Span(g, n)
  <2>1. prot \in Perms[a]
    BY <1>4, <1>9
  <2>2. page(a) \in HostPages /\ owner[page(a)] = "guest" /\ hprot[page(a)] = HostProtFor(prot)
    BY <2>1 DEF Hosted, page
  <2> QED
    BY <1>2, <1>6, <1>9, <2>2
<1> QED
  BY <1>8, <1>9

\* What lies inside the reservation can be mapped, and belongs to the object.
LEMMA InsideAccepted ==
  ASSUME SmallHostPages, IInv, Room, live,
         NEW g \in Addr, NEW n \in Addr, n > 0, g + n + GuestPage <= Mod,
         insideReservation(g, n)
  PROVE  /\ MapAccepted(g, n)
         /\ Mprotected(Desired(g), HostSize(g, n)) = PageRange(Desired(g), HostSize(g, n))
<1> DEFINE st == MapStart(g)
           en == MapEnd(g, n)
           pages == PageRange(Desired(g), HostSize(g, n))
<1>1. /\ hostOffset \in Addr /\ windowBase \in Addr /\ windowSize \in Addr
      /\ reservedLow \in Addr /\ reservedHigh \in Addr
      /\ windowBase % HostPage = 0 /\ reservedLow % HostPage = 0
      /\ windowBase + windowSize <= TaskSize
      /\ hostOffset = Sub(windowBase, reservedLow)
      /\ reservedHigh = reservedLow + windowSize
  BY DEF IInv, TypeOK, Geometry, Room
<1>2. st \in Addr /\ en \in Addr /\ st < en /\ MapSize(g, n) = en - st
  BY RoundedRange, RoundingAligned
<1>3. HostBase(g) = st /\ HostSize(g, n) = en - st
  BY RoundedOnce
<1>4. st >= reservedLow /\ en <= reservedHigh
  BY DEF insideReservation
<1>5. Mod \in Nat \ {0} /\ TaskSize \in Nat /\ HostPage \in Nat \ {0}
      /\ TaskSize + HostPage <= Mod
  BY PagingAssumption
<1>6. Desired(g) % HostPage = 0
  <2>1. hostOffset % GuestPage = 0
    BY <1>1, GuestSums DEF SmallHostPages
  <2>2. st % GuestPage = 0
    BY RoundingAligned
  <2>3. Add(st, hostOffset) % GuestPage = 0
    BY <1>1, <1>2, <2>1, <2>2, GuestSums
  <2> QED
    BY <1>3, <2>3 DEF Desired, SmallHostPages
<1> HIDE DEF st, en, pages
<1>7. Desired(g) = Add(st, hostOffset)
  BY <1>3 DEF Desired
<1>8. Add(st, hostOffset) = windowBase + (st - reservedLow)
  <2>1. hostOffset = IF reservedLow <= windowBase THEN windowBase - reservedLow
                                                  ELSE windowBase - reservedLow + Mod
    BY <1>1, SubCases
  <2>2. Add(st, hostOffset) = IF st + hostOffset < Mod THEN st + hostOffset
                                                       ELSE st + hostOffset - Mod
    BY <1>1, <1>2, AddCases
  <2> QED
    BY <1>1, <1>2, <1>4, <1>5, <2>1, <2>2 DEF Addr
<1>9. Desired(g) + (en - st) <= TaskSize
  BY <1>1, <1>2, <1>4, <1>5, <1>7, <1>8 DEF Addr
<1>10. UserRange(Desired(g), HostSize(g, n))
  BY <1>2, <1>3, <1>6, <1>9 DEF UserRange, Addr
<1>11. isAddressable(MapStart(g), MapSize(g, n))
  <2>1. Add(st, en - st) = en
    BY <1>2, <1>5 DEF Add, Addr
  <2> QED
    BY <1>2, <1>4, <2>1 DEF isAddressable, st, Addr
<1>12. MapAccepted(g, n)
  BY <1>10, <1>11 DEF MapAccepted
<1>13. pages \subseteq Window
  BY <1>10, <1>11, InsideStaysInWindow DEF IInv, pages
<1>14. \A q \in pages : owner[q] # "free"
  BY <1>13 DEF IInv, WindowHeld
<1>15. Desired(g) + HostSize(g, n) <= Mod
  BY <1>2, <1>3, <1>5, <1>7, <1>8, <1>9, <1>1 DEF Addr
<1>16. Mprotected(Desired(g), HostSize(g, n)) = pages
  BY <1>14, <1>15 DEF Mprotected, pages
<1> QED
  BY <1>12, <1>16 DEF pages

LEMMA ProtectHosted ==
  ASSUME SmallHostPages, IInv, Room, Placed, Hosted,
         NEW g \in Addr, NEW n \in Addr, g + n + GuestPage <= Mod,
         NEW prot \in SUBSET {"r", "w", "x"}, ProtectOk(g, n, prot),
         insideReservation(g, n)
  PROVE  Hosted'
<1> DEFINE pages == PageRange(Desired(g), HostSize(g, n))
           page(a) == HostPageOf(toHost(a))
<1>0. TypeOK /\ Geometry
  BY DEF IInv
<1>1. live /\ n > 0 /\ owner' = owner /\ hostOffset' = hostOffset
  BY DEF ProtectOk, object
<1>2. MapAccepted(g, n) /\ Mprotected(Desired(g), HostSize(g, n)) = pages
  BY <1>1, InsideAccepted
<1>3. \A a \in Addr : page(a) \in pages <=> a \in Span(g, n)
  BY <1>0, <1>1, <1>2, PagesExact DEF Span
<1>4. \A a \in Addr :
        Perms'[a] = IF a \in Span(g, n) /\ Perms[a] # {} THEN {prot} ELSE Perms[a]
  BY <1>0, ProtectView
<1>5. hprot' = [p \in HostPages |-> IF p \in pages THEN HostProtFor(prot) ELSE hprot[p]]
  BY <1>2 DEF ProtectOk
<1> SUFFICES ASSUME NEW a \in Addr, NEW p \in Perms'[a]
             PROVE  /\ page(a) \in HostPages
                    /\ owner'[page(a)] = "guest"
                    /\ hprot'[page(a)] = HostProtFor(p)
  BY <1>1 DEF Hosted, toHost
<1>6. PICK q \in Perms[a] : TRUE
  BY <1>4
<1>7. page(a) \in HostPages /\ owner[page(a)] = "guest" /\ hprot[page(a)] = HostProtFor(q)
  BY <1>6 DEF Hosted
<1> HIDE DEF page, pages
<1>8. CASE a \in Span(g, n)
  BY <1>1, <1>3, <1>4, <1>5, <1>6, <1>7, <1>8
<1>9. CASE a \notin Span(g, n)
  <2>1. p \in Perms[a]
    BY <1>4, <1>9
  <2>2. hprot[page(a)] = HostProtFor(p)
    BY <2>1 DEF Hosted, page
  <2> QED
    BY <1>1, <1>3, <1>5, <1>7, <1>9, <2>2
<1> QED
  BY <1>8, <1>9

\* Every permission of every byte of the range implies the access.
Granted(g, n, access) ==
  \A b \in g .. g + n - 1 : \A prot \in Perms[b] : access \in HostProtFor(prot)

\* An access to mapped bytes whose permissions all imply it is not killed.
LEMMA AccessAllowed ==
  ASSUME TypeOK, Aligned, Hosted,
         NEW g \in Addr, NEW n \in Addr, n > 0, g + n + GuestPage <= Mod,
         isMapped(g, n), NEW access, Granted(g, n, access)
  PROVE  HostAllows(g, n, access)
<1>1. /\ GuestPage \in Nat \ {0} /\ HostPage \in Nat \ {0} /\ Mod \in Nat /\ g \in Nat
      /\ n \in Nat /\ TaskSize \in Nat /\ TaskSize + HostPage <= Mod
      /\ hostOffset \in Nat /\ hostOffset < Mod
  BY PagingAssumption DEF Addr, TypeOK
<1>2. ASSUME NEW b \in g .. g + n - 1
      PROVE  /\ b \in Addr
             /\ HostPageOf(toHost(b)) \in HostPages
             /\ owner[HostPageOf(toHost(b))] # "free"
             /\ access \in hprot[HostPageOf(toHost(b))]
             /\ toHost(b) < TaskSize + HostPage
  <2>1. b \in Addr /\ n \in 1 .. Mod - GuestPage - g
    BY <1>1 DEF Addr
  <2>2. RegionsAt(b) # {}
    BY <2>1, MappedSound DEF MappedIsSound
  <2>3. PICK prot \in Perms[b] : TRUE
    BY <2>1, <2>2 DEF Perms
  <2>4. /\ HostPageOf(toHost(b)) \in HostPages
        /\ owner[HostPageOf(toHost(b))] = "guest"
        /\ hprot[HostPageOf(toHost(b))] = HostProtFor(prot)
    BY <2>1, <2>3 DEF Hosted
  <2>5. toHost(b) \in Nat
    BY <2>1, AddCases DEF toHost, TypeOK, Addr
  <2>6. toHost(b) < HostPageOf(toHost(b)) + HostPage
    BY <1>1, <2>5, AlignDownPage DEF HostPageOf
  <2>7. HostPageOf(toHost(b)) < TaskSize /\ HostPageOf(toHost(b)) \in Nat
    BY <2>4, <1>1 DEF HostPages
  <2> QED
    BY <1>1, <2>1, <2>3, <2>4, <2>5, <2>6, <2>7 DEF Granted
<1>3. \A b \in g .. g + n - 1 :
        /\ toHost(b) \in Nat
        /\ toHost(b) = IF b + hostOffset < Mod THEN b + hostOffset ELSE b + hostOffset - Mod
  <2>1. hostOffset \in Addr
    BY DEF TypeOK
  <2>2. \A b \in Addr :
          /\ toHost(b) \in Addr
          /\ toHost(b) = IF b + hostOffset < Mod THEN b + hostOffset ELSE b + hostOffset - Mod
    BY <2>1, AddCases DEF toHost
  <2>3. \A h \in Addr : h \in Nat
    BY DEF Addr
  <2> QED
    BY <1>2, <2>2, <2>3
<1>4. ASSUME NEW b \in g .. g + n - 1
      PROVE  toHost(b) = toHost(g) + (b - g)
  <2>1. g \in g .. g + n - 1
    BY <1>1
  <2>2. SUFFICES ASSUME g + hostOffset < Mod, Mod <= b + hostOffset PROVE FALSE
    BY <1>1, <1>3, <2>1
  <2> DEFINE c == Mod - 1 - hostOffset
  <2>3. c \in g .. g + n - 1
    BY <1>1, <2>2
  <2>4. toHost(c) = Mod - 1
    BY <1>1, <1>3, <2>3
  <2>5. HostPageOf(Mod - 1) \in HostPages
    BY <1>2, <2>3, <2>4
  <2>6. HostPageOf(Mod - 1) < TaskSize /\ HostPageOf(Mod - 1) \in Nat
    BY <2>5, <1>1 DEF HostPages
  <2>7. Mod - 1 < HostPageOf(Mod - 1) + HostPage
    BY <1>1, AlignDownPage DEF HostPageOf
  <2> QED
    BY <1>1, <2>6, <2>7
<1>5. ASSUME NEW h \in HostBytes(g, n)
      PROVE  \E b \in g .. g + n - 1 : h = toHost(b)
  <2>1. g \in g .. g + n - 1
    BY <1>1
  <2>2. toHost(g) \in Nat
    BY <1>3, <2>1
  <2>3. h \in toHost(g) .. toHost(g) + n - 1
    BY DEF HostBytes
  <2>4. PICK b \in g .. g + n - 1 : b = g + (h - toHost(g))
    BY <1>1, <2>2, <2>3
  <2>5. h = toHost(b)
    BY <1>1, <1>4, <2>2, <2>3, <2>4
  <2> QED
    BY <2>5
<1> QED
  BY <1>2, <1>5 DEF HostAllows
=============================================================================
