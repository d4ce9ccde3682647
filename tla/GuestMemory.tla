---------------------------- MODULE GuestMemory ----------------------------
(***************************************************************************)
(* The guest address space (GuestMemory.cpp) on top of the host kernel's   *)
(* page table.  One GuestMemory object lives in a host process that owns   *)
(* other pages too; the object claims pages with mmap, records what the    *)
(* guest believes in m_regions, and gives its window back when destroyed.  *)
(*                                                                         *)
(* Operations are operators with parameters: GuestMemoryClient calls them  *)
(* with arbitrary arguments, Loader with those of a load.                  *)
(*                                                                         *)
(* m_regions is a set: the order of the vector only decides which of two   *)
(* OVERLAPPING regions findRegion reports, and ProtsAt keeps both answers. *)
(* A region's name is dropped.  A byte's content is reduced to whether it  *)
(* holds data (some value that was written) or the zero of a fresh page.   *)
(***************************************************************************)
EXTENDS GuestPaging

CONSTANTS
  HostOwned,   \* host pages the rest of the process owns at the start
  HostChurn    \* host pages the rest of the process may map and unmap

ASSUME HostAssumption ==
  /\ HostOwned \subseteq HostPages
  /\ HostChurn \subseteq HostPages

VARIABLES
  live,          \* the object is constructed and not destroyed
  hostOffset,    \* m_hostOffset
  windowBase,    \* m_windowBase
  windowSize,    \* m_windowSize
  reservedLow,   \* m_reservedLow
  reservedHigh,  \* m_reservedHigh
  regions,       \* m_regions
  owner,         \* who mapped each host page
  hprot,         \* host protection of each host page
  data,          \* host addresses whose byte was written
  result         \* how the last call ended

object == <<hostOffset, windowBase, windowSize, reservedLow, reservedHigh>>
kernel == <<owner, hprot, data>>
vars == <<live, object, regions, kernel, result>>

Owner == {"free", "other", "guest", "leaked"}
Result == {"none", "ok", "throws", "fault"}
Region == [addr : Addr, length : Addr, prot : SUBSET {"r", "w", "x"}]

RangeEnd(r) == Add(r.addr, r.length)

isIdentity == hostOffset = 0

\* A fault ends the process; until then any call may come.
Running == result # "fault"

(***************************************************************************)
(* The kernel.                                                             *)
(***************************************************************************)

\* Mutant of HostProtFor: the write permission is forgotten.
HostProtForMut(prot) == IF prot = {} THEN {} ELSE {"r"}

\* hostProtFor: readable unless the guest has no access, never executable.
HostProtFor(prot) == IF prot = {} THEN {} ELSE {"r"} \cup (prot \cap {"w"})

\* Mutant of Window: the last page is not given back.
WindowMut == PageRange(windowBase, windowSize - HostPage)

Window == PageRange(windowBase, windowSize)

AllFree(pages) == \A p \in pages : owner[p] = "free"

\* A successful anonymous mmap: the pages are ours, zero filled.
Take(pages, prot) ==
  /\ owner' = [p \in HostPages |-> IF p \in pages THEN "guest" ELSE owner[p]]
  /\ hprot' = [p \in HostPages |-> IF p \in pages THEN prot ELSE hprot[p]]
  /\ data' = {b \in data : HostPageOf(b) \notin pages}

\* mprotect changes the pages before the first hole in the range, and fails
\* when there is a hole; the caller ignores the failure.
Mprotected(base, size) ==
  {p \in PageRange(base, size) :
     /\ base + size <= Mod
     /\ \A q \in PageRange(base, size) : q <= p => owner[q] # "free"}

(***************************************************************************)
(* Construction and destruction.                                           *)
(***************************************************************************)

ProbeLow(imageLow) == AlignDown(imageLow, HostPage)
ProbeSize(imageLow, imageHigh) ==
  Sub(AlignUp(imageHigh, HostPage), ProbeLow(imageLow))

\* The fallback reservation is at least as large as the image.
FallbackSize(probeSize, fallbackWindowSize) ==
  LET asked == AlignUp(fallbackWindowSize, HostPage)
  IN  IF asked < probeSize THEN AlignUp(Add(probeSize, probeSize), HostPage)
                           ELSE asked

\* The image's own addresses are free and the kernel grants them.
ConstructIdentity(imageLow, imageHigh) ==
  LET low == ProbeLow(imageLow)
      size == ProbeSize(imageLow, imageHigh)
  IN  /\ ~live
      /\ UserRange(low, size)
      /\ AllFree(PageRange(low, size))
      /\ live' = TRUE
      /\ hostOffset' = 0
      /\ windowBase' = low
      /\ windowSize' = size
      /\ reservedLow' = low
      /\ reservedHigh' = Add(low, size)
      /\ regions' = {}
      /\ Take(PageRange(low, size), {})
      /\ result' = "ok"

\* The kernel refuses those addresses, or answers with others that are given
\* back at once; a window anywhere serves instead.
ConstructBiased(imageLow, imageHigh, fallbackWindowSize, base) ==
  LET low == ProbeLow(imageLow)
      probe == ProbeSize(imageLow, imageHigh)
      size == FallbackSize(probe, fallbackWindowSize)
  IN  /\ ~live
      /\ probe # 0
      /\ UserRange(base, size)
      /\ AllFree(PageRange(base, size))
      /\ live' = TRUE
      /\ hostOffset' = Sub(base, low)
      /\ windowBase' = base
      /\ windowSize' = size
      /\ reservedLow' = low
      /\ reservedHigh' = Add(low, size)
      /\ regions' = {}
      /\ Take(PageRange(base, size), {})
      /\ result' = "ok"

\* An empty image span, or both reservations refused.
ConstructThrows ==
  /\ ~live
  /\ result' = "throws"
  /\ UNCHANGED <<live, object, regions, kernel>>

\* The destructor unmaps the window and nothing else: a page mapped outside
\* it stays in the process with no owner.
Destroy ==
  /\ Running
  /\ live
  /\ live' = FALSE
  /\ hostOffset' = 0
  /\ windowBase' = 0
  /\ windowSize' = 0
  /\ reservedLow' = 0
  /\ reservedHigh' = 0
  /\ regions' = {}
  /\ owner' = [p \in HostPages |->
                 IF p \in Window THEN "free"
                 ELSE IF owner[p] = "guest" THEN "leaked" ELSE owner[p]]
  /\ hprot' = [p \in HostPages |-> IF p \in Window THEN {} ELSE hprot[p]]
  /\ data' = {b \in data : HostPageOf(b) \notin Window}
  /\ result' = "ok"

(***************************************************************************)
(* Queries.                                                                *)
(***************************************************************************)

\* Mutant of isAddressable: the end of the window is not checked.
isAddressableMut(guestAddr, length) == isIdentity \/ guestAddr >= reservedLow

isAddressable(guestAddr, length) ==
  \/ isIdentity
  \/ /\ guestAddr >= reservedLow
     /\ Add(guestAddr, length) >= guestAddr
     /\ Add(guestAddr, length) <= reservedHigh

\* Every region findRegion may answer with.
RegionsAt(guestAddr) ==
  {r \in regions : r.addr <= guestAddr /\ guestAddr < RangeEnd(r)}

\* Mutant of isMapped: only the first page is looked up.
isMappedMut(guestAddr, length) == length > 0 => RegionsAt(guestAddr) # {}

\* The loop visits the guest pages first .. last; it is empty when last wraps.
isMapped(guestAddr, length) ==
  length > 0 =>
    \A page \in GuestPages :
      /\ GuestPageAlignDown(guestAddr) <= page
      /\ page <= GuestPageAlignUp(Add(guestAddr, length - 1))
      => RegionsAt(page) # {}

\* protAt's possible answers; kProtNone when no region holds the address.
ProtsAt(guestAddr) ==
  IF RegionsAt(guestAddr) = {} THEN {{}}
                               ELSE {r.prot : r \in RegionsAt(guestAddr)}

\* Mutant of toHost: the offset of the window is forgotten.
toHostMut(guestAddr) == guestAddr

toHost(guestAddr) == Add(guestAddr, hostOffset)
HostBytes(guestAddr, n) == toHost(guestAddr) .. toHost(guestAddr) + n - 1

(***************************************************************************)
(* map.                                                                    *)
(***************************************************************************)

MapStart(guestAddr) == GuestPageAlignDown(guestAddr)
MapEnd(guestAddr, length) == GuestPageAlignUp(Add(guestAddr, length))
MapSize(guestAddr, length) == Sub(MapEnd(guestAddr, length), MapStart(guestAddr))

\* The host side of the range, rounded again to host pages.
HostBase(guestAddr) == AlignDown(MapStart(guestAddr), HostPage)

HostSize(guestAddr, length) ==
  Sub(AlignUp(MapEnd(guestAddr, length), HostPage), HostBase(guestAddr))

\* Mutant of Desired: the offset of a biased window is forgotten.
DesiredMut(guestAddr) == HostBase(guestAddr)

Desired(guestAddr) == Add(HostBase(guestAddr), hostOffset)

insideReservation(guestAddr, length) ==
  /\ MapStart(guestAddr) >= reservedLow
  /\ MapEnd(guestAddr, length) <= reservedHigh

\* MAP_FIXED inside the reservation replaces whatever is there; outside it
\* MAP_FIXED_NOREPLACE needs every page free.
MapAccepted(guestAddr, length) ==
  LET base == Desired(guestAddr)
      size == HostSize(guestAddr, length)
  IN  /\ isAddressable(MapStart(guestAddr), MapSize(guestAddr, length))
      /\ UserRange(base, size)
      /\ \/ insideReservation(guestAddr, length)
         \/ AllFree(PageRange(base, size))

\* The pages are writable on the host whatever the guest permission says.
MapOk(guestAddr, length, prot) ==
  /\ Running
  /\ live
  /\ length > 0
  /\ MapAccepted(guestAddr, length)
  /\ Take(PageRange(Desired(guestAddr), HostSize(guestAddr, length)), {"r", "w"})
  /\ regions' = regions \cup {[addr |-> MapStart(guestAddr),
                               length |-> MapSize(guestAddr, length),
                               prot |-> prot]}
  /\ result' = "ok"
  /\ UNCHANGED <<live, object>>

\* Mutant of MapThrows: the range asked for is unmapped, not what mmap gave.
MapThrowsMut(guestAddr, length) ==
  LET pages == PageRange(Desired(guestAddr), HostSize(guestAddr, length))
  IN  /\ Running
      /\ live
      /\ length > 0
      /\ ~MapAccepted(guestAddr, length)
      /\ owner' = [p \in HostPages |-> IF p \in pages THEN "free" ELSE owner[p]]
      /\ result' = "throws"
      /\ UNCHANGED <<live, object, regions, hprot, data>>

\* Outside the window, or refused by the kernel.
MapThrows(guestAddr, length) ==
  /\ Running
  /\ live
  /\ length > 0
  /\ ~MapAccepted(guestAddr, length)
  /\ result' = "throws"
  /\ UNCHANGED <<live, object, regions, kernel>>

(***************************************************************************)
(* protect.                                                                *)
(***************************************************************************)

Touches(r, start, end) == ~(RangeEnd(r) <= start \/ end <= r.addr)

MaxOf(a, b) == IF a < b THEN b ELSE a
MinOf(a, b) == IF a < b THEN a ELSE b

\* Mutant of Pieces: the part after the range is lost.
PiecesMut(r, start, end, prot) ==
  LET bodyStart == MaxOf(r.addr, start)
  IN  {[addr |-> bodyStart, length |-> Sub(MinOf(RangeEnd(r), end), bodyStart), prot |-> prot]}
      \cup {[r EXCEPT !.length = Sub(start, r.addr)] : x \in {r.addr} \cap 0 .. start - 1}

\* What a region touched by [start, end) is replaced by: the part before the
\* range, the part inside it with the new permission, the part after it.
Pieces(r, start, end, prot) ==
  LET bodyStart == MaxOf(r.addr, start)
      bodyEnd == MinOf(RangeEnd(r), end)
  IN  {[addr |-> bodyStart, length |-> Sub(bodyEnd, bodyStart), prot |-> prot]}
      \cup {[r EXCEPT !.length = Sub(start, r.addr)] : x \in {r.addr} \cap 0 .. start - 1}
      \cup {[r EXCEPT !.addr = end, !.length = Sub(RangeEnd(r), end)] :
               x \in {end} \cap 0 .. RangeEnd(r) - 1}

\* ProtectOk includes applyHostProtection over the whole host-rounded range.
ProtectOk(guestAddr, length, prot) ==
  LET start == MapStart(guestAddr)
      end == MapEnd(guestAddr, length)
      touched == {r \in regions : Touches(r, start, end)}
      pages == Mprotected(Desired(guestAddr), HostSize(guestAddr, length))
  IN  /\ Running
      /\ live
      /\ length > 0
      /\ touched # {}
      /\ regions' = (regions \ touched)
                      \cup UNION {Pieces(r, start, end, prot) : r \in touched}
      /\ hprot' = [p \in HostPages |->
                     IF p \in pages THEN HostProtFor(prot) ELSE hprot[p]]
      /\ result' = "ok"
      /\ UNCHANGED <<live, object, owner, data>>

ProtectThrows(guestAddr, length) ==
  /\ Running
  /\ live
  /\ length > 0
  /\ \A r \in regions : ~Touches(r, MapStart(guestAddr), MapEnd(guestAddr, length))
  /\ result' = "throws"
  /\ UNCHANGED <<live, object, regions, kernel>>

(***************************************************************************)
(* read, write and zero: isMapped, then toHost, then a plain memory access  *)
(* of the host process.                                                    *)
(***************************************************************************)

AccessAccepted(guestAddr, n) == isMapped(guestAddr, n) /\ isMapped(guestAddr, 1)

\* The host lets the process touch every byte with the access asked for.
HostAllows(guestAddr, n, access) ==
  \A h \in HostBytes(guestAddr, n) :
    /\ HostPageOf(h) \in HostPages
    /\ owner[HostPageOf(h)] # "free"
    /\ access \in hprot[HostPageOf(h)]

WriteOk(guestAddr, n) ==
  /\ Running
  /\ live
  /\ n > 0
  /\ AccessAccepted(guestAddr, n)
  /\ HostAllows(guestAddr, n, "w")
  /\ data' = data \cup HostBytes(guestAddr, n)
  /\ result' = "ok"
  /\ UNCHANGED <<live, object, regions, owner, hprot>>

ZeroOk(guestAddr, n) ==
  /\ Running
  /\ live
  /\ n > 0
  /\ AccessAccepted(guestAddr, n)
  /\ HostAllows(guestAddr, n, "w")
  /\ data' = data \ HostBytes(guestAddr, n)
  /\ result' = "ok"
  /\ UNCHANGED <<live, object, regions, owner, hprot>>

ReadOk(guestAddr, n) ==
  /\ Running
  /\ live
  /\ n > 0
  /\ AccessAccepted(guestAddr, n)
  /\ HostAllows(guestAddr, n, "r")
  /\ result' = "ok"
  /\ UNCHANGED <<live, object, regions, kernel>>

AccessThrows(guestAddr, n) ==
  /\ Running
  /\ live
  /\ n > 0
  /\ ~AccessAccepted(guestAddr, n)
  /\ result' = "throws"
  /\ UNCHANGED <<live, object, regions, kernel>>

\* The range passes the check but the host page does not allow the access:
\* the process is killed by a signal, no exception is raised.
AccessFaults(guestAddr, n, access) ==
  /\ Running
  /\ live
  /\ n > 0
  /\ AccessAccepted(guestAddr, n)
  /\ ~HostAllows(guestAddr, n, access)
  /\ result' = "fault"
  /\ UNCHANGED <<live, object, regions, kernel>>

\* map, protect, read, write and zero return at once for a length of zero.
EmptyCall ==
  /\ Running
  /\ live
  /\ result' = "ok"
  /\ UNCHANGED <<live, object, regions, kernel>>

(***************************************************************************)
(* The rest of the host process, whose allocator and threads map and unmap  *)
(* pages of their own between any two calls.                               *)
(***************************************************************************)

HostMaps(p) ==
  /\ owner[p] = "free"
  /\ owner' = [owner EXCEPT ![p] = "other"]
  /\ hprot' = [hprot EXCEPT ![p] = {"r", "w"}]
  /\ UNCHANGED <<live, object, regions, data, result>>

HostUnmaps(p) ==
  /\ owner[p] = "other"
  /\ owner' = [owner EXCEPT ![p] = "free"]
  /\ hprot' = [hprot EXCEPT ![p] = {}]
  /\ UNCHANGED <<live, object, regions, data, result>>

HostStep == Running /\ \E p \in HostChurn : HostMaps(p) \/ HostUnmaps(p)

\* No object yet.
Init ==
  /\ live = FALSE
  /\ hostOffset = 0
  /\ windowBase = 0
  /\ windowSize = 0
  /\ reservedLow = 0
  /\ reservedHigh = 0
  /\ regions = {}
  /\ owner = [p \in HostPages |-> IF p \in HostOwned THEN "other" ELSE "free"]
  /\ hprot = [p \in HostPages |-> IF p \in HostOwned THEN {"r", "w"} ELSE {}]
  /\ data = {}
  /\ result = "none"
=============================================================================
