------------------------- MODULE GuestMemoryClient -------------------------
(***************************************************************************)
(* GuestMemory under an arbitrary client: any sequence of constructions,   *)
(* calls and destructions, with any argument of the constants below, while *)
(* the rest of the process maps and unmaps pages.  What the class promises *)
(* its clients and the rest of the process is stated at the end.           *)
(***************************************************************************)
EXTENDS GuestMemory, FiniteSets

CONSTANTS
  Images,      \* constructor arguments: <<imageLow, imageHigh, fallbackWindowSize>>
  Ranges,      \* <<guestAddr, length>> the client maps or protects
  Accesses,    \* <<guestAddr, n>> the client reads, writes or zeroes
  Prots,       \* guest permissions the client passes
  MaxRegions   \* bound on the regions the client maps

\* Arguments are 64-bit addresses and lengths; permissions are kProt masks.
ASSUME ClientAssumption ==
  /\ Images \subseteq Addr \X Addr \X Addr
  /\ Ranges \subseteq Addr \X Addr
  /\ Accesses \subseteq Addr \X Addr
  /\ Prots \subseteq SUBSET {"r", "w", "x"}
  /\ MaxRegions \in Nat

Construct ==
  /\ Running
  /\ \E img \in Images :
       \/ ConstructIdentity(img[1], img[2])
       \/ \E base \in HostPages : ConstructBiased(img[1], img[2], img[3], base)
       \/ ConstructThrows

Map ==
  \E rng \in Ranges :
    \/ /\ Cardinality(regions) < MaxRegions
       /\ \E prot \in Prots : MapOk(rng[1], rng[2], prot)
    \/ MapThrows(rng[1], rng[2])

Protect ==
  \E rng \in Ranges :
    \/ \E prot \in Prots : ProtectOk(rng[1], rng[2], prot)
    \/ ProtectThrows(rng[1], rng[2])

Access ==
  \E rng \in Accesses :
    \/ WriteOk(rng[1], rng[2])
    \/ ZeroOk(rng[1], rng[2])
    \/ ReadOk(rng[1], rng[2])
    \/ AccessThrows(rng[1], rng[2])
    \/ \E access \in {"r", "w"} : AccessFaults(rng[1], rng[2], access)

Next ==
  \/ Construct
  \/ Map
  \/ Protect
  \/ Access
  \/ EmptyCall
  \/ Destroy
  \/ HostStep

Spec == Init /\ [][Next]_vars

(***************************************************************************)
(* Properties.                                                             *)
(***************************************************************************)

\* The variables hold values of their types: addresses wrap at Mod, a region
\* is never longer than the address space, only user pages are ever owned.
TypeOK ==
  /\ live \in BOOLEAN
  /\ hostOffset \in Addr
  /\ windowBase \in Addr
  /\ windowSize \in Addr
  /\ reservedLow \in Addr
  /\ reservedHigh \in Addr
  /\ regions \subseteq Region
  /\ owner \in [HostPages -> Owner]
  /\ hprot \in [HostPages -> SUBSET {"r", "w"}]
  /\ data \subseteq Addr
  /\ result \in Result

\* GuestMemory.h:111-113, "so that no unrelated allocation can land in the
\* middle of the guest's address space": from construction to destruction the
\* object owns every page of its window, whatever maps succeed or are refused
\* and whatever the rest of the process allocates meanwhile.
WindowHeld == live => \A p \in Window : owner[p] = "guest"

\* Every byte of every region translates, by the one offset, to a page the
\* object owns: m_regions never promises memory that toHost would resolve to
\* a hole or to somebody else's page.
Bytes(r) == r.addr .. r.addr + r.length - 1
RegionsBacked ==
  \A r \in regions : \A a \in Bytes(r) :
    /\ HostPageOf(toHost(a)) \in HostPages
    /\ owner[HostPageOf(toHost(a))] = "guest"

\* GuestMemory.h:77-80: in biased mode the window is a hard boundary, so no
\* page outside it is ever claimed and destroying the object leaks nothing.
BiasedInsideWindow ==
  live /\ ~isIdentity => \A p \in HostPages : owner[p] = "guest" => p \in Window

\* isMapped answers true only when every byte is in a region, for a range
\* whose rounded end does not pass the top of the address space.
MappedIsSound ==
  \A a \in Addr : \A n \in 1 .. Mod - GuestPage - a :
    isMapped(a, n) => \A b \in a .. a + n - 1 : RegionsAt(b) # {}

\* A byte the guest writes lands on a page of the guest.
DataInGuest == \A b \in data : owner[HostPageOf(b)] # "other"

\* GuestMemory.cpp:163-166 with Loader.hpp:34, "it owns a GuestMemory, which
\* owns mappings": once the object is gone none of its pages is left behind.
NothingLeaked == \A p \in HostPages : owner[p] # "leaked"

\* Only the rest of the process changes what the rest of the process owns:
\* no construct, map, protect, access or destruction takes, frees or replaces
\* a page that is not the object's.
ForeignKept ==
  [][\A p \in HostPages :
       owner[p] = "other" /\ owner'[p] # "other" => HostUnmaps(p)]_vars

\* A guest byte's permission, seen through protAt, and its content.
Contents(mem) == {a \in Addr : RegionsAt(a) # {} /\ toHost(a) \in mem}

\* A guest keeps a flat address space for as long as the object lives: each
\* call does to it what AddressSpace says and nothing else, whatever window the
\* object got and whatever the rest of the process does meanwhile.
Space == INSTANCE AddressSpace WITH
  Spans <- {MapStart(rng[1]) .. MapEnd(rng[1], rng[2]) - 1 : rng \in Ranges}
             \cup {rng[1] .. rng[1] + rng[2] - 1 : rng \in Accesses},
  perms <- [a \in Addr |-> {r.prot : r \in RegionsAt(a)}],
  written <- Contents(data)

ImplementsAddressSpace == Space!Spec
=============================================================================
