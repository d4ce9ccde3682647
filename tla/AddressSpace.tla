---------------------------- MODULE AddressSpace ----------------------------
(***************************************************************************)
(* What GuestMemory promises a guest (GuestMemory.h:49-73), without a host: *)
(* a flat address space.  perms gives an address the permissions protAt may *)
(* answer with, none for an address that is not mapped; written holds the   *)
(* mapped addresses whose byte is not the zero of a fresh page.  A call that *)
(* throws changes nothing.                                                  *)
(***************************************************************************)
CONSTANTS
  Addr,     \* guest addresses
  Spans,    \* sets of addresses the calls are about
  Prots     \* guest permissions

VARIABLES perms, written

space == <<perms, written>>

Mapped == {a \in Addr : perms[a] # {}}

Init ==
  /\ perms = [a \in Addr |-> {}]
  /\ written = {}

\* map: the range becomes zero and readable through the new region; where an
\* older region has the address too, protAt may still answer with that one's.
Map(span, prot) ==
  /\ perms' = [a \in Addr |-> IF a \in span THEN perms[a] \cup {prot} ELSE perms[a]]
  /\ written' = written \ span

\* protect: what is mapped in the range gets one permission; contents stay.
Protect(span, prot) ==
  /\ perms' = [a \in Addr |-> IF a \in span \cap Mapped THEN {prot} ELSE perms[a]]
  /\ UNCHANGED written

\* write and zero reach the bytes asked for and no other.
Write(span) ==
  /\ span \subseteq Mapped
  /\ written' = written \cup span
  /\ UNCHANGED perms

Zero(span) ==
  /\ span \subseteq Mapped
  /\ written' = written \ span
  /\ UNCHANGED perms

\* Queries, calls that throw, and all the host process does.
Observe == UNCHANGED space

\* The object is destroyed.
Clear ==
  /\ perms' = [a \in Addr |-> {}]
  /\ written' = {}

Next ==
  \/ Observe
  \/ Clear
  \/ \E span \in Spans, prot \in Prots : Map(span, prot) \/ Protect(span, prot)
  \/ \E span \in Spans : Write(span) \/ Zero(span)

Spec == Init /\ [][Next]_space
=============================================================================
