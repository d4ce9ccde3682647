---------------------------- MODULE GuestPaging ----------------------------
(***************************************************************************)
(* The address arithmetic GuestMemory.cpp is built from.  An address is a   *)
(* 64-bit unsigned integer in the code and a natural below Mod here; every *)
(* addition and subtraction wraps as it does there.  A guest page and a    *)
(* host page are sizes in bytes: the guest's is 4096 (ElfTypes.hpp), the   *)
(* host's is what sysconf answers, 4096 or 16384 on the hosts the code     *)
(* names.                                                                  *)
(***************************************************************************)
EXTENDS Integers

CONSTANTS
  Mod,        \* number of addresses: 2^64
  GuestPage,  \* Elf::GUEST_PAGE_SIZE
  HostPage,   \* GuestMemory::hostPageSize()
  TaskSize    \* first address above what the kernel gives to user space

\* Page sizes divide one another and the address space (all are powers of two
\* on a real machine), and the kernel keeps at least the last host page.
ASSUME PagingAssumption ==
  /\ GuestPage \in Nat \ {0}
  /\ HostPage \in Nat \ {0}
  /\ Mod \in Nat \ {0}
  /\ TaskSize \in Nat
  /\ HostPage % GuestPage = 0
  /\ Mod % HostPage = 0
  /\ TaskSize % HostPage = 0
  /\ TaskSize + HostPage <= Mod

Addr == 0 .. Mod - 1

\* Mutant of Sub: subtraction that does not wrap.
SubMut(a, b) == a - b

Add(a, b) == (a + b) % Mod
Sub(a, b) == (a - b) % Mod

\* value & ~(alignment - 1), for a power of two.
AlignDown(v, a) == v - (v % a)
AlignUp(v, a) == AlignDown(Add(v, a - 1), a)

GuestPageAlignDown(a) == AlignDown(a, GuestPage)
GuestPageAlignUp(a) == AlignUp(a, GuestPage)

GuestPages == {a \in Addr : a % GuestPage = 0}

\* A host page is named by its first address; only those below TaskSize can
\* ever be mapped.
HostPages == {a \in 0 .. TaskSize - 1 : a % HostPage = 0}

HostPageOf(h) == AlignDown(h, HostPage)

\* The host pages of [base, base + size).
PageRange(base, size) == {p \in HostPages : base <= p /\ p < base + size}

\* What mmap accepts as a range: page aligned, not empty, inside user space.
UserRange(base, size) ==
  /\ size > 0
  /\ base % HostPage = 0
  /\ base + size <= TaskSize
=============================================================================
