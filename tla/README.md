# Formal models of InstaX

InstaX takes an x86-64 ELF file, lays it out in memory as a process would see
it, and lifts its instructions to an intermediate representation. These
modules model the parts of it that decide something: who owns which page, which
bytes are mapped, in which order an image is written, relocated and protected,
what a conditional jump tests, where a basic block begins,
what an instruction is lifted to. TLC checks them on
small instances and TLAPS proves the central facts for every instance.

Paths below are relative to the repository's `src/`.

## The system

| component | state | operations | talks to |
|---|---|---|---|
| GuestMemory (`runtime/GuestMemory.cpp`) | offset, window, reservation, region list; the host's page table | constructor, destructor, `map`, `protect`, `read`, `write`, `zero`, `isMapped`, `protAt`, `toHost` | the kernel (mmap, mprotect, munmap), beside the rest of the process |
| ElfMapper (`runtime/ElfMapper.cpp`) | the parsed file, the image's report | `readElfFile`, `computeLoadSpan`, `mapImage`, `applyRelocations`, `applyRelro` | GuestMemory |
| GuestStack (`runtime/GuestStack.cpp`) | cursor, rsp | `buildInitialStack` | GuestMemory |
| Loader (`runtime/Loader.cpp`) | a GuestProcess, owner of a GuestMemory | `load`, `describe`, `readCode` | all of the above |
| FlagState (`ir/Flagstate.cpp`) | the last flag-setting operation | `set`, `invalidate`, `materialise` | called by the lifter |
| Disassembler and CFG builder (`backend/x86/X86Lifter.cpp`) | instructions, leaders, blocks | `disassemble`, `buildCFG` | Zydis; feeds the lifter |
| FunctionLifter (`backend/x86/X86Lifter.cpp`) | IR function, labels, the FlagState | `lift`, `liftInstr`, register and operand access | IR, FlagState, the CFG |
| IR (`ir/IR.cpp`) | blocks of instructions, the counter of virtual registers | factories, `pushInst`, `allocVreg`, printing | filled by the lifter |
| symbol reader, DDG, ELFLoader, ELF types, main, utils | nothing between calls | one-pass readers, declarations, printing | |

What is hard in it:

* *Somebody else's pages.* The object maps with MAP_FIXED inside its
  reservation, in a process whose allocator and threads map too. The decision
  is made on guest addresses, the effect is on host pages, and an offset that
  wraps and a rounding (twice: guest pages, host pages) lie between them.
* *Order.* An image is written through protections it also sets; relocation
  comes after segment protection and before relro; the stack is mapped last.
* *Failure half way.* Any of a load's calls may throw; the object must go and
  the next load must find a clean process.
* *Edges.* Sums of addresses and lengths wrap; rounding the last byte instead
  of the end asks for a page too many.
* *Flags recomputed later* from a result and one operand.
* *Blocks* cut at leaders found before and after the place they cut, over a
  sweep that resynchronises after undecodable bytes.
* *Widths.* An instruction is lifted through loads, truncations, extensions and
  merges whose widths are chosen operand by operand; a wrong one keeps or loses
  bits of another value, and only for some operands.

`PROJECT.json` lists each hazard at its line with the properties that would
catch it going wrong.

## Reading the source

At this commit several files do not compile. Text a C++ compiler would accept
is modelled as it stands (a missing `break`, a parameter passed by value). A
token a compiler would reject is read with the smallest repair:
`return m_hostOffset = 0` in a const function and `|| relaEnt = 0` compare;
`insideReservation > MAP_FIXED : ...` is `?`; `!!` is `||`; `flase`, missing
semicolons and braces are what they must be; `length` in `disassemble` is its
parameter `len`; `if(const auto& di : instrs)` is a `for`; `isNotControlFlow`
is `isControlFlow`; `mem.write(target, value)` is `write64`. In the lifter,
braces missing around a `case` with declarations are put in; MOVSX's undeclared
`src` is what MOVZX reads; the operands one-operand IMUL does not name are `rax`
and `src`; the undefined `destWidth` and `typeFromEncodedSize` are the width
code ADD has; `lsh` is `lhs`. Zydis reports the register of an operand that is
none as NONE, and that is what `typeOfReg` then gets.

`liftBlock` is empty and `lift` stops after the blocks are created: nothing
says which instructions reach `liftInstr`, so Lifter and FlagState allow any,
block after block, with the one `m_flagState` the class has.

## Modules

**GuestPaging**: the address arithmetic. Addresses are naturals below `Mod`,
sums and differences wrap. `PagingAssumption` says that page sizes divide one
another and that the kernel keeps the last host page.

**GuestMemory**: the object (`live`, `hostOffset`, `windowBase`, `windowSize`,
`reservedLow`, `reservedHigh`, `regions`) and the host's page table (`owner`,
`hprot`, and `data`, the host bytes that hold something written). One operator
per outcome of each call: `MapOk`, `MapThrows`, ..., with `AccessFaults` for
an access that passes `isMapped` and is killed by the MMU. `HostMaps` and
`HostUnmaps` are the rest of the process. The region list is a set, since its
order only decides between overlapping regions; `ProtsAt` keeps every answer.

**GuestMemoryClient** composes these with arbitrary arguments and states what
the class promises. **AddressSpace** is the promise in one specification: a
flat address space with permissions and contents, no host, no window, no region
list. `ImplementsAddressSpace` maps the permissions to those of the regions at
an address and the written addresses to the mapped ones whose host byte holds
data; a map, protect, write, zero or destruction is the step of that name, and
everything else, all that the host process does included, is not seen.
**MCGuestMemory** gives the instances.

**Loader**: `GuestProcess::load` as the sequence of its GuestMemory calls, one
step per call and per loop iteration, with the locals that decide (`k`, `dyn`,
`table`, `cursor`, `rsp`). A step either goes on, or throws and the next step
is `Unwind`, or faults and the process is dead. Between any two steps the rest
of the process may act. After an end the caller may load again. A file is what
`readElfFile` makes of it; `readable` says that it returns at all. Of several
PT_DYNAMIC the last counts. **MCLoader** gives the files and options.

**FlagState**: the record (`m_valid`, `m_op`, `m_result`, `m_lhs`) beside the
flags `eflags` of the processor it stands for; each action is one instruction
on both sides. `lifted(jcc)` and `taken(jcc)` are the two answers to a jump. The
record keeps IR values, as `set` is handed them: `VReg`, a 64-bit register,
which is worth what the register holds when the jump asks, and `Temp`, a
temporary, which stays. `regs` is what the registers hold, written by
the instruction that sets the flags (`writeOperand`) and by those after it
(`Move`). It takes the writes `writeReg` pushes as done; that they go to a copy
of the block is *LifterRegisters*. `stale` is a history variable: the register
`m_lhs` names was written since. **MCFlagState** has the symmetry and the view.

**CFGBuilder**: the sweep, the two loops of `buildCFG`, and the labels, one
iteration per step, over any decoding (`Encodings`). **MCCFGBuilder** has the
encodings.

**IR**: types, values, the factories the lifter calls, `pushInst` with its
refusal after a terminator, `allocVreg`. A function being built is its block
(`insts`), all that was pushed to the block or to a copy of it (`pushed`), the
counter, and whether an exception left.

**Lifter**: `liftInstr`, one operator per case, over `readReg`, `writeReg`,
`computeAddr`, `readOperand`, `writeOperand`. A helper takes the function and
returns it grown, with the value it made. `LiftInstr` is one instruction,
`NextBlock` the next block of the same function. The instructions
`materialise` emits are one instruction here; FlagState has them.

**LifterMachine** runs what was pushed for an instruction and the processor from
the same machine state, and states in which cases they agree. **MCLifter** has
the instructions and the machine states.

**GuestMemoryProofs, GuestSpaceProofs, LoaderProofs, LoaderImageProofs,
FlagStateProofs, CFGBuilderProofs, LifterProofs, LifterMachineProofs**: theorems.

An operator whose name ends in `Mut` (or `directTargetSigned`) is a plausible
bug in the definition it is named after; with it in place TLC finds the
property `PROJECT.json` pairs it with violated. Nothing else uses them.

## Runs

All run with `tlc -config <run>.cfg <module>`.

| run | module | shows |
|---|---|---|
| GuestMemory | MCGuestMemory | the object's promises to its clients and to the process, under any sequence of calls; the refinement of AddressSpace |
| GuestMemoryWide | MCGuestMemory | the same ownership facts with host pages of two guest pages and wrapping ranges |
| Loader | MCLoader | two loads in a row: no fault, the image and the stack as they should be, permissions as linked, failures unwound |
| LoaderEnds | MCLoader | every load ends |
| FlagState | MCFlagState | the jumps that are exact, with registers written between record and jump |
| CFGBuilder | MCCFGBuilder | the sweep tiles, the blocks partition, labels resolve |
| Lifter | MCLifter | ids and terminators; what is pushed computes what the processor does, within the cases below |
| GuestMemoryLeak | MCGuestMemory | violation: pages outside an identity window outlive the object |
| LoaderStatic | MCLoader | violation: a page-aligned static file does not load |
| LoaderWide | MCLoader | violation: on larger host pages a guest-writable page is not writable |
| FlagStateSigned | FlagState | violation: JL after CMP |
| LifterRegisters | MCLifter | violation: a register move leaves nothing in its block |

A violation run checks one statement of a comment or message in the code that
the code does not keep; the finding in `PROJECT.json` quotes it.

### Bounds

* *GuestMemory*: eight pages of two bytes, user space up to the seventh; an
  image of two pages, so that a fallback window can lie below it, overlap it or
  lie above it, and the offset wraps; two regions at a time, which is what a split
  by `protect` needs to touch several (a `protect` may still make more: the
  bound is on `map`); one page taken at the start and one that comes and goes.
  Two-byte pages tell a first, a last and an unaligned byte apart.
* *GuestMemoryWide*: six host pages of four bytes, two guest pages each.
  Ranges inside one host page, across two, outside, and to and past the top.
* *Loader*: a user space of fifteen pages of four bytes, in 128 addresses, so
  that user space is less than half of them as it really is; words and table
  entries of two bytes, half a page, so that one can run off the end of a page.
  `MaxLoads = 2` because the only thing a load leaves behind is a leaked stack,
  which the second load meets. Nine files, four stacks; one file is refused by
  `readElfFile`, one has a PT_DYNAMIC before the one that counts. Loads that reach
  `running` are those whose image ends on the first byte of a page and whose
  stack ends where the image begins: everything else runs into `isMapped`'s
  extra page (see *LoaderStatic*), and this too strict check is one reason
  `ImageIntact` and `StackWellFormed` hold (lemma `StackBelow`). A change to
  `isMapped` makes these two worth checking again with more stacks.
* *FlagState*: two-bit words, all operand pairs: both signs, both extremes,
  carries and overflows in every combination. Two registers: the one the record
  names and another. They are interchangeable, hence the symmetry. The view
  leaves out what a record that was invalidated still holds: `materialise` reads
  nothing of it and `set` replaces all of it. SHL, SHR and SAR are one operation,
  since the record answers them alike. The proofs cover every width and any set
  of registers.
* *CFGBuilder*: up to four bytes, ten encodings of one and two bytes, at
  addresses 0 and 9 of 32: two jumps before, after or into two instructions.
* *Lifter*: a byte of one bit, so that `i8` has one bit, `i16` two, `i32` four,
  `i64` eight and memory 256 bytes: all four widths differ and every wrap
  happens. 112 instructions, 90 of them in `Covered` for some state: each mnemonic with registers of several widths,
  immediates narrower than the operand, memory with base, index, scale,
  displacement, RIP or no register. Two at a time, in one block or two, which is
  what a stale record, an id used twice or a push after a terminator needs. Four
  machine states with both signs, zero and the extremes.

### Fairness and stopping

Only `LoadEnds` and `StaticLoads` are temporal. They assume `WF(LoadStep)`:
`load` is one sequential function, so as long as its next call can return it is
eventually made, while the rest of the process may act in between. `Begin` and
`Release` belong to the caller, who need not call; nothing is assumed of the
host's steps.

Deadlock is not checked, since each system may rightly stop: after a fault there is
no process, loads are bounded, and a function is lifted once.

### What the lifter covers

`Covered` in LifterMachine is the scope of `StoresExact`, `PushesExact` and
`RecordExact`. Outside it the model follows the code and the code differs from
the processor (lines of `src/backend/x86/X86Lifter.cpp`):

| line | case |
|---|---|
| 36 | AH, BH, CH, DH are taken for the low byte |
| 553 | vector, segment and other untracked registers read as 0 |
| 630 | an FS or GS segment is not added to an address (a memory operand of the model has no segment) |
| 644, 671 | a RIP-relative address is twice the displacement, without rip |
| 655 | an address of 32-bit registers, base or index, is not cut to 32 bits |
| 809, 845 | MOV goes on as MOVZX, which takes a 64-bit memory source, or an immediate of that size, for 8 bits: `MOV r64, m64` keeps a byte |
| 809, 844 | the same with an immediate of 32 bits, which MOVZX reads at 32 bits and extends with zeros: `MOV r64, imm32` loses the sign |
| 809 | a MOV whose source address uses the register it writes reads again through the new value |
| 821 | an immediate is stored with its own width |
| 886 | LEA cuts the address to 16 bits |
| 918, 1100 | the flag record of a 64-bit register destination names the register, which the instruction overwrites: `RecordExact` leaves it out, and so do `UnsignedJumpsExact` and `SignedJumpsExact` of FlagState, since carry, overflow and signed order after ADD, SUB, INC or DEC of a 64-bit register, or after CMP once the compared register is written, are then recovered from another value. Jumps on zero and sign are not affected (`ResultJumpsExact`) |
| 936 | one-operand IMUL writes 0 for the high half |
| 982 | DIV and IDIV divide RAX alone, at 64 bits |
| 1037, 1067, 1092 | NOT, NEG, INC, DEC and the shifts take a memory operand for 64 bits |
| 1071 | a shift count the processor would mask is shifted by as it is (the instances shift by 0 and 1, the theorems by any count below `ShiftLimit`) |

Within it `PushesExact` counts what `writeReg` and `readReg` push to their copies
of the block; that the block itself gets none of it is *LifterRegisters*.

## Proofs

`tlapm <module>.tla` checks them.

*GuestMemory* (`Spec` of GuestMemoryClient, for every address space, page size,
argument set and behaviour of the rest of the process): `TypeOK`, `WindowHeld`,
`BiasedInsideWindow`, `ForeignKept`. None is inductive alone. `IInv` adds
`Geometry`, what the constructor fixes (window and reservation aligned to host
pages, the window inside user space, the reservation the window seen through
the offset), and `Unowned` (without an object no page is the object's). The
key lemma is `InsideStaysInWindow`: a guest range inside the reservation, once
rounded to host pages and translated, is a range of the window, so MAP_FIXED
replaces nothing else. It rests on lemmas about rounding and wrapped sums. `ForeignKept` then follows action by action.

`isMapped` and the regions (the second half of GuestMemoryProofs): `MappedIsSound` follows from
`Aligned`, regions begin and end at guest pages, since then looking up the first
byte of each page is enough. `RegionsBacked` and `DataInGuest` rest on `Backed`:
it adds that regions are not empty and do not wrap (`Placed`) and that data is
on pages the object owns or left behind. The key lemma is `MapCovers`: every
byte of a guest range that map accepts translates to a page it asks mmap for.
These two theorems have the hypothesis `NoWrap`: no range of the client ends in
the last page of the address space. The end of one that does rounds to 0: on
larger host pages map then records more than mmap gave, and `isMapped` is true
of bytes no region has.

*The refinement* (GuestSpaceProofs): `Spec => ImplementsAddressSpace` under
`NoWrap` and with host pages of the guest's size (with larger ones map zeroes the
neighbours on a shared host page, GuestMemory.cpp:211). `toHost` is injective, so
a call's host bytes are those of its guest bytes and of no others
(`BytesExact`, `PagesExact`), and the pieces `protect` cuts a region into hold
its bytes, each with the right permission (`PiecesExact`). Then one lemma per
call gives its AddressSpace step.

*Loader* (every set of files and options, page size, address space and behaviour
of the rest of the process): each step of a load is one call of
GuestMemoryClient's `Spec`, with the client that may pass anything
(`AnyClient`), or changes nothing there. So `WindowHeld` and `ForeignKept` hold
of every load without a proof of their own. `LoaderInv` is what makes the
arguments addresses: the types of the locals, and at each stage what the loop's
index is an index of; one lemma per step shows that the call is the client's
and that `LoaderInv` is kept. `LoaderTypeOK` is part of it.

`LeaksOnlyStacks` needs more (`LeakInv`): every page the object holds is in the
window or a page of a stack. The step that could break it is the map of the
image, which in identity mode may claim pages outside the window. It does not,
because the constructor rounds the span to host pages as map does
(`ImageRounding`, `ConstructInside`), with one exception the proof has to
exclude: a fallback window that happens to lie at the image's own addresses is
identity mode too, and is smaller than the image when doubling the image's size
wraps (GuestMemory.cpp, `probeSize * 2`). `SmallUserSpace`, user space is less than
half of the addresses, is the hypothesis that rules it out (2^47 of 2^64 on
x86-64).

*What a load makes* (LoaderImageProofs): `LoadableNeverFaults`, `PermissionsAsLinked`,
`ImageIntact`, `StackWellFormed`, for every behaviour of the host process, every
option and every file a linker makes, under `SmallUserSpace`, host pages of the
guest's size (`SmallHostPages`) and `WellLinked`. `WellLinked` (in Loader) is what a linker and a kernel
guarantee and load checks only in part: segments in user space, above room for a
stack, each on pages of its own and with some access; no more bytes in the file
than in memory; `.dynamic`, relro and relocated words inside segments; a PIE
moved by whole pages. Of the tables it asks only that they end in user space,
and a relocation outside the image is allowed. MCLoader assumes
`FilesAreLinked`, so TLC checks that the nine files and the options are among
those the theorems speak of.

Neither half of the inductive invariant holds of the end alone; each says what
is so at every stage.

* `LinkInv`, permissions. `Shown`: `protAt` answers for every address the
  permission of the last segment or relro range protected so far, the default of
  `map` where none was, `{r, w}` on the stack once it is mapped, and nothing
  elsewhere. `Hosted` (a lemma of the refinement): the host page shows the same,
  which is why the host pages must be the guest's. `Framed` and `StackLaid`: the
  image is inside the window, the stack in user space, both on page boundaries.
  `StackMapped` is the step that could break it, since in identity mode the
  stack's map may claim what it finds free: it never meets the image.
* `ImageInv`, contents. `Held`: the object's memory holds of the image the bytes of
  the segments written so far and later relocated words, and of the stack what
  was pushed so far, so many bytes down from the top. `Tables` and `Walked`:
  the addresses read come from the file. And so far nothing has faulted.

An access that `isMapped` lets through then meets a page of the image or the
stack (`AcceptedMapped`); one before the protections may write it, a read finds
`r` because segments have some access and the host maps them readable
(`ReadSafe`, `WriteSafe`); a relocation is a write to a segment's page before
relro, which only its own segment protects (`ProtOfAlone`). A file that
relocates a read-only segment (`~Linked`) is what the property leaves out.

`StackBelow` is why `ImageIntact` and `StackWellFormed` need no more than they
say: the first string pushed ends at the top of the stack, where `isMapped`
looks one page further, so it is let through only under an image. The theorems
therefore speak of the loads the code lets reach `running`, as the run does (see
*Bounds*); with another `isMapped` that lemma, `StackWrite` and the lemmas of
the pushes are what must be proved again.

`GuestWritesReachHost`, which *LoaderWide* finds violated with larger host pages,
is a theorem for host pages of the guest's size: the finding needs nothing else.

*FlagState* (every word width and set of registers): `TypeOK`,
`ResultJumpsExact`, `UnsignedJumpsExact` and `SignedJumpsExact` through
`FlagsAgree`, that each flag the record can answer is the processor's: ZF and SF
always, as the result is a temporary, CF and OF as long as the record is not
`stale` or its operation clears them. `OperandWritten` and the step of `Move` show
that a write to another register, or to any when the left operand is a temporary,
changes nothing the record is worth. What the arithmetic rests on is in `CarryOfSum` and `BorrowOfDifference`: a
wrapped sum is below its left operand exactly when it carried, a wrapped
difference above it exactly when it borrowed; and in `OverflowOfIncrement` and
`OverflowOfDecrement`.

*CFGBuilder* (every function, address and set of encodings): `SweepTiles` and
`TypeOK`. Each needs the other: a new instruction's address is one because the
sweep is still inside the function. `Started` records that the loops only run
over a non-empty list.

Blocks and labels: `BlocksStraight` and `LabelsResolve` over the
same `IInv`. The sweep is in address order (`Ordered`), so a key names one
instruction and no block is entered again once it is closed; every instruction
the first loop has passed has made its leaders (`LeadersFound`); what leads is a
key (`Keyed`) and nothing inside a block leads (`Cut`). That `directTarget`
answers 0 for "none" loses only a jump to the first instruction, which leads
anyway (`TargetLeads`).

`BlocksPartition` needs more, `Runs`: each block so far is a run of the list that
begins with its key, a leader, and holds no other; the current one reaches the
instruction added last, and what follows a block that was left is a leader,
which is why none is entered twice. The greatest key not above an address then
names the run the address is in (`Greatest`).

*Lifter* (any instructions, any number, any width of a byte): `TypeOK` and
`TerminatorLast`. `Good` of a function says that nothing follows a terminator in
the block and that every id used is below the counter; each helper of the
lifter keeps it and only raises the counter, one lemma for each. `TempsDefined`
is in it too: `DefsOK` of each push, and `ValOK` of the values the helpers hand
each other, which are defined unless the block has ended, when what would use
them is refused as their definition was. The flag record is the exception the
property makes: it may name a value a refused push defines.

*What is lifted does what the processor does* (LifterMachineProofs): `PushesExact`,
`StoresExact` and `RecordExact`, for any instructions, any machine states and a
byte of any width, within `Covered`. They speak of the last instruction only, so
the invariant, `LiftInv`, is `IInv` with one more fact: the function and the flag
record are what `liftInstr` made of those before it. `IInv` is needed because the
code pushed is only right if the ids it takes were not handed out before: a
temporary used twice, or one below the counter, would overwrite a value a later
push still reads.

The argument follows the code's own helpers. `Ran`: from the machine's registers
and memory, the code pushed so far (all of it, or the part the block keeps) runs
to a given state; a push is one more `Execute` (`PushRan`). What reads (`ReadReg`, `AddrGives`, `ReadOp`) changes no register and
no memory and `Gives` a value; `FetchedRight` and `AddrRight` say it is the
processor's. What writes (`WriteReg`, `WriteOp`) leaves the machine that
`RegPut` or `StoreTo` makes. Then one lemma per handler reads, computes and
writes (`BinaryDone`, `CompareDone`, `ShiftDone`, `MovDone`, ...), and `LiftDone`
puts them together. The hard ones:

* `WriteReg`: a narrow register is merged by AND with a mask and OR with the
  value extended. `MaskKeeps` and `MaskJoins` say that this replaces the low bits
  and no others, from what the bits of a sum of powers of two are (`NumberBits`,
  `WordBits`).
* `AddrGives`: base, index times scale and displacement are added with a wrap at
  each step, the processor's sum is wrapped once, at 64 or at 32 bits.
* `MovDone`: MOV writes twice. `PutTwice` and `PutElsewhere` say when the second
  time changes nothing: this is what `MovesTwice` asks.
* `DivideDone` and `MultiplyOneDone`: RAX is written before RDX from values taken
  before, so the two writes must not disturb the second value (`PairWrites`).

Powers of two, sums and running a list are recursive functions, not recursive
operators or folds. That each satisfies its equation (`Pow2Def`, `TotalDef`,
`RunDef`) is proved from the least number for which it would not (`LeastNat`),
since an induction theorem cannot be instantiated here; the same argument proves
what they compute.

Assumptions: those named in the modules (`PagingAssumption`, `HostAssumption`,
`ClientAssumption`, `HalfAssumption`, `CFGAssumption`, `IRAssumption`,
`LifterAssumption`, `LoaderAssumption`, `MachineAssumption`, `DecoderAssumption`),
each evaluated by TLC on the instances,
and the hypotheses of the theorems that state them: `NoWrap`, `SmallHostPages`,
`SmallUserSpace` and `WellLinked`. The instance of the run GuestMemory satisfies
the first two, that of the run Loader the last three. `AnyClient` gives the
parameters of GuestMemoryClient their largest values and restricts nothing in
Loader. `MachineAssumption` says that registers hold words and memory bytes.
`DecoderAssumption` says that the instructions the lifter handles have operands x86
has for them: two of one width for ADD, a narrow source for MOVZX, a count in CL
or in a byte; the decoder gives no others. It asks nothing of instructions with
registers the lifter does not track, which `Covered` leaves out.

*Only model-checked*: `LoadEnds`, which is liveness and outside the prover. Every
invariant and every action property that a passing run checks is a theorem.

## Not modelled

The data-dependence graph (declared, not written), the ELFIO reader, the
symbol reader, the command line; of the IR its printing, its edges and the
factories nothing calls; of the lifter `emitFlagsForArith`, `pushStack` and
`jccCond`, which nothing calls. Hazards no property covers are in
`PROJECT.json` with the reason. The kernel, the processor and Zydis are
modelled from how the code uses them and marked external. Concurrent calls on
one GuestMemory are not modelled: the code has no lock and its callers make none.

## Plan

Done: GuestMemory under an arbitrary client, its refinement of AddressSpace and
their proofs; Loader on top of it, proved to be such a client; FlagState,
CFGBuilder and Lifter with their proofs; what a load makes, proved for every file
a linker makes; what is lifted beside the processor, proved for every instruction
in scope. Left:

1. Files outside `WellLinked`: which of its parts each theorem of
   LoaderImageProofs can do without (permissions do not need readable tables).
2. The flag record at joins, once `liftBlock` has a body that fixes the order
   in which blocks are lifted.
3. A conjunct less in `Covered` for each case of *What the lifter covers* that is
   repaired; the lemma that uses it is the one to prove again.
