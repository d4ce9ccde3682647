------------------------------- MODULE Loader -------------------------------
(***************************************************************************)
(* GuestProcess::load (Loader.cpp): an ELF file is mapped, relocated and   *)
(* write-protected (ElfMapper.cpp), a stack is built (GuestStack.cpp) and  *)
(* the first CPU state set, all by calls of one GuestMemory.  Every call is *)
(* a step, so the rest of the host process may act between any two.  A     *)
(* throw anywhere destroys the GuestMemory; the caller may load again.     *)
(*                                                                         *)
(* A file is what its headers say:                                         *)
(*   readable  readElfFile returns: it opens, its header says ELF64,       *)
(*             little-endian, x86-64, ET_EXEC or ET_DYN, and its program    *)
(*             headers are whole                                           *)
(*   fixed     ET_EXEC, else ET_DYN                                        *)
(*   segs      its PT_LOADs: vaddr, filesz, memsz, prot, inFile (the file   *)
(*             range lies in the file)                                     *)
(*   dynamic   PT_DYNAMICs: vaddr, and the <<tag, value>> entries there    *)
(*   relas     relocation entries: the vaddr each is at, type, offset       *)
(*   relro     PT_GNU_RELROs: vaddr, memsz                                 *)
(*   interp    no PT_INTERP, or one whose path starts inside the file      *)
(* A table is read as the file has it: no relocation targets a table.      *)
(***************************************************************************)
EXTENDS GuestMemory, Sequences, FiniteSets, FiniteSetsExt, SequencesExt

CONSTANTS
  Files, Options,
  MaxLoads,     \* bound on the loads attempted
  GuardGap,     \* guardGap: 16 MiB
  WordSize,     \* sizeof(uint64_t)
  DynSize,      \* sizeof(Elf64_Dyn)
  RelaSize,     \* sizeof(Elf64_Rela)
  StackAlign,   \* kStackAlign
  RandomBytes,  \* kRandomBytes
  Strings,      \* bytes of each string pushed, in order, NUL included
  Slots         \* slotCount: words from argc to the end of auxv

Segment ==
  [vaddr : Addr, filesz : Addr, memsz : Addr, prot : SUBSET {"r", "w", "x"}, inFile : BOOLEAN]

Dynamic == [vaddr : Addr, entries : Seq(STRING \X Addr)]

\* Header fields and options are 64-bit words; a string has at least its NUL,
\* and the program's path and the platform are always pushed; the structures
\* read and written fit in a page.
ASSUME LoaderAssumption ==
  /\ \A f \in Files :
       /\ f.readable \in BOOLEAN
       /\ f.fixed \in BOOLEAN
       /\ f.interp \in BOOLEAN
       /\ f.segs \in Seq(Segment)
       /\ f.dynamic \in Seq(Dynamic)
       /\ f.relas \subseteq [vaddr : Addr, type : STRING, offset : Addr]
       /\ f.relro \in Seq([vaddr : Addr, memsz : Addr])
  /\ Options \subseteq
       [pieBase : Addr, stackTop : Addr, stackSize : Addr, fallbackWindowSize : Addr]
  /\ {GuardGap, WordSize, DynSize, RelaSize, StackAlign, RandomBytes} \subseteq Addr \ {0}
  /\ \A bytes \in {WordSize, DynSize, RelaSize} : 1 < bytes /\ bytes <= GuestPage
  /\ Strings \in Seq(Addr \ {0}) \ {<<>>}
  /\ Slots \in Nat
  /\ MaxLoads \in Nat

VARIABLES
  pc,            \* the call load makes next
  file, options, \* load's arguments
  k,             \* index of the loop load is in
  dyn,           \* what the walk of .dynamic found
  table,         \* the relocation table being processed, 1 or 2
  relocs,        \* relocApplied and relocSkipped
  cursor, rsp,   \* buildInitialStack's locals
  loads          \* loads begun

locals == <<dyn, table, relocs, cursor, rsp>>
loaderVars == <<pc, file, options, k, locals, loads>>
allVars == <<vars, loaderVars>>

(***************************************************************************)
(* The image.                                                              *)
(***************************************************************************)

\* The PT_LOADs mapImage does not pass over, by their place in the table.
Loadable == {i \in 1 .. Len(file.segs) : file.segs[i].memsz > 0}

loadBias == IF file.fixed THEN 0 ELSE options.pieBase
Biased(vaddr) == Add(vaddr, loadBias)

spanLow == GuestPageAlignDown(Min({s.vaddr : s \in ToSet(file.segs)}))
spanHigh == GuestPageAlignUp(Max({Add(s.vaddr, s.memsz) : s \in ToSet(file.segs)}))
loadLow == Biased(spanLow)
loadHigh == Biased(spanHigh)

(***************************************************************************)
(* Steps.  Calls(ok, stop, next): the call returns and load goes on at     *)
(* next, or throws and load unwinds, or faults: the process is dead and    *)
(* never comes to unwind.                                                  *)
(***************************************************************************)

Calls(ok, stop, next) ==
  \/ ok /\ pc' = next
  \/ stop /\ pc' = "unwind"

\* load itself throws, between two calls.
Throw == pc' = "unwind" /\ UNCHANGED vars

WriteTo(guestAddr, n, next) ==
  Calls(WriteOk(guestAddr, n),
        AccessThrows(guestAddr, n) \/ AccessFaults(guestAddr, n, "w"), next)

ReadFrom(guestAddr, n, next) ==
  Calls(ReadOk(guestAddr, n),
        AccessThrows(guestAddr, n) \/ AccessFaults(guestAddr, n, "r"), next)

Quiet == UNCHANGED vars

NoTables ==
  [rela |-> 0, relasz |-> 0, relaent |-> RelaSize, jmprel |-> 0, pltrelsz |-> 0]

\* load's locals go out of scope.
Reset ==
  /\ k' = 0
  /\ dyn' = NoTables
  /\ table' = 1
  /\ relocs' = [applied |-> 0, skipped |-> 0]
  /\ cursor' = 0
  /\ rsp' = 0

\* readElfFile throws before anything is claimed.
Begin ==
  /\ pc = "idle"
  /\ loads < MaxLoads
  /\ loads' = loads + 1
  /\ file' \in Files
  /\ options' \in Options
  /\ pc' = IF file'.readable THEN "construct" ELSE "idle"
  /\ Quiet
  /\ UNCHANGED <<k, locals>>

\* computeLoadSpan refuses a file with no PT_LOAD before the constructor runs.
ConstructMemory ==
  /\ pc = "construct"
  /\ \/ /\ file.segs # <<>>
        /\ \/ ConstructIdentity(loadLow, loadHigh)
           \/ \E base \in HostPages :
                ConstructBiased(loadLow, loadHigh, options.fallbackWindowSize, base)
        /\ pc' = "map"
     \/ ConstructThrows /\ pc' = "idle"
  /\ UNCHANGED <<file, options, k, locals, loads>>

\* One map of the whole span, readable and writable.  A span of no bytes is no
\* call of mmap (on larger host pages the constructor lets one through).
MapImage ==
  LET span == Sub(loadHigh, loadLow)
  IN  /\ pc = "map"
      /\ Calls(MapOk(loadLow, span, {"r", "w"}) \/ (span = 0 /\ EmptyCall),
               MapThrows(loadLow, span), "write")
      /\ k' = 1
      /\ UNCHANGED <<file, options, locals, loads>>

\* The file's bytes of segment k.
WriteSegment ==
  /\ pc = "write"
  /\ UNCHANGED <<file, options, locals, loads>>
  /\ \/ k > Len(file.segs) /\ pc' = "protect" /\ k' = 1 /\ Quiet
     \/ k \in 1 .. Len(file.segs) \ Loadable /\ pc' = "write" /\ k' = k + 1 /\ Quiet
     \/ LET seg == file.segs[k]
        IN  /\ k \in Loadable
            /\ k' = k
            /\ \/ seg.filesz = 0 /\ pc' = "zero" /\ Quiet
               \/ seg.filesz > 0 /\ ~seg.inFile /\ Throw
               \/ /\ seg.filesz > 0 /\ seg.inFile
                  /\ WriteTo(Biased(seg.vaddr), seg.filesz, "zero")

\* Its .bss.
ZeroSegment ==
  LET seg == file.segs[k]
      start == Add(Biased(seg.vaddr), seg.filesz)
      n == seg.memsz - seg.filesz
  IN  /\ pc = "zero"
      /\ k' = k + 1
      /\ IF n > 0
         THEN Calls(ZeroOk(start, n),
                    AccessThrows(start, n) \/ AccessFaults(start, n, "w"), "write")
         ELSE pc' = "write" /\ Quiet
      /\ UNCHANGED <<file, options, locals, loads>>

\* The permission of segment k, in file order: a page two segments share gets
\* the later one's.
ProtectSegment ==
  /\ pc = "protect"
  /\ UNCHANGED <<file, options, locals, loads>>
  /\ \/ k > Len(file.segs) /\ pc' = "headers" /\ k' = 1 /\ Quiet
     \/ k \in 1 .. Len(file.segs) \ Loadable /\ pc' = "protect" /\ k' = k + 1 /\ Quiet
     \/ LET seg == file.segs[k]
        IN  /\ k \in Loadable
            /\ Calls(ProtectOk(Biased(seg.vaddr), seg.memsz, seg.prot),
                     ProtectThrows(Biased(seg.vaddr), seg.memsz), "protect")
            /\ k' = k + 1

\* Each PT_DYNAMIC overwrites what the one before it set; a .dynamic at address
\* 0 counts as none.
dynamicHeader == file.dynamic[Len(file.dynamic)]
isDynamic == file.dynamic # <<>> /\ Biased(dynamicHeader.vaddr) # 0

\* The last loop of mapImage, which throws when the interpreter's path is not
\* in the file; applyRelocations has nothing to do without PT_DYNAMIC.
ReadHeaders ==
  /\ pc = "headers"
  /\ \/ ~file.interp /\ Throw
     \/ file.interp /\ isDynamic /\ pc' = "walk" /\ Quiet
     \/ file.interp /\ ~isDynamic /\ pc' = "relro" /\ Quiet
  /\ UNCHANGED <<file, options, k, locals, loads>>

(***************************************************************************)
(* Relocation.                                                             *)
(***************************************************************************)

\* Beyond the entries the file lists, memory reads as tags the walk ignores.
DynEntry(i) ==
  LET entries == dynamicHeader.entries
  IN  IF i <= Len(entries) THEN entries[i] ELSE <<"other", 0>>

\* The walk keeps the last entry of each tag; addresses get the bias.
Recorded(tag, value) ==
  CASE tag = "RELA"     -> [dyn EXCEPT !.rela = Biased(value)]
    [] tag = "JMPREL"   -> [dyn EXCEPT !.jmprel = Biased(value)]
    [] tag = "RELASZ"   -> [dyn EXCEPT !.relasz = value]
    [] tag = "RELAENT"  -> [dyn EXCEPT !.relaent = value]
    [] tag = "PLTRELSZ" -> [dyn EXCEPT !.pltrelsz = value]
    [] OTHER            -> dyn

\* Entry k of .dynamic, up to DT_NULL or the end of mapped memory.
WalkDynamic ==
  LET addr == Add(Biased(dynamicHeader.vaddr), (k - 1) * DynSize)
      entry == DynEntry(k)
      stop == ~isMapped(addr, DynSize)
  IN  /\ pc = "walk"
      /\ \/ stop /\ pc' = "table" /\ Quiet
         \/ ~stop /\ ReadFrom(addr, DynSize, IF entry[1] = "NULL" THEN "table" ELSE "walk")
      /\ k' = k + 1
      /\ dyn' = IF stop THEN dyn ELSE Recorded(entry[1], entry[2])
      /\ UNCHANGED <<file, options, table, relocs, cursor, rsp, loads>>

TableAddr == IF table = 1 THEN dyn.rela ELSE dyn.jmprel
TableSize == IF table = 1 THEN dyn.relasz ELSE dyn.pltrelsz
TableCount ==
  IF TableAddr = 0 \/ dyn.relaent = 0 THEN 0 ELSE TableSize \div dyn.relaent

\* processTable is called for DT_RELA, then for DT_JMPREL.
BeginTable ==
  /\ pc = "table"
  /\ IF table > 2 THEN pc' = "relro" ELSE pc' = "entry"
  /\ k' = 1
  /\ Quiet
  /\ UNCHANGED <<file, options, locals, loads>>

EntryAddr == Add(TableAddr, (k - 1) * dyn.relaent)

\* Mutant of ReadEntry: the end of a table does not lead to the next one.
ReadEntryMut ==
  LET done == k > TableCount \/ ~isMapped(EntryAddr, RelaSize)
  IN  /\ pc = "entry"
      /\ \/ done /\ pc' = "table" /\ Quiet
         \/ ~done /\ ReadFrom(EntryAddr, RelaSize, "apply")
      /\ UNCHANGED <<file, options, k, locals, loads>>

\* Entry k is read; a table that leaves mapped memory is given up.
ReadEntry ==
  LET done == k > TableCount \/ ~isMapped(EntryAddr, RelaSize)
  IN  /\ pc = "entry"
      /\ \/ done /\ pc' = "table" /\ table' = table + 1 /\ Quiet
         \/ ~done /\ ReadFrom(EntryAddr, RelaSize, "apply") /\ UNCHANGED table
      /\ UNCHANGED <<file, options, k, dyn, relocs, cursor, rsp, loads>>

\* The relative relocations read from an address; other types need a symbol.
RelativeAt(guestAddr) ==
  {r \in file.relas : r.type = "RELATIVE" /\ Biased(r.vaddr) = guestAddr}

\* A relative relocation of a mapped word is written; all else is skipped.
ApplyEntry ==
  LET targets == {Biased(r.offset) : r \in RelativeAt(EntryAddr)}
      mapped == {t \in targets : isMapped(t, WordSize)}
  IN  /\ pc = "apply"
      /\ \/ \E t \in mapped : /\ WriteTo(t, WordSize, "entry")
                              /\ relocs' = [relocs EXCEPT !.applied = @ + 1]
         \/ /\ mapped = {}
            /\ relocs' = [relocs EXCEPT !.skipped = @ + 1]
            /\ pc' = "entry" /\ Quiet
      /\ k' = k + 1
      /\ UNCHANGED <<file, options, dyn, table, cursor, rsp, loads>>

\* Mutant of Relro: the last entry is skipped.
RelroMut == {i \in 1 .. Len(file.relro) - 1 : file.relro[i].memsz > 0}

Relro == {i \in 1 .. Len(file.relro) : file.relro[i].memsz > 0}

ProtectRelro ==
  /\ pc = "relro"
  /\ \/ k > Len(file.relro) /\ pc' = "stack" /\ k' = k /\ Quiet
     \/ k \in 1 .. Len(file.relro) \ Relro /\ pc' = "relro" /\ k' = k + 1 /\ Quiet
     \/ LET part == file.relro[k]
        IN  /\ k \in Relro
            /\ Calls(ProtectOk(Biased(part.vaddr), part.memsz, {"r"}),
                     ProtectThrows(Biased(part.vaddr), part.memsz), "relro")
            /\ k' = k + 1
  /\ UNCHANGED <<file, options, locals, loads>>

(***************************************************************************)
(* The stack.                                                              *)
(***************************************************************************)

stackTop == IF isIdentity THEN options.stackTop ELSE Sub(reservedHigh, GuardGap)

\* Mutant of Overlap: the check is dropped.
OverlapMut == FALSE

\* The check of load uses the sizes as given; buildInitialStack rounds them.
Overlap ==
  /\ Sub(stackTop, options.stackSize) < loadHigh
  /\ stackTop > loadLow

top == GuestPageAlignUp(stackTop)
size == GuestPageAlignUp(options.stackSize)
low == Sub(top, size)

MapStack ==
  /\ pc = "stack"
  /\ \/ Overlap /\ Throw
     \/ /\ ~Overlap
        /\ Calls(MapOk(low, size, {"r", "w"}) \/ (size = 0 /\ EmptyCall),
                 MapThrows(low, size), "push")
  /\ k' = 1
  /\ cursor' = top
  /\ UNCHANGED <<file, options, dyn, table, relocs, rsp, loads>>

\* pushString: the program's path, the platform, envp and argv backwards.
PushString ==
  /\ pc = "push"
  /\ IF k > Len(Strings)
     THEN pc' = "random" /\ UNCHANGED <<k, cursor>> /\ Quiet
     ELSE /\ cursor' = Sub(cursor, Strings[k])
          /\ WriteTo(cursor', Strings[k], "push")
          /\ k' = k + 1
  /\ UNCHANGED <<file, options, dyn, table, relocs, rsp, loads>>

PushRandom ==
  /\ pc = "random"
  /\ cursor' = Sub(AlignDown(cursor, StackAlign), RandomBytes)
  /\ WriteTo(cursor', RandomBytes, "rsp")
  /\ UNCHANGED <<file, options, k, dyn, table, relocs, rsp, loads>>

\* Mutant of SetRsp: rsp is not aligned.
SetRspMut ==
  /\ pc = "rsp"
  /\ rsp' = Sub(cursor, Slots * WordSize)
  /\ IF rsp' < low THEN Throw ELSE pc' = "vector" /\ Quiet
  /\ k' = 0
  /\ UNCHANGED <<file, options, dyn, table, relocs, cursor, loads>>

\* The vector must fit; the strings are already written.
SetRsp ==
  /\ pc = "rsp"
  /\ rsp' = AlignDown(Sub(cursor, Slots * WordSize), StackAlign)
  /\ IF rsp' < low THEN Throw ELSE pc' = "vector" /\ Quiet
  /\ k' = 0
  /\ UNCHANGED <<file, options, dyn, table, relocs, cursor, loads>>

\* argc, argv, envp and auxv, one word at a time; then the CPU state.
PushWord ==
  /\ pc = "vector"
  /\ IF k = Slots
     THEN pc' = "running" /\ UNCHANGED k /\ Quiet
     ELSE WriteTo(Add(rsp, k * WordSize), WordSize, "vector") /\ k' = k + 1
  /\ UNCHANGED <<file, options, locals, loads>>

(***************************************************************************)
(* The end of the object, by a throw or by its owner.                      *)
(***************************************************************************)

\* Mutant of Unwind: the object outlives the exception.
UnwindMut ==
  /\ pc = "unwind"
  /\ pc' = "idle"
  /\ Reset
  /\ UNCHANGED <<vars, file, options, loads>>

Unwind ==
  /\ pc = "unwind"
  /\ Destroy
  /\ pc' = "idle"
  /\ Reset
  /\ UNCHANGED <<file, options, loads>>

Release ==
  /\ pc = "running"
  /\ Destroy
  /\ pc' = "idle"
  /\ Reset
  /\ UNCHANGED <<file, options, loads>>

LoadStep ==
  \/ ConstructMemory
  \/ MapImage
  \/ WriteSegment
  \/ ZeroSegment
  \/ ProtectSegment
  \/ ReadHeaders
  \/ WalkDynamic
  \/ BeginTable
  \/ ReadEntry
  \/ ApplyEntry
  \/ ProtectRelro
  \/ MapStack
  \/ PushString
  \/ PushRandom
  \/ SetRsp
  \/ PushWord
  \/ Unwind

LoaderInit ==
  /\ Init
  /\ pc = "idle"
  /\ file \in Files
  /\ options \in Options
  /\ k = 0
  /\ dyn = NoTables
  /\ table = 1
  /\ relocs = [applied |-> 0, skipped |-> 0]
  /\ cursor = 0
  /\ rsp = 0
  /\ loads = 0

LoaderNext ==
  \/ Begin
  \/ LoadStep
  \/ Release
  \/ HostStep /\ UNCHANGED loaderVars

\* load is a sequential function: it goes on as long as it can.
LoaderSpec == LoaderInit /\ [][LoaderNext]_allVars /\ WF_allVars(LoadStep)

(***************************************************************************)
(* Files as a linker makes them.  load checks none of this; what is said of *)
(* a load's end is said of such files.                                     *)
(***************************************************************************)

\* Bytes of the first strings pushed, and all a stack may take.
StringBytes[j \in 0 .. Len(Strings)] ==
  IF j = 0 THEN 0 ELSE StringBytes[j - 1] + Strings[j]
StackBytes == StringBytes[Len(Strings)] + RandomBytes + StackAlign + Slots * WordSize

Tagged(f, tags) ==
  {e[2] : e \in UNION {{e \in ToSet(d.entries) : e[1] \in tags} : d \in ToSet(f.dynamic)}}

\* The segments lie in user space, above room for a stack, on pages of their
\* own, accessible and with no more bytes in the file than in memory; tables
\* lie in user space; .dynamic, relro and relocated words lie in segments.
LinkedAt(f, bias) ==
  LET loadable == {i \in 1 .. Len(f.segs) : f.segs[i].memsz > 0}
      pages(s) == MapStart(s.vaddr + bias) .. MapEnd(s.vaddr + bias, s.memsz) - 1
      bytes(s) == s.vaddr .. s.vaddr + s.memsz - 1
  IN  /\ \A i \in 1 .. Len(f.segs) :
           /\ f.segs[i].vaddr + bias + f.segs[i].memsz <= TaskSize
           /\ StackBytes <= GuestPageAlignDown(f.segs[i].vaddr + bias)
      /\ \A i \in loadable :
           /\ f.segs[i].filesz <= f.segs[i].memsz
           /\ f.segs[i].prot # {}
           /\ \A j \in loadable \ {i} : pages(f.segs[i]) \cap pages(f.segs[j]) = {}
      /\ \A d \in ToSet(f.dynamic) : \E i \in loadable : d.vaddr \in bytes(f.segs[i])
      /\ \A at \in Tagged(f, {"RELA", "JMPREL"}), n \in Tagged(f, {"RELASZ", "PLTRELSZ"}) :
           at + bias + n <= TaskSize
      /\ \A r \in f.relas : r.type = "RELATIVE" =>
           /\ r.offset + bias <= TaskSize
           /\ \A i \in loadable : r.offset \in bytes(f.segs[i]) /\ "w" \in f.segs[i].prot =>
                r.offset + bias .. r.offset + bias + WordSize - 1 \subseteq pages(f.segs[i])
      /\ \A i \in 1 .. Len(f.relro) : f.relro[i].memsz > 0 =>
           \E j \in loadable :
             /\ f.relro[i].vaddr \in bytes(f.segs[j])
             /\ f.relro[i].vaddr + f.relro[i].memsz - 1 \in bytes(f.segs[j])

\* A PIE is moved by whole pages, and a stack asked for lies in user space.
WellLinked ==
  \A f \in Files, o \in Options :
    /\ o.pieBase % GuestPage = 0
    /\ 0 < o.stackSize
    /\ o.stackSize <= o.stackTop
    /\ StackBytes <= o.stackTop
    /\ o.stackTop <= TaskSize
    /\ LinkedAt(f, IF f.fixed THEN 0 ELSE o.pieBase)

(***************************************************************************)
(* Properties.                                                             *)
(***************************************************************************)

Stages ==
  {"idle", "construct", "map", "write", "zero", "protect", "headers", "walk", "table",
   "entry", "apply", "relro", "stack", "push", "random", "rsp", "vector",
   "running", "unwind"}

\* The locals have their types, and a GuestMemory exists exactly from the
\* constructor's return to the end of the load or of the process it made.
LoaderTypeOK ==
  /\ pc \in Stages
  /\ live <=> pc \notin {"idle", "construct"}
  /\ k \in Nat
  /\ {dyn.rela, dyn.jmprel, cursor, rsp} \subseteq Addr
  /\ relocs \in [applied : Nat, skipped : Nat]

\* Some segment's bytes include the address, for a segment with permission w.
InWritable(a) ==
  \E i \in Loadable :
    LET seg == file.segs[i]
    IN  /\ a \in Biased(seg.vaddr) .. Biased(seg.vaddr) + seg.memsz - 1
        /\ "w" \in seg.prot

\* No relocation targets a read-only segment (a text relocation).
Linked ==
  \A r \in file.relas : r.type = "RELATIVE" => InWritable(Biased(r.offset))

\* GuestMemory.cpp:304-306, "perfectly loadable binaries": loading a file
\* without text relocations never kills the process; relocations are written
\* before relro takes the permission away, and no segment's protection takes
\* it from another's page.
LoadableNeverFaults == Linked => result # "fault"

\* The bytes the file gives the address, the last segment that has it deciding.
HasFileByte(a) ==
  LET having == {i \in Loadable :
                   LET s == file.segs[i]
                   IN  /\ a >= Biased(s.vaddr)
                       /\ a < Biased(s.vaddr) + Max({s.filesz, s.memsz})}
      seg == file.segs[Max(having)]
  IN  having # {} /\ a < Biased(seg.vaddr) + seg.filesz

Relocated ==
  UNION {Biased(r.offset) .. Biased(r.offset) + WordSize - 1 :
           r \in {x \in file.relas : x.type = "RELATIVE"}}

\* When the CPU starts, every byte of the image is the file's, a relocated
\* word or zero: neither the stack's map, which rounds out to host pages and
\* replaces what is inside the reservation, nor its strings reached the image.
ImageIntact ==
  pc = "running" =>
    \A a \in loadLow .. loadHigh - 1 :
      /\ HasFileByte(a) => toHost(a) \in data
      /\ toHost(a) \in data => HasFileByte(a) \/ a \in Relocated

\* When the CPU starts, rsp is aligned and from it upwards lie, in the stack
\* and without overlap, the vector, the random bytes and the strings; the rest
\* of the stack is zero.
StackWellFormed ==
  LET strings == StringBytes[Len(Strings)]
      vectorEnd == rsp + Slots * WordSize
      written == rsp .. vectorEnd - 1 \cup cursor .. cursor + RandomBytes - 1
                   \cup top - strings .. top - 1
  IN  pc = "running" =>
        /\ rsp % StackAlign = 0
        /\ low <= rsp
        /\ vectorEnd <= cursor
        /\ cursor + RandomBytes <= top - strings
        /\ {a \in low .. top - 1 : toHost(a) \in data} = written

Covers(vaddr, memsz, a) ==
  MapStart(Biased(vaddr)) <= a /\ a < MapEnd(Biased(vaddr), memsz)

\* The permission the headers give an address of the image.
LinkedProt(a) ==
  LET having == {i \in Loadable : Covers(file.segs[i].vaddr, file.segs[i].memsz, a)}
      readOnly == \E r \in ToSet(file.relro) : r.memsz > 0 /\ Covers(r.vaddr, r.memsz, a)
  IN  IF readOnly THEN {"r"}
      ELSE IF having = {} THEN {"r", "w"} ELSE file.segs[Max(having)].prot

\* When the CPU starts, protAt gives each address of the image what the
\* headers do, of the stack read and write, and of no other address anything,
\* and the host page under it allows the same.
PermissionsAsLinked ==
  pc = "running" =>
    \A a \in Addr :
      LET prot == IF loadLow <= a /\ a < loadHigh THEN LinkedProt(a)
                  ELSE IF low <= a /\ a < top THEN {"r", "w"} ELSE {}
      IN  /\ ProtsAt(a) = {prot}
          /\ prot # {} => hprot[HostPageOf(toHost(a))] = HostProtFor(prot)

\* GuestMemory.h:101-103, "the host-level protection implied by a guest
\* permission set": a page the running guest may write is writable.
GuestWritesReachHost ==
  pc = "running" =>
    \A a \in Addr : \A prot \in ProtsAt(a) :
      "w" \in prot => "w" \in hprot[HostPageOf(toHost(a))]

\* A load that throws gives back its window; of all it claimed, only a stack
\* outside the window can be left behind.
LeaksOnlyStacks ==
  \A p \in HostPages : owner[p] = "leaked" =>
    \E o \in Options :
      LET bytes == GuestPageAlignUp(o.stackSize)
          from == Sub(GuestPageAlignUp(o.stackTop), bytes)
      IN  p \in PageRange(HostBase(from), HostSize(from, bytes))

\* Every load comes to an end, whatever the tables of the file say: the CPU
\* starts, the load throws and unwinds, or the process is killed.
LoadEnds == pc = "construct" ~> pc \in {"idle", "running"} \/ ~Running

\* No relocation, no .dynamic, all bytes in the file, permissions in order.
Static == file.dynamic = <<>> /\ file.interp /\ \A s \in ToSet(file.segs) : s.inFile

\* Loader.cpp:111-112, "Statically linked binaries load completely": once the
\* image's span is mapped, the image of a static file is loaded.
StaticLoads == Static /\ pc = "write" ~> pc = "stack"
=============================================================================
