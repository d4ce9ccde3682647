------------------------------ MODULE MCLoader ------------------------------
(***************************************************************************)
(* Loader on a user space of fifteen pages of four bytes.  A word, a       *)
(* .dynamic entry and a relocation entry take two bytes.                   *)
(***************************************************************************)
EXTENDS Loader

Seg(vaddr, filesz, memsz, prot) ==
  [vaddr |-> vaddr, filesz |-> filesz, memsz |-> memsz, prot |-> prot, inFile |-> TRUE]
Rela(vaddr, type, offset) == [vaddr |-> vaddr, type |-> type, offset |-> offset]

text == {"r", "x"}
bss == {"r", "w"}

\* Text, a segment of no bytes in memory, a page of data and bss; the last byte
\* is the first of a page.
StaticFile ==
  [readable |-> TRUE, fixed |-> TRUE, interp |-> TRUE,
   dynamic |-> <<>>, relas |-> {}, relro |-> <<>>,
   segs |-> <<Seg(24, 4, 4, text), Seg(25, 2, 0, {}), Seg(28, 2, 5, bss)>>]

\* The same, with a page-aligned end: the layout a linker gives most files.
OrdinaryFile == [StaticFile EXCEPT !.segs = <<Seg(24, 4, 4, text), Seg(28, 2, 4, bss)>>]

\* A PIE with a relocation table in its text, .dynamic and the relocated
\* words in its data, part of which is relro.  One relocation needs a symbol,
\* one is of a word that runs off the image.  A first PT_DYNAMIC, which names
\* another table, is superseded.
Table == {Rela(0, "RELATIVE", 10), Rela(2, "GLOB_DAT", 8), Rela(14, "RELATIVE", 16)}
PieFile ==
  [readable |-> TRUE, fixed |-> FALSE, interp |-> TRUE,
   segs |-> <<Seg(0, 4, 4, text), Seg(4, 12, 13, bss)>>,
   dynamic |-> <<[vaddr |-> 0, entries |-> <<<<"RELA", 14>>, <<"RELASZ", 2>>>>],
                 [vaddr |-> 4, entries |-> <<<<"RELA", 0>>, <<"RELASZ", 4>>,
                  <<"JMPREL", 14>>, <<"PLTRELSZ", 4>>, <<"NULL", 0>>>>]>>,
   relas |-> Table,
   relro |-> <<[vaddr |-> 13, memsz |-> 0], [vaddr |-> 4, memsz |-> 8]>>]

\* Its relocated word lies in the text; relocation entries of size 0.
TextRelFile == [PieFile EXCEPT !.relas = {Rela(0, "RELATIVE", 0)}]
NoEntSizeFile ==
  [PieFile EXCEPT !.dynamic[2].entries = <<<<"RELA", 0>>, <<"RELASZ", 4>>, <<"RELAENT", 0>>>>]

UnreadableFile == [StaticFile EXCEPT !.readable = FALSE]
EmptyFile == [StaticFile EXCEPT !.segs = <<>>]
ShortFile == [StaticFile EXCEPT !.segs[3].inFile = FALSE]
BadInterpFile == [StaticFile EXCEPT !.interp = FALSE]

FilesDef ==
  {StaticFile, OrdinaryFile, PieFile, TextRelFile, NoEntSizeFile, UnreadableFile,
   EmptyFile, ShortFile, BadInterpFile}

Opt(end, bytes) ==
  [pieBase |-> 24, stackTop |-> end, stackSize |-> bytes, fallbackWindowSize |-> 24]

\* The stack ends where the image begins and holds everything, or is too
\* small for the vector; it would overlap the image; it lies above it.
OptionsDef == {Opt(23, 15), Opt(24, 8), Opt(40, 16), Opt(56, 8)}

StringsDef == <<2, 1>>
HostOwnedDef == {0}
HostChurnDef == {16, 32}

\* For host pages of eight bytes, the PIE and a stack below it.
WideFilesDef == {PieFile}
WideOptionsDef == {Opt(24, 16)}
WideChurnDef == {48}

\* The files with tables; one ends .dynamic without DT_NULL, one faults.  The
\* rest of the process takes one page.
EndsFilesDef == {PieFile, TextRelFile, NoEntSizeFile}
EndsChurnDef == {16}
EndsOptionsDef == {Opt(23, 15), Opt(24, 8)}

\* Files whose image is static; the first stack alone.
StaticFilesDef == {StaticFile, OrdinaryFile, ShortFile}
StaticOptionsDef == {Opt(23, 15)}

\* The theorems about a load's end assume it: every file and stack here is an
\* instance of them.
ASSUME FilesAreLinked == WellLinked
=============================================================================
