---------------------------- MODULE MCCFGBuilder ----------------------------
(***************************************************************************)
(* CFGBuilder on functions of up to four bytes, at address 0 (as in a      *)
(* relocatable object) and above it.  Instructions take one or two bytes.  *)
(***************************************************************************)
EXTENDS CFGBuilder

Plain(length) == [mnemonic |-> "plain", length |-> length, relative |-> FALSE, rel |-> 0]
Jump(mnemonic, length, rel) ==
  [mnemonic |-> mnemonic, length |-> length, relative |-> TRUE, rel |-> rel]
Other(mnemonic) == [mnemonic |-> mnemonic, length |-> 1, relative |-> FALSE, rel |-> 0]

\* Targets before, on, after and in the middle of instructions, and outside.
EncodingsDef ==
  {Plain(1), Plain(2), [Other("bad") EXCEPT !.length = 2], Other("jmp"), Other("ret"),
   Jump("jcc", 1, -2), Jump("jcc", 2, 1), Jump("jmp", 1, 1), Jump("call", 1, -3),
   Jump("loop", 2, -4)}
RcxzDef == {Plain(1), Jump("jcc", 1, -1), Jump("jrcxz", 1, -2)}
BasesDef == {0, 9}
=============================================================================
