---------------------------- MODULE MCFlagState ----------------------------
(***************************************************************************)
(* FlagState for TLC.  The registers are interchangeable, and a record that *)
(* was invalidated is not read again before set() replaces all of it, so    *)
(* such states are told apart by the registers and the processor's flags.  *)
(***************************************************************************)
EXTENDS FlagState, TLC

Symmetry == Permutations(Regs)
View == IF m_valid THEN vars ELSE <<regs, eflags>>
=============================================================================
