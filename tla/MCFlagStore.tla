---------------------------- MODULE MCFlagStore -----------------------------
(***************************************************************************)
(* FlagStore with two flags that are on or off, and editor pages next to   *)
(* any number of dashboards.                                               *)
(***************************************************************************)
EXTENDS FlagStore, TLC

FlagSymmetry == Permutations(Flags) \cup Permutations(Variants) \cup Permutations(Editors)
=============================================================================
