---------------------------- MODULE MCSharedStore ----------------------------
(***************************************************************************)
(* SharedStore for TLC: the tabs run the same client, nothing tells them     *)
(* apart.                                                                   *)
(***************************************************************************)
EXTENDS SharedStore, TLC

TabSymmetry == Permutations(Tabs)

=============================================================================
