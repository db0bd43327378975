---------------------------- MODULE MCLocalStore ----------------------------
(***************************************************************************)
(* LocalStore for TLC: nothing tells one row from another.                   *)
(***************************************************************************)
EXTENDS LocalStore

RowSymmetry == Permutations(Rows)

=============================================================================
