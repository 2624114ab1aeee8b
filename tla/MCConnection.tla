---------------------------- MODULE MCConnection ----------------------------
(* Small instances of Connection for TLC. *)
EXTENDS Connection, TLC

Symmetry == Permutations(Jobs)
=============================================================================
