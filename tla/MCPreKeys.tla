------------------------------ MODULE MCPreKeys ------------------------------
(* Small instances of PreKeys for TLC. *)
EXTENDS PreKeys, TLC

Symmetric == Permutations(Triggers)
=============================================================================
