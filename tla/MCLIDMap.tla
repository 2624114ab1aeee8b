------------------------------ MODULE MCLIDMap ------------------------------
(* Small instances of LIDMap for TLC. *)
EXTENDS LIDMap, TLC

Symmetric == Permutations(Pns) \cup Permutations(Lids) \cup Permutations(Clients)
=============================================================================
