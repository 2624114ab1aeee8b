---------------------------- MODULE MCAppState ----------------------------
(* AppState on small instances: two indexes, patches that set, remove, remove *)
(* and set again, and set and remove the same index.                          *)
EXTENDS AppState, TLC

CONSTANTS a, b

Put(i) == [op |-> "set", index |-> i]
Remove(i) == [op |-> "remove", index |-> i]

MCEdits == {<<Put(a)>>, <<Put(b), Remove(a)>>, <<Remove(a), Put(a)>>, <<Put(a), Remove(a)>>}
MCOwnEdits == {<<Put(a)>>}
Symmetry == Permutations(Workers)
=============================================================================
