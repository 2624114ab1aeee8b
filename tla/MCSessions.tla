----------------------------- MODULE MCSessions -----------------------------
(* Small instances of Sessions for TLC. *)
EXTENDS Sessions, TLC

Symmetric == Permutations(Senders) \cup Permutations(InlineCalls)
=============================================================================
