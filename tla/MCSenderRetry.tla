---------------------------- MODULE MCSenderRetry ----------------------------
(* Small instances of SenderRetry for TLC. *)
EXTENDS SenderRetry, TLC

CONSTANTS m1, m2, m3, p1, p2

\* Both ask for the same message.
MCRequests == {<<p1, m1>>, <<p2, m1>>}
MCMessageOf(r) == r[2]

Symmetric == Permutations(Handlers) \cup Permutations({m2, m3})
=============================================================================
