------------------------------ MODULE LIDStore ------------------------------
(***************************************************************************)
(* What store.LIDStore promises its callers: a table that pairs LIDs and   *)
(* phone numbers one to one, calls that store all of their pairs or none,  *)
(* and lookups that tell what the table holds at some moment of the call.  *)
(* The promise has two gaps, which are part of the state: forgotten        *)
(* sources, which a lookup may not find, and sources in doubt after a      *)
(* store that failed.  Module LIDMap is shown to implement it.             *)
(***************************************************************************)
CONSTANTS Pns, Lids, Nobody

VARIABLES
    table,       \* the phone number of a LID, or Nobody
    told,        \* the answers of lookups that the last step has given
    forgotten,   \* sources that a lookup may not find
    doubt        \* sources whose answers may be wrong

vars == <<table, told, forgotten, doubt>>

Sources == Pns \cup Lids
Pairs == Lids \X Pns

\* The partner of a source in a table, Nobody if it has none.
Partner(t, s) ==
    IF s \in Lids THEN t[s]
    ELSE IF \E l \in Lids : t[l] = s THEN CHOOSE l \in Lids : t[l] = s ELSE Nobody

OneToOne(t) == \A k, l \in Lids : t[k] = t[l] /\ t[k] # Nobody => k = l

Of(pairs) == {m[1] : m \in pairs} \cup {m[2] : m \in pairs}
Touched(pairs) == Of(pairs) \cup {Partner(table, s) : s \in Of(pairs)}

Init ==
    /\ table = [l \in Lids |-> Nobody]
    /\ told = {}
    /\ forgotten = {} /\ doubt = {}

\* An answer is right when it is given.
Right(s, v) ==
    \/ v = Partner(table, s)
    \/ v = Nobody /\ s \in forgotten
    \/ s \in doubt

\* A lookup learns something; what it finds may push out something else.
Answer ==
    /\ \A a \in told' : Right(a[1], a[2])
    /\ forgotten' \subseteq Sources
    /\ UNCHANGED <<table, doubt>>

\* The pairs of one call are stored together: every new row is one of them, what
\* they do not mention stays, and the one stored last is there.
Store(pairs) ==
    /\ table' \in [Lids -> Pns \cup {Nobody}]
    /\ OneToOne(table')
    /\ \A l \in Lids : table'[l] \in {table[l], Nobody} \/ <<l, table'[l]>> \in pairs
    /\ \A l \in Lids : l \notin Of(pairs) /\ table[l] \notin Of(pairs) => table'[l] = table[l]
    /\ \E m \in pairs : table'[m[1]] = m[2]
    /\ doubt' \subseteq doubt
    /\ forgotten' \subseteq Sources
    /\ told' = {}

\* A call that fails stores nothing; it leaves the sources it touches in doubt.
Fail(pairs) ==
    /\ doubt' \subseteq doubt \cup Touched(pairs)
    /\ forgotten' \subseteq Sources
    /\ told' = {}
    /\ UNCHANGED table

\* The cache is filled from the table, or the process starts again.
Refill ==
    /\ forgotten' = {} /\ doubt' = {}
    /\ told' = {}
    /\ UNCHANGED table

Next ==
    \/ Answer
    \/ \E pairs \in SUBSET Pairs : Store(pairs) \/ Fail(pairs)
    \/ Refill

Spec == Init /\ [][Next]_vars
=============================================================================
