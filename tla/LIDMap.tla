------------------------------- MODULE LIDMap -------------------------------
(***************************************************************************)
(* CachedLIDMap (store/sqlstore/lidmap.go): the table that pairs LIDs and  *)
(* phone numbers, and the two bounded maps that cache it in both           *)
(* directions under lidCacheLock.                                          *)
(*                                                                         *)
(* A lookup reads the maps under the read lock, gives it up, and queries   *)
(* the table under the write lock.  Whoever holds the write lock goes      *)
(* through its rows one step at a time.  A cached "" and a row that does   *)
(* not exist are both Nobody; Absent means not in the map.                 *)
(***************************************************************************)
EXTENDS Naturals, FiniteSets

CONSTANTS
    Pns, Lids,   \* users, as phone numbers and as LIDs
    Clients,     \* goroutines
    Nobody,
    Absent,
    Nil,         \* lidCacheLock is free; no entry to evict
    Max          \* bound: maxLIDCacheEntries

Sources == Pns \cup Lids
Pairs == Lids \X Pns

ASSUME LIDMapAssumption ==
    /\ Pns \cap Lids = {}
    /\ IsFiniteSet(Pns) /\ IsFiniteSet(Lids)
    /\ Nobody \notin Sources /\ Absent \notin Sources \cup {Nobody}
    /\ Nil \notin Clients \cup Sources \cup {Nobody, Absent}
    /\ Max \in Nat \ {0}

VARIABLES
    db,          \* whatsmeow_lid_map as committed
    tx,          \* the table as the transaction of the holder sees it
    pnToLID,     \* pnToLIDCache
    lidToPN,     \* lidToPNCache
    filled,      \* cacheFilled
    holder,      \* who holds the write lock
    pc,          \* what a client does
    missing,     \* the sources a lookup has not found in the maps
    todo,        \* the rows the holder has still to scan or to store
    mine,        \* the pairs the holder's transaction has stored
    victims,     \* what it evicted although the cache counts as filled
    told,        \* the answers a lookup has got in the last step
    forgotten,   \* history: sources evicted while the cache counts as filled
    doubt        \* history: sources a failed transaction has touched

maps == <<pnToLID, lidToPN>>
txn == <<tx, mine, victims>>
gaps == <<forgotten, doubt>>
vars == <<db, txn, maps, filled, holder, pc, missing, todo, told, gaps>>

Rows == {r \in Pairs : db[r[1]] = r[2]}

\* The promise of the store, with the committed rows as its table.
Abstract == INSTANCE LIDStore WITH table <- db

Partner(t, s) == Abstract!Partner(t, s)
Of(pairs) == Abstract!Of(pairs)
Cached(s) == IF s \in Pns THEN pnToLID[s] ELSE lidToPN[s]
Scanning == {"one", "manyLIDs", "manyPNs"}

Present(map) == {k \in DOMAIN map : map[k] # Absent}

\* Types, and neither map outgrows maxLIDCacheEntries.
TypeOK ==
    /\ db \in [Lids -> Pns \cup {Nobody}] /\ tx \in [Lids -> Pns \cup {Nobody}]
    /\ pnToLID \in [Pns -> Lids \cup {Nobody, Absent}]
    /\ lidToPN \in [Lids -> Pns \cup {Nobody, Absent}]
    /\ Cardinality(Present(pnToLID)) <= Max /\ Cardinality(Present(lidToPN)) <= Max
    /\ filled \in BOOLEAN
    /\ holder \in Clients \cup {Nil}
    /\ pc \in [Clients -> Scanning \cup {"idle", "fill", "put"}]
    /\ missing \in [Clients -> SUBSET Sources]
    /\ todo \subseteq Pairs /\ mine \subseteq Pairs
    /\ victims \subseteq Sources
    /\ told \subseteq Sources \X (Sources \cup {Nobody})
    /\ forgotten \subseteq Sources /\ doubt \subseteq Sources

Init ==
    /\ db = [l \in Lids |-> Nobody] /\ tx = [l \in Lids |-> Nobody]
    /\ pnToLID = [p \in Pns |-> Absent] /\ lidToPN = [l \in Lids |-> Absent]
    /\ filled = FALSE
    /\ holder = Nil /\ pc = [c \in Clients |-> "idle"]
    /\ missing = [c \in Clients |-> {}]
    /\ todo = {} /\ mine = {} /\ victims = {}
    /\ told = {}
    /\ forgotten = {} /\ doubt = {}

-----------------------------------------------------------------------------
(* The two maps                                                            *)

Without(map, k) == [map EXCEPT ![k] = Absent]
\* Mutant: room is made one entry too late.
VictimsLate(map, k) ==
    IF map[k] = Absent /\ Cardinality(Present(map)) > Max THEN Present(map) ELSE {Nil}

\* evictLIDCacheEntry takes any entry, and the reverse one if it points back.
Victims(map, k) ==
    IF map[k] = Absent /\ Cardinality(Present(map)) >= Max THEN Present(map) ELSE {Nil}

Evicted(map, v) == IF v = Nil THEN map ELSE Without(map, v)

\* Mutant: the reverse entry stays.
EvictedAlone(map, reverse, v) == reverse

EvictedReverse(map, reverse, v) ==
    IF v # Nil /\ map[v] # Nobody /\ reverse[map[v]] = v THEN Without(reverse, map[v]) ELSE reverse

\* The sources that leave the maps with v and w although a filled cache is taken
\* to have every row.
Pushed(v, w) == IF filled THEN {s \in Sources : s \in {v, w} \/ Cached(s) \in {v, w}} ELSE {}

\* v has to make room for the miss.
cacheMissLocked(s, v) ==
    \/ /\ s \in Pns /\ v \in Victims(pnToLID, s)
       /\ pnToLID' = [Evicted(pnToLID, v) EXCEPT ![s] = IF @ = Absent THEN Nobody ELSE @]
       /\ lidToPN' = EvictedReverse(pnToLID, lidToPN, v)
    \/ /\ s \in Lids /\ v \in Victims(lidToPN, s)
       /\ lidToPN' = [Evicted(lidToPN, v) EXCEPT ![s] = IF @ = Absent THEN Nobody ELSE @]
       /\ pnToLID' = EvictedReverse(lidToPN, pnToLID, v)

\* The maps without the pair that l or p was in before.
FreshLIDs(l, p) ==
    IF pnToLID[p] \in Lids \ {l} /\ lidToPN[pnToLID[p]] = p THEN Without(lidToPN, pnToLID[p]) ELSE lidToPN

FreshPNs(l, p) ==
    IF lidToPN[l] \in Pns \ {p} /\ pnToLID[lidToPN[l]] = l THEN Without(pnToLID, lidToPN[l]) ELSE pnToLID

\* Both maps get the pair; v and w had to make room for it.
cacheMappingLocked(l, p, v, w) ==
    LET pns == FreshPNs(l, p)
        lids == EvictedReverse(pns, FreshLIDs(l, p), v) IN
    /\ v \in Victims(pns, p)
    /\ w \in Victims(lids, l)
    /\ pnToLID' = [EvictedReverse(lids, Evicted(pns, v), w) EXCEPT ![p] = l]
    /\ lidToPN' = [Evicted(lids, w) EXCEPT ![l] = p]

-----------------------------------------------------------------------------
(* Lookups                                                                 *)

\* The write lock is given back and the call's variables go.
Return(c) ==
    /\ holder' = Nil
    /\ pc' = [pc EXCEPT ![c] = "idle"]
    /\ missing' = [missing EXCEPT ![c] = {}]
    /\ todo' = {} /\ tx' = [l \in Lids |-> Nobody] /\ mine' = {} /\ victims' = {}

\* Whether the maps answer for a source.  GetManyLIDsForPNs asks the table again
\* about a cached miss.
Answered(kind, s) ==
    \/ filled
    \/ Cached(s) \in Sources
    \/ Cached(s) = Nobody /\ kind # "manyLIDs"

FromCache(s) == <<s, IF Cached(s) = Absent THEN Nobody ELSE Cached(s)>>

\* The part under the read lock: GetLIDForPN and GetPNForLID ask for one source,
\* the batches for some of one kind.
Lookup(c, kind, asked) ==
    /\ pc[c] = "idle" /\ holder = Nil
    /\ \/ kind = "one" /\ Cardinality(asked) = 1
       \/ kind = "manyLIDs" /\ asked \subseteq Pns
       \/ kind = "manyPNs" /\ asked \subseteq Lids
    /\ LET open == {s \in asked : ~Answered(kind, s)} IN
       /\ told' = {FromCache(s) : s \in asked \ open}
       /\ missing' = [missing EXCEPT ![c] = open]
       /\ pc' = [pc EXCEPT ![c] = IF open = {} THEN "idle" ELSE kind]
    /\ UNCHANGED <<db, txn, maps, filled, holder, todo, gaps>>

\* The write lock and the query.  GetManyPNsForLIDs looks at the maps once more.
Query(c) ==
    /\ pc[c] \in Scanning /\ holder = Nil
    /\ LET known == {s \in missing[c] : pc[c] = "manyPNs" /\ Answered("manyPNs", s)}
           open == missing[c] \ known IN
       /\ told' = {FromCache(s) : s \in known}
       /\ missing' = [missing EXCEPT ![c] = open]
       /\ todo' = {r \in Rows : r[1] \in open \/ r[2] \in open}
    /\ holder' = c
    /\ UNCHANGED <<db, txn, maps, filled, pc, gaps>>

\* A row of the result: it is cached and answers the sources that asked for it.
ScanRow(c) ==
    /\ holder = c /\ pc[c] \in Scanning
    /\ \E r \in todo :
          /\ \E v \in Pns \cup {Nil}, w \in Lids \cup {Nil} :
                /\ cacheMappingLocked(r[1], r[2], v, w)
                /\ forgotten' = (forgotten \ {r[1], r[2]}) \cup Pushed(v, w)
          /\ told' = ({<<r[1], r[2]>>, <<r[2], r[1]>>}) \cap (missing[c] \X Sources)
          /\ missing' = [missing EXCEPT ![c] = @ \ {r[1], r[2]}]
          /\ todo' = todo \ {r}
    /\ UNCHANGED <<db, txn, filled, holder, pc, doubt>>

\* Sources without a row are cached as misses, except by GetManyLIDsForPNs.
CacheMiss(c) ==
    /\ holder = c /\ pc[c] \in {"one", "manyPNs"} /\ todo = {}
    /\ \E s \in missing[c] :
          /\ \E v \in Sources \cup {Nil} :
                /\ cacheMissLocked(s, v)
                /\ forgotten' = forgotten \cup Pushed(v, Nil)
          /\ told' = {<<s, Nobody>>}
          /\ missing' = [missing EXCEPT ![c] = @ \ {s}]
    /\ UNCHANGED <<db, txn, filled, holder, pc, todo, doubt>>

LookupReturns(c) ==
    /\ holder = c /\ pc[c] \in Scanning /\ todo = {}
    /\ missing[c] = {} \/ pc[c] = "manyLIDs"
    /\ told' = missing[c] \X {Nobody}
    /\ Return(c)
    /\ UNCHANGED <<db, maps, filled, gaps>>

\* The query or the iteration over its rows fails.
LookupFails(c) ==
    /\ holder = c /\ pc[c] \in Scanning
    /\ Return(c)
    /\ UNCHANGED <<db, maps, filled, gaps>>
    /\ told' = {}

-----------------------------------------------------------------------------
(* FillCache                                                               *)

FillCache(c) ==
    /\ pc[c] = "idle" /\ holder = Nil
    /\ holder' = c /\ pc' = [pc EXCEPT ![c] = "fill"]
    /\ pnToLID' = [p \in Pns |-> Absent] /\ lidToPN' = [l \in Lids |-> Absent]
    /\ todo' = Rows
    /\ forgotten' = {} /\ doubt' = {}
    /\ UNCHANGED <<db, txn, filled, missing>>
    /\ told' = {}

FillRow(c) ==
    /\ holder = c /\ pc[c] = "fill"
    /\ \E r \in todo :
          /\ \E v \in Pns \cup {Nil}, w \in Lids \cup {Nil} : cacheMappingLocked(r[1], r[2], v, w)
          /\ todo' = todo \ {r}
    /\ UNCHANGED <<db, txn, filled, holder, pc, missing, gaps>>
    /\ told' = {}

\* Mutant: the cache counts as filled although rows had to be evicted.
FillReturnsAnyway(c) ==
    /\ holder = c /\ pc[c] = "fill"
    /\ filled' = (todo = {})
    /\ Return(c)
    /\ UNCHANGED <<db, maps, gaps>>
    /\ told' = {}

FillReturns(c) ==
    /\ holder = c /\ pc[c] = "fill"
    /\ \/ todo = {} /\ filled' = (Cardinality(Rows) <= Max)
       \/ filled' = FALSE   \* err # nil
    /\ Return(c)
    /\ UNCHANGED <<db, maps, gaps>>
    /\ told' = {}

-----------------------------------------------------------------------------
(* PutLIDMapping and PutManyLIDMappings                                    *)

\* Pairs the map has already are not stored; the others are, in one transaction
\* and in no particular order.
PutBegin(c, mappings) ==
    /\ pc[c] = "idle" /\ holder = Nil
    /\ LET new == {m \in mappings : pnToLID[m[2]] # m[1]} IN
       /\ new # {}
       /\ todo' = new
    /\ holder' = c /\ pc' = [pc EXCEPT ![c] = "put"]
    /\ tx' = db
    /\ UNCHANGED <<db, mine, victims, maps, filled, missing, gaps>>
    /\ told' = {}

\* Mutant: the phone number keeps its previous LID as well.
StoredTwice(t, l, p) == [t EXCEPT ![l] = p]

\* deleteExistingLIDMappingQuery, then putLIDMappingQuery.
Stored(t, l, p) ==
    [k \in Lids |-> IF k = l THEN p ELSE IF t[k] = p THEN Nobody ELSE t[k]]

unlockedPutLIDMapping(c) ==
    /\ holder = c /\ pc[c] = "put"
    /\ \E m \in todo :
          /\ tx' = Stored(tx, m[1], m[2])
          /\ \E v \in Pns \cup {Nil}, w \in Lids \cup {Nil} :
                /\ cacheMappingLocked(m[1], m[2], v, w)
                /\ victims' = (victims \ {m[1], m[2]}) \cup Pushed(v, w)
          /\ mine' = mine \cup {m}
          /\ todo' = todo \ {m}
    /\ UNCHANGED <<db, filled, holder, pc, missing, gaps>>
    /\ told' = {}

Commit(c) ==
    /\ holder = c /\ pc[c] = "put" /\ todo = {}
    /\ db' = tx
    /\ forgotten' = (forgotten \ Of(mine)) \cup victims
    /\ doubt' = doubt \ Of(mine)
    /\ Return(c)
    /\ UNCHANGED <<maps, filled>>
    /\ told' = {}

\* A statement or the commit fails: the table is as before, the maps are not.
Rollback(c) ==
    /\ holder = c /\ pc[c] = "put"
    /\ forgotten' = forgotten \cup victims
    /\ doubt' = doubt \cup (Abstract!Touched(mine) \ {Nobody})
    /\ Return(c)
    /\ UNCHANGED <<db, maps, filled>>
    /\ told' = {}

\* The process starts again with empty maps.
Restart ==
    /\ pnToLID' = [p \in Pns |-> Absent] /\ lidToPN' = [l \in Lids |-> Absent]
    /\ filled' = FALSE
    /\ holder' = Nil /\ pc' = [c \in Clients |-> "idle"]
    /\ missing' = [c \in Clients |-> {}] /\ todo' = {}
    /\ told' = {}
    /\ forgotten' = {} /\ doubt' = {}
    /\ tx' = [l \in Lids |-> Nobody] /\ mine' = {} /\ victims' = {}
    /\ UNCHANGED db

-----------------------------------------------------------------------------
Next ==
    \/ \E c \in Clients, kind \in Scanning, asked \in SUBSET Sources \ {{}} : Lookup(c, kind, asked)
    \/ \E c \in Clients :
          \/ Query(c) \/ ScanRow(c) \/ CacheMiss(c) \/ LookupReturns(c) \/ LookupFails(c)
          \/ FillCache(c) \/ FillRow(c) \/ FillReturns(c)
          \/ unlockedPutLIDMapping(c) \/ Commit(c) \/ Rollback(c)
    \/ \E c \in Clients, mappings \in SUBSET Pairs : PutBegin(c, mappings)
    \/ Restart

Spec == Init /\ [][Next]_vars

-----------------------------------------------------------------------------
(* Properties                                                              *)

\* The two maps are the inverse of each other, whatever is evicted, replaced or
\* rolled back: a phone number and a LID are cached as a pair or not at all.
MapsAgree == \A l \in Lids, p \in Pns : pnToLID[p] = l <=> lidToPN[l] = p

\* What the maps say is what the table holds (for the holder of a transaction,
\* as it sees it), and a source a filled cache does not have has no row: unless
\* the source was evicted from a filled cache or touched by a failed transaction.
Putting == \E c \in Clients : holder = c /\ pc[c] = "put"
Filling == \E c \in Clients : holder = c /\ pc[c] = "fill"
View == IF Putting THEN tx ELSE db
Unsure == IF Putting THEN doubt \ Of(mine) ELSE doubt
Lost == IF Putting THEN (forgotten \ Of(mine)) \cup victims ELSE forgotten

CacheExact ==
    \A s \in Sources \ Unsure :
        /\ Cached(s) # Absent => Cached(s) = Partner(View, s)
        /\ filled /\ ~Filling /\ Cached(s) = Absent /\ s \notin Lost => Partner(View, s) = Nobody

\* The cache implements the abstract store: answers are true when they are given,
\* and the pairs of a call are stored together.
ImplementsStore == Abstract!Spec

\* Every answer is the table's, unless a failed transaction touched its source.
TableIsAuthoritative ==
    [][\A a \in told' : a[1] \in doubt \/ a[2] = Partner(db, a[1])]_vars
=============================================================================
