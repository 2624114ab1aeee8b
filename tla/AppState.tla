------------------------------ MODULE AppState ------------------------------
(***************************************************************************)
(* One app state collection: the server's log of patches, the version, the *)
(* LTHash and the mutation MACs in the store, FetchAppState with snapshots  *)
(* and paging, SendAppState with its conflict retry, the recovery snapshot  *)
(* of the phone and the keys that arrive in between.                        *)
(*                                                                         *)
(* fetchAppState runs under appStateSyncLock; sendAppState and             *)
(* handleAppStateRecovery do not.  storeMACs is three statements without a  *)
(* transaction, each an action here.  The value MAC of mutation k of patch  *)
(* v is <<v, k>>, and an LTHash counts for every value MAC how often it was *)
(* added, so two hashes are equal exactly when the code's are (up to        *)
(* collisions).  An index stands for its index MAC; that the code's index   *)
(* MAC is another one under another sync key is left out.                   *)
(***************************************************************************)
EXTENDS Integers, Sequences, FiniteSets

CONSTANTS
    Workers,       \* goroutines that sync, send or recover
    Indexes,       \* the indexes of mutations
    Edits,         \* the patches other devices make: sequences of [op, index]
    OwnEdits,      \* the patches SendAppState is called with
    AllKeys,       \* app state sync keys, newer ones have a higher number
    FirstKeys,     \* the keys the device was paired with
    Nobody, NoValue,
    MaxVersion,    \* bound: patches in the log
    MaxCalls,      \* bound: operations started
    MaxFaults      \* bound: failing statements and crashes

Mutations == [op : {"set", "remove"}, index : Indexes]

ASSUME AppStateAssumption ==
    /\ MaxVersion \in Nat /\ MaxCalls \in Nat /\ MaxFaults \in Nat
    /\ AllKeys \subseteq Nat /\ FirstKeys \subseteq AllKeys
    /\ Edits \subseteq Seq(Mutations) /\ OwnEdits \subseteq Edits
    /\ Nobody \notin Workers

Versions == 0..MaxVersion
Values == (1..MaxVersion) \X {1, 2}
ASSUME ValueAssumption ==
    NoValue \notin Values /\ \A muts \in Edits : Len(muts) \in {1, 2}

VARIABLES
    log,         \* the server: its patches [key, muts, hash], hash being what snapshotMAC signs
    version, hash, macs,   \* store: app_state_version and app_state_mutation_macs
    keys,        \* store: the sync keys
    cache,       \* the last value of an index that dispatchAppState got, which fills the
                 \* caches of the store and makes the events
    lock,        \* who holds appStateSyncLock
    worker,      \* the operation of each goroutine
    pending,     \* missing keys a goroutine has been started to request
    requested,   \* cli.appStateKeyRequests
    calls, faults,
    disturbed    \* history: storeMACs was interrupted or ran on a stale state

stored == <<version, hash, macs>>
keyring == <<keys, pending, requested>>
vars == <<log, stored, keyring, cache, lock, worker, calls, faults, disturbed>>

ZeroHash == [x \in Values |-> 0]
\* The locals of an operation: its arguments, the HashState it carries on, the
\* snapshot and patches it still has to apply, the SETs it has decoded, and
\* for a send the mutations, the key and the hash the patch signs.
Idle == [pc |-> "idle", mode |-> "fetch", full |-> FALSE, only |-> FALSE, snap |-> FALSE,
         retry |-> FALSE, version |-> 0, hash |-> ZeroHash, base |-> 0, list |-> <<>>,
         more |-> FALSE, got |-> {}, edit |-> <<>>, key |-> 0, signed |-> ZeroHash]

\* Places between two calls that block or touch the store.
Places == {"idle", "lock", "version", "fetch", "apply", "putVersion", "deleteMACs", "putMACs",
           "read", "encode", "post", "reset"}

Hashes == [Values -> Int]
Items == [version : Versions, snapshot : BOOLEAN]
Patch == [key : AllKeys, muts : Seq(Mutations), hash : Hashes]
Operations ==
    [pc : Places, mode : {"fetch", "conflict", "recovery"}, full : BOOLEAN, only : BOOLEAN,
     snap : BOOLEAN, retry : BOOLEAN, version : Versions, hash : Hashes, base : Versions,
     list : Seq(Items), more : BOOLEAN, got : SUBSET Values, edit : Seq(Mutations),
     key : AllKeys \cup {0}, signed : Hashes]

\* Whoever fetches holds the lock, and nobody else.
LockHeld(w) ==
    /\ worker[w].mode = "fetch"
    /\ worker[w].pc \in {"version", "fetch", "apply", "putVersion", "deleteMACs", "putMACs"}

TypeOK ==
    /\ log \in Seq(Patch)
    /\ version \in Versions /\ hash \in Hashes
    /\ macs \subseteq [version : Versions, index : Indexes, value : Values]
    /\ keys \subseteq AllKeys /\ pending \subseteq AllKeys /\ requested \subseteq AllKeys
    /\ cache \in [Indexes -> Values \cup {NoValue}]
    /\ lock \in Workers \cup {Nobody}
    /\ worker \in [Workers -> Operations]
    /\ \A w \in Workers : lock = w <=> LockHeld(w)
    /\ calls \in 0..MaxCalls /\ faults \in 0..MaxFaults
    /\ disturbed \in BOOLEAN

Init ==
    /\ log = <<>>
    /\ version = 0 /\ hash = ZeroHash /\ macs = {}
    /\ keys = FirstKeys /\ pending = {} /\ requested = {}
    /\ cache = [i \in Indexes |-> NoValue]
    /\ lock = Nobody /\ worker = [w \in Workers |-> Idle]
    /\ calls = 0 /\ faults = 0 /\ disturbed = FALSE

-----------------------------------------------------------------------------
(* The collection as the log defines it                                    *)

Before(x, y) == x[1] < y[1] \/ (x[1] = y[1] /\ x[2] < y[2])

\* The value of an index after the patches of a log: its last mutation counts.
LatestIn(patches, i) ==
    LET At(x) == patches[x[1]].muts[x[2]]
        touching == {x \in Values : /\ x[1] \in DOMAIN patches /\ x[2] \in DOMAIN patches[x[1]].muts
                                    /\ At(x).index = i} IN
    IF touching = {} THEN NoValue
    ELSE LET last == CHOOSE x \in touching : \A y \in touching : ~Before(x, y) IN
         IF At(last).op = "set" THEN last ELSE NoValue
HashOf(patches) ==
    [x \in Values |-> IF \E i \in Indexes : LatestIn(patches, i) = x THEN 1 ELSE 0]

Latest(i, v) == LatestIn(SubSeq(log, 1, v), i)
Live(v) == {x \in Values : \E i \in Indexes : Latest(i, v) = x}
MutationAt(x) == log[x[1]].muts[x[2]]

\* Every patch signs the hash that its log position has.
ValidLog == \A v \in 1..Len(log) : log[v].hash = HashOf(SubSeq(log, 1, v))

-----------------------------------------------------------------------------
(* Hashes and MACs                                                         *)

\* GetAppStateMutationMAC: the newest row of an index.
GetAppStateMutationMAC(i) ==
    LET rows == {r \in macs : r.index = i} IN
    IF rows = {} THEN NoValue
    ELSE (CHOOSE r \in rows : \A q \in rows : q.version <= r.version).value

\* updateHash: every SET adds its value, and every mutation removes the value
\* its index had before, prev[k].
updateHash(h, v, muts, prev) ==
    [x \in Values |->
        h[x] + (IF x[1] = v /\ x[2] \in DOMAIN muts /\ muts[x[2]].op = "set" THEN 1 ELSE 0)
             - Cardinality({k \in DOMAIN muts : prev[k] = x})]

\* Mutant: the patch itself is not searched for an earlier value.
PreviousInStore(v, muts) == [k \in DOMAIN muts |-> GetAppStateMutationMAC(muts[k].index)]

\* The previous value as validatePatch finds it: first in the patch itself.
PreviousInPatch(v, muts) ==
    [k \in DOMAIN muts |->
        LET earlier == {j \in DOMAIN muts : j < k /\ muts[j].index = muts[k].index} IN
        IF earlier = {} THEN GetAppStateMutationMAC(muts[k].index)
        ELSE LET j == CHOOSE j \in earlier : \A n \in earlier : n <= j IN
             IF muts[j].op = "set" THEN <<v, j>> ELSE NoValue]

\* The state after a snapshot or a patch, computed from the worker's own.
ComputedHash(w) ==
    LET item == Head(worker[w].list) IN
    IF item.snapshot
    THEN [x \in Values |-> worker[w].hash[x] + (IF x \in Live(item.version) THEN 1 ELSE 0)]
    ELSE LET muts == log[item.version].muts IN
         updateHash(worker[w].hash, item.version, muts, PreviousInPatch(item.version, muts))

\* The SET mutations of a snapshot or a patch.
SetsOf(item) ==
    IF item.snapshot THEN Live(item.version)
    ELSE {x \in Values : /\ x[1] = item.version /\ x[2] \in DOMAIN log[item.version].muts
                         /\ MutationAt(x).op = "set"}

\* Mutant: a removed index stays among the added ones of the same patch.
AddedMACsKept(item) ==
    {[version |-> item.version, index |-> MutationAt(x).index, value |-> x] : x \in SetsOf(item)}

\* What decodeMutations leaves for storeMACs: the rows to add (a later REMOVE
\* takes back a SET of the same patch) and the indexes to delete.
AddedMACs(item) ==
    LET RemovedLater(x) == \E k \in DOMAIN log[item.version].muts :
            LET later == log[item.version].muts[k] IN
            k > x[2] /\ later.op = "remove" /\ later.index = MutationAt(x).index IN
    {[version |-> item.version, index |-> MutationAt(x).index, value |-> x] :
        x \in {x \in SetsOf(item) : item.snapshot \/ ~RemovedLater(x)}}
RemovedMACs(item) ==
    IF item.snapshot THEN {}
    ELSE {m.index : m \in {log[item.version].muts[k] : k \in DOMAIN log[item.version].muts}
                          \cap [op : {"remove"}, index : Indexes]}

\* The keys that signed a snapshot with its records, or a patch.
KeysOf(item) ==
    {log[item.version].key} \cup
        (IF item.snapshot THEN {log[x[1]].key : x \in Live(item.version)} ELSE {})

-----------------------------------------------------------------------------
(* Operations start and end                                                *)

Goes(w, fields) == worker' = [worker EXCEPT ![w] = fields]

\* The operation of w is over; the deferred function unlocks.
Returns(w) ==
    /\ worker' = [worker EXCEPT ![w] = Idle]
    /\ lock' = IF lock = w THEN Nobody ELSE lock

Storing == {w \in Workers : worker[w].pc \in {"deleteMACs", "putMACs"}}

Calls(w) == worker[w].pc = "idle" /\ calls < MaxCalls /\ calls' = calls + 1

\* The application, handleAppStateNotification.
FetchAppState(w, full, onlyIfNotSynced) ==
    /\ Calls(w)
    /\ Goes(w, [Idle EXCEPT !.pc = "lock", !.full = full, !.only = onlyIfNotSynced])
    /\ UNCHANGED <<log, stored, keyring, cache, lock, faults, disturbed>>

SendAppState(w, edit) ==
    /\ Calls(w)
    /\ Goes(w, [Idle EXCEPT !.pc = "read", !.mode = "conflict", !.retry = TRUE, !.edit = edit])
    /\ UNCHANGED <<log, stored, keyring, cache, lock, faults, disturbed>>

\* handleAppStateSyncKeyShare: the key is stored; what was synced before is
\* fetched again only if the key had been asked for.
handleAppStateSyncKeyShare(w, key) ==
    /\ Calls(w) /\ key \in AllKeys \ keys
    /\ keys' = keys \cup {key}
    /\ Goes(w, [Idle EXCEPT !.pc = "lock", !.only = key \notin requested])
    /\ UNCHANGED <<log, stored, pending, requested, cache, lock, faults, disturbed>>

-----------------------------------------------------------------------------
(* fetchAppState                                                           *)

\* DeleteAppStateVersion; the MACs go with it.  What is left is clean unless
\* somebody is in the middle of storeMACs.
DeleteAppStateVersion ==
    /\ version' = 0 /\ hash' = ZeroHash /\ macs' = {}
    /\ disturbed' = (Storing # {})

\* Mutant: the lock is not waited for.
LockSyncUnlocked(w) ==
    /\ worker[w].pc = "lock"
    /\ lock' = w
    /\ Goes(w, [worker[w] EXCEPT !.pc = "version", !.mode = "fetch"])
    /\ IF worker[w].full THEN DeleteAppStateVersion ELSE UNCHANGED <<stored, disturbed>>
    /\ UNCHANGED <<log, keyring, cache, calls, faults>>

\* fetchAppState takes the lock, and forgets the version for a full sync.
LockSync(w) ==
    /\ worker[w].pc = "lock" /\ lock = Nobody
    /\ lock' = w
    /\ Goes(w, [worker[w] EXCEPT !.pc = "version", !.mode = "fetch"])
    /\ IF worker[w].full THEN DeleteAppStateVersion ELSE UNCHANGED <<stored, disturbed>>
    /\ UNCHANGED <<log, keyring, cache, calls, faults>>

GetAppStateVersion(w) ==
    /\ worker[w].pc = "version"
    /\ IF version # 0 /\ worker[w].only
       THEN Returns(w)
       ELSE /\ Goes(w, [worker[w] EXCEPT !.pc = "fetch", !.version = version, !.hash = hash,
                                         !.full = @ \/ version = 0,
                                         !.snap = worker[w].full \/ version = 0, !.only = FALSE])
            /\ UNCHANGED lock
    /\ UNCHANGED <<log, stored, keyring, cache, calls, faults, disturbed>>

Patches(from, to) ==
    [n \in 1..(to - from) |-> [version |-> from + n, snapshot |-> FALSE]]
ParsePatchList(snapshot, from, to) ==
    (IF snapshot THEN <<[version |-> from, snapshot |-> TRUE]>> ELSE <<>>) \o Patches(from, to)

\* The server answers with a page of patches, after a snapshot if one was asked
\* for and it has one, or not at all.  A snapshot needs an empty state.
fetchAppStatePatches(w) ==
    /\ worker[w].pc = "fetch"
    /\ \/ Returns(w)
       \/ \E from \in (IF worker[w].snap THEN 0..Len(log) ELSE {worker[w].version}),
             to \in 0..Len(log) :
             LET snapshot == worker[w].snap /\ from > 0 IN
             /\ to >= from /\ (to = from => snapshot \/ from = Len(log))
             /\ IF snapshot /\ worker[w].version # 0
                THEN Returns(w)
                ELSE /\ Goes(w, [worker[w] EXCEPT
                            !.pc = "apply", !.snap = FALSE, !.more = to < Len(log),
                            !.list = ParsePatchList(snapshot, from, to)])
                     /\ UNCHANGED lock
    /\ UNCHANGED <<log, stored, keyring, cache, calls, faults, disturbed>>

-----------------------------------------------------------------------------
(* applyAppStatePatches                                                    *)

\* validateSnapshotMAC: the computed hash is the one that was signed.
HashIsSigned(w) == ComputedHash(w) = log[Head(worker[w].list).version].hash

\* validatePatch asks the store once for each mutation: somebody outside the lock may
\* store between two of its queries, and then the hash is right or wrong by chance.
TornRead(w) ==
    LET item == Head(worker[w].list) IN
    /\ ~item.snapshot /\ Len(log[item.version].muts) > 1
    /\ \E u \in Workers \ {w} : worker[u].pc \in {"reset", "deleteMACs", "putMACs"}

\* A missing key ends the operation and starts requestMissingAppStateKeys for
\* all keys of the list.
MissingKey(w) ==
    LET list == worker[w].list IN
    /\ worker[w].pc = "apply" /\ list # <<>>
    /\ ~(KeysOf(Head(list)) \subseteq keys)
    /\ log[Head(list).version].key \in keys => HashIsSigned(w) \/ TornRead(w)
    /\ pending' = pending \cup (UNION {KeysOf(list[n]) : n \in DOMAIN list} \ keys)
    /\ Returns(w)
    /\ UNCHANGED <<log, stored, keys, requested, cache, calls, faults, disturbed>>

\* Mutant: the signature of the new hash is not checked.
DecodeUnchecked(w) ==
    LET list == worker[w].list IN
    /\ worker[w].pc = "apply" /\ list # <<>>
    /\ KeysOf(Head(list)) \subseteq keys
    /\ Goes(w, [worker[w] EXCEPT !.pc = "putVersion", !.base = worker[w].version,
                                 !.version = Head(list).version, !.hash = ComputedHash(w)])
    /\ UNCHANGED <<log, stored, keyring, cache, lock, calls, faults, disturbed>>

\* decodeSnapshot and validatePatch: the new hash must be the signed one.
Decode(w) ==
    LET list == worker[w].list IN
    /\ worker[w].pc = "apply" /\ list # <<>>
    /\ \/ /\ KeysOf(Head(list)) \subseteq keys /\ (HashIsSigned(w) \/ TornRead(w))
          /\ Goes(w, [worker[w] EXCEPT !.pc = "putVersion", !.base = worker[w].version,
                                       !.version = Head(list).version, !.hash = log[Head(list).version].hash])
          /\ UNCHANGED lock
       \/ /\ log[Head(list).version].key \in keys /\ (~HashIsSigned(w) \/ TornRead(w))
          /\ Returns(w)
    /\ UNCHANGED <<log, stored, keyring, cache, calls, faults, disturbed>>

\* The first statement of storeMACs.  The stored state is not the one the new
\* one continues when somebody else has stored, or when a full sync that met a
\* version stored in the meantime was sent the patches from the first.
Stale(w) ==
    \/ version # worker[w].base
    \/ ~Head(worker[w].list).snapshot /\ worker[w].version # version + 1

PutAppStateVersion(w) ==
    /\ worker[w].pc = "putVersion"
    /\ version' = worker[w].version /\ hash' = worker[w].hash
    /\ disturbed' = (disturbed \/ Storing # {} \/ Stale(w))
    /\ Goes(w, [worker[w] EXCEPT !.pc = IF worker[w].mode = "recovery"
                                          THEN "putMACs" ELSE "deleteMACs"])
    /\ UNCHANGED <<log, macs, keyring, cache, lock, calls, faults>>

DeleteAppStateMutationMACs(w) ==
    /\ worker[w].pc = "deleteMACs"
    /\ macs' = {r \in macs : r.index \notin RemovedMACs(Head(worker[w].list))}
    /\ Goes(w, [worker[w] EXCEPT !.pc = "putMACs"])
    /\ UNCHANGED <<log, version, hash, keyring, cache, lock, calls, faults, disturbed>>

\* The INSERT fails on a row with the same version and index, there or in the
\* same patch, and when the version it refers to has been deleted.
PutAppStateMutationMACs(w) ==
    LET item == Head(worker[w].list)
        added == AddedMACs(item)
        clash == \/ \E r \in added, q \in macs : r.version = q.version /\ r.index = q.index
                 \/ \E r, q \in added : r # q /\ r.index = q.index
                 \/ added # {} /\ version = 0 IN
    /\ worker[w].pc = "putMACs"
    /\ IF clash
       THEN disturbed' = TRUE /\ Returns(w) /\ UNCHANGED macs
       ELSE /\ macs' = macs \cup added
            /\ Goes(w, [worker[w] EXCEPT !.pc = "apply", !.list = Tail(@),
                                         !.got = @ \cup SetsOf(item)])
            /\ UNCHANGED <<lock, disturbed>>
    /\ UNCHANGED <<log, version, hash, keyring, cache, calls, faults>>

\* dispatchAppState for the SETs of an index in order: the last one stays.
dispatchAppState(i, sets) ==
    IF sets = {} THEN cache[i] ELSE CHOOSE x \in sets : \A y \in sets : ~Before(x, y)

\* collectEventsToDispatch after the whole list: dispatchAppState gets the SETs.
\* Then the next page, the retry or the end.
collectEventsToDispatch(w) ==
    /\ worker[w].pc = "apply" /\ worker[w].list = <<>>
    /\ cache' = [i \in Indexes |->
                    dispatchAppState(i, {x \in worker[w].got : MutationAt(x).index = i})]
    /\ \/ /\ worker[w].mode = "fetch" /\ worker[w].more
          /\ Goes(w, [worker[w] EXCEPT !.pc = "fetch", !.got = {}]) /\ UNCHANGED lock
       \/ /\ worker[w].mode = "conflict"
          /\ Goes(w, [Idle EXCEPT !.pc = "read", !.mode = "conflict", !.edit = worker[w].edit])
          /\ UNCHANGED lock
       \/ /\ worker[w].mode # "conflict" /\ (worker[w].mode = "fetch" => ~worker[w].more)
          /\ Returns(w)
    /\ UNCHANGED <<log, stored, keyring, calls, faults, disturbed>>

\* requestMissingAppStateKeys, in its own goroutine.
requestMissingAppStateKeys ==
    /\ pending # {}
    /\ requested' = requested \cup (pending \ keys)
    /\ pending' = {}
    /\ UNCHANGED <<log, stored, keys, cache, lock, worker, calls, faults, disturbed>>

-----------------------------------------------------------------------------
(* sendAppState                                                            *)

\* Version and hash are read without appStateSyncLock.
SendReads(w) ==
    /\ worker[w].pc = "read"
    /\ IF keys = {} THEN Returns(w)
       ELSE /\ \E newest \in keys :
                  /\ \A key \in keys : key <= newest
                  /\ Goes(w, [worker[w] EXCEPT !.pc = "encode", !.version = version, !.hash = hash,
                                               !.key = newest])
            /\ UNCHANGED lock
    /\ UNCHANGED <<log, stored, keyring, cache, calls, faults, disturbed>>

\* EncodePatch signs the hash after its mutations, for which it looks up the
\* previous values in the store: one query each in the code, one step here.
EncodePatch(w) ==
    LET edit == worker[w].edit
        previous == [k \in DOMAIN edit |-> GetAppStateMutationMAC(edit[k].index)] IN
    /\ worker[w].pc = "encode"
    /\ Goes(w, [worker[w] EXCEPT !.pc = "post",
                    !.signed = updateHash(worker[w].hash, worker[w].version + 1, edit, previous)])
    /\ UNCHANGED <<log, stored, keyring, cache, lock, calls, faults, disturbed>>

\* The server takes a patch on top of its newest version only, and cannot read
\* it.  The response may be lost; sendIQ may send the patch a second time.
PostAccepted(w) ==
    /\ worker[w].pc = "post"
    /\ worker[w].version = Len(log) /\ Len(log) < MaxVersion
    /\ log' = Append(log, [key |-> worker[w].key, muts |-> worker[w].edit,
                           hash |-> worker[w].signed])
    /\ \/ Goes(w, [Idle EXCEPT !.pc = "lock"])
       \/ Goes(w, Idle)
       \/ UNCHANGED worker
    /\ UNCHANGED <<stored, keyring, cache, lock, calls, faults, disturbed>>

\* A conflict (409) comes with the patches that are missing; they are applied to
\* the state that was read, without the lock, and the send is tried once more.
PostRefused(w) ==
    /\ worker[w].pc = "post"
    /\ \/ Returns(w)
       \/ /\ worker[w].version < Len(log) /\ worker[w].retry
          /\ \E to \in worker[w].version..Len(log) :
                Goes(w, [worker[w] EXCEPT !.pc = "apply", !.list = Patches(worker[w].version, to),
                                          !.key = 0, !.signed = ZeroHash])
          /\ UNCHANGED lock
    /\ UNCHANGED <<log, stored, keyring, cache, calls, faults, disturbed>>

-----------------------------------------------------------------------------
(* handleAppStateRecovery                                                  *)

\* The phone answers with its snapshot of version v: an older one is ignored, a
\* missing key is not asked for.  Nothing checks what it sends; it is taken to be
\* what the log has at v.
handleAppStateRecovery(w, v) ==
    LET item == [version |-> v, snapshot |-> TRUE] IN
    /\ Calls(w)
    /\ v > version /\ {log[x[1]].key : x \in Live(v)} \subseteq keys
    /\ Goes(w, [Idle EXCEPT !.pc = "reset", !.mode = "recovery", !.full = TRUE, !.version = v,
                            !.hash = log[v].hash, !.list = <<item>>])
    /\ UNCHANGED <<log, stored, keyring, cache, lock, faults, disturbed>>

\* ProcessRecovery stores without validating: reset, version, MACs.
RecoveryResets(w) ==
    /\ worker[w].pc = "reset"
    /\ DeleteAppStateVersion
    /\ Goes(w, [worker[w] EXCEPT !.pc = "putVersion"])
    /\ UNCHANGED <<log, keyring, cache, lock, calls, faults>>

-----------------------------------------------------------------------------
(* The surroundings                                                        *)

\* Another device, whose own state is in order, adds a patch.
OtherDeviceSends(key, muts) ==
    /\ Len(log) < MaxVersion /\ ValidLog
    /\ LET patch == [key |-> key, muts |-> muts, hash |-> ZeroHash] IN
       log' = Append(log, [patch EXCEPT !.hash = HashOf(Append(log, patch))])
    /\ UNCHANGED <<stored, keyring, cache, lock, worker, calls, faults, disturbed>>

\* A statement fails (of storeMACs, or the insertion of the contacts of a full
\* sync), or the process ends: nothing that was stored before is undone.
StoreFails(w) ==
    /\ \/ worker[w].pc \in {"version", "putVersion", "deleteMACs", "putMACs", "reset"}
       \/ worker[w].pc = "apply" /\ worker[w].list = <<>> /\ worker[w].full
    /\ faults < MaxFaults /\ faults' = faults + 1
    /\ disturbed' = (disturbed \/ w \in Storing)
    /\ Returns(w)
    /\ UNCHANGED <<log, stored, keyring, cache, calls>>

Crash ==
    /\ faults < MaxFaults /\ faults' = faults + 1
    /\ disturbed' = (disturbed \/ Storing # {})
    /\ worker' = [w \in Workers |-> Idle] /\ lock' = Nobody
    /\ pending' = {} /\ requested' = {}
    /\ UNCHANGED <<log, stored, keys, cache, calls>>

-----------------------------------------------------------------------------
Fetches(w) ==
    LockSync(w) \/ GetAppStateVersion(w) \/ fetchAppStatePatches(w)

Applies(w) ==
    \/ MissingKey(w) \/ Decode(w)
    \/ PutAppStateVersion(w) \/ DeleteAppStateMutationMACs(w) \/ PutAppStateMutationMACs(w)
    \/ collectEventsToDispatch(w)

Sends(w) == SendReads(w) \/ EncodePatch(w) \/ PostAccepted(w) \/ PostRefused(w)

Starts(w) ==
    \/ \E full, only \in BOOLEAN : FetchAppState(w, full, only)
    \/ \E edit \in OwnEdits : SendAppState(w, edit)
    \/ \E key \in AllKeys : handleAppStateSyncKeyShare(w, key)
    \/ \E v \in 1..Len(log) : handleAppStateRecovery(w, v)

Next ==
    \/ \E w \in Workers :
          Starts(w) \/ Fetches(w) \/ Applies(w) \/ Sends(w) \/ RecoveryResets(w) \/ StoreFails(w)
    \/ requestMissingAppStateKeys
    \/ \E key \in AllKeys, muts \in Edits : OtherDeviceSends(key, muts)
    \/ Crash

Spec == Init /\ [][Next]_vars

-----------------------------------------------------------------------------
(* Properties                                                              *)

\* The stored hash is the one its version's patch signs, whatever interleaving of
\* a sync, a conflict retry and a recovery stored it: version and hash are never
\* those of two different operations.
StoredHashIsSigned == version > 0 => hash = log[version].hash

\* Between two operations the MACs that later patches are validated with are
\* those of the stored version: the newest row of an index is the value the log
\* gives it.  Excluded: storeMACs was interrupted, or ran on a stale state.
Undisturbed == ~disturbed /\ Storing = {} /\ ValidLog
MACsFollowVersion ==
    Undisturbed => \A i \in Indexes : GetAppStateMutationMAC(i) = Latest(i, version)

\* No false alarm: a client that nobody disturbed never reports a mismatching
\* LTHash for the next patch or a snapshot, so it never needs a full sync.
NoFalseMismatch ==
    \A w \in Workers :
        LET list == worker[w].list IN
        /\ worker[w].pc = "apply" /\ list # <<>> /\ worker[w].version = version
        /\ Head(list).snapshot \/ Head(list).version = version + 1
        /\ Undisturbed
        => HashIsSigned(w)

\* "SendAppState sends the given app state patch" (appstate.go): what it adds to
\* the collection can be verified by every device.
SentPatchesAreValid == ValidLog

\* A resync is there "to update local caches and send events for the updates"
\* (appstate.go): when nobody is applying, what the stored version includes has
\* been passed to dispatchAppState.
CacheFollowsVersion ==
    (\A w \in Workers : worker[w].pc = "idle") =>
        \A i \in Indexes : Latest(i, version) # NoValue => cache[i] = Latest(i, version)
=============================================================================
