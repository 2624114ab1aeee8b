--------------------------- MODULE AppStateProofs ---------------------------
(***************************************************************************)
(* The stored LTHash is always the one that the patch of the stored version *)
(* signs, for any number of goroutines that sync, send and recover, with    *)
(* and without appStateSyncLock, and any failures in between.               *)
(*                                                                         *)
(* What an operation is about to store must already be signed               *)
(* (AboutToStore), and it may only name versions that exist (InLog), since   *)
(* the log only grows.                                                      *)
(*                                                                         *)
(* The second half is about the mutation MACs: as long as storeMACs was     *)
(* neither interrupted nor run on a stale state, their newest rows are the   *)
(* values that the log gives the indexes, and with them the hash of the next *)
(* patch comes out as signed.  Its invariant is JInv.  MACInv says what the  *)
(* rows are before, in the middle of and after storeMACs; CarryInv, that a   *)
(* snapshot is only ever applied to an empty state and that an operation's   *)
(* hash goes with its version; LockInv and EditInv, that the lock is held    *)
(* as TypeOK says and that every patch has one or two mutations.             *)
(***************************************************************************)
EXTENDS AppState, TLAPS, FiniteSetTheorems, NaturalsInduction, WellFoundedInduction

\* The part of the type invariant that the argument needs.
Typed ==
    /\ log \in Seq(Patch) /\ Len(log) <= MaxVersion
    /\ version \in 0..Len(log) /\ hash \in Hashes
    /\ keys \subseteq AllKeys
    /\ worker \in [Workers -> Operations]

\* An operation names versions of the log only; while it stores the item is
\* still at the head of its list, and while it sends it has a key.
InLog ==
    \A w \in Workers :
        /\ worker[w].version <= Len(log)
        /\ \A n \in DOMAIN worker[w].list : worker[w].list[n].version \in 1..Len(log)
        /\ worker[w].pc \in {"reset", "putVersion", "deleteMACs", "putMACs"} => worker[w].list # <<>>
        /\ worker[w].pc \in {"encode", "post"} => worker[w].key \in AllKeys

\* What PutAppStateVersion is about to write is signed.
AboutToStore ==
    \A w \in Workers : worker[w].pc \in {"putVersion", "reset"} =>
        /\ worker[w].version > 0
        /\ worker[w].hash = log[worker[w].version].hash

IInv == Typed /\ InLog /\ AboutToStore /\ StoredHashIsSigned

\* The same for one operation.
Good(o) ==
    /\ o \in Operations
    /\ o.version <= Len(log)
    /\ \A n \in DOMAIN o.list : o.list[n].version \in 1..Len(log)
    /\ o.pc \in {"reset", "putVersion", "deleteMACs", "putMACs"} => o.list # <<>>
    /\ o.pc \in {"encode", "post"} => o.key \in AllKeys
    /\ o.pc \in {"putVersion", "reset"} => o.version > 0 /\ o.hash = log[o.version].hash

-----------------------------------------------------------------------------
(* Lemmas                                                                  *)

\* An operation that has not started is well formed.
LEMMA IdleIsGood == ASSUME log \in Seq(Patch) PROVE Good(Idle)
<1>1. ZeroHash \in Hashes
    BY DEF ZeroHash, Hashes
<1>2. <<>> \in Seq(Items) /\ <<>> \in Seq(Mutations)
    OBVIOUS
<1>3. 0 \in Versions
    BY AppStateAssumption DEF Versions
<1>4. Idle \in Operations
    BY <1>1, <1>2, <1>3 DEF Idle, Operations, Places
<1>5. Len(log) \in Nat
    OBVIOUS
<1>6. QED
    BY <1>4, <1>5 DEF Good, Idle

\* One goroutine moves to a good state while the log and the store stay.
LEMMA MoveOnly ==
    ASSUME IInv, NEW w \in Workers, NEW o, Good(o),
           worker' = [worker EXCEPT ![w] = o], UNCHANGED <<log, version, hash>>,
           keys' \subseteq AllKeys
    PROVE  IInv'
<1>1. o \in Operations
    BY DEF Good
<1>2. worker' \in [Workers -> Operations]
    BY <1>1 DEF IInv, Typed
<1>3. \A v \in Workers : worker'[v] = IF v = w THEN o ELSE worker[v]
    BY DEF IInv, Typed
<1>4. InLog'
    BY <1>3 DEF IInv, InLog, Good
<1>5. AboutToStore'
    BY <1>3 DEF IInv, AboutToStore, Good
<1>6. QED
    BY <1>2, <1>4, <1>5 DEF IInv, Typed, StoredHashIsSigned

\* The same while the version is forgotten.
LEMMA ForgetVersion ==
    ASSUME IInv, NEW w \in Workers, NEW o, Good(o),
           worker' = [worker EXCEPT ![w] = o], UNCHANGED <<log, keys>>, DeleteAppStateVersion
    PROVE  IInv'
<1>1. o \in Operations
    BY DEF Good
<1>2. worker' \in [Workers -> Operations]
    BY <1>1 DEF IInv, Typed
<1>3. \A v \in Workers : worker'[v] = IF v = w THEN o ELSE worker[v]
    BY DEF IInv, Typed
<1>4. InLog'
    BY <1>3 DEF IInv, InLog, Good
<1>5. AboutToStore'
    BY <1>3 DEF IInv, AboutToStore, Good
<1>6. ZeroHash \in Hashes /\ version' \in 0..Len(log)
    BY DEF ZeroHash, Hashes, DeleteAppStateVersion, IInv, Typed
<1>7. QED
    BY <1>2, <1>4, <1>5, <1>6 DEF IInv, Typed, StoredHashIsSigned, DeleteAppStateVersion

\* The same while a signed hash is stored.
LEMMA StoreSigned ==
    ASSUME IInv, NEW w \in Workers, NEW o, Good(o),
           worker' = [worker EXCEPT ![w] = o], UNCHANGED <<log, keys>>,
           version' \in 1..Len(log), hash' \in Hashes, hash' = log[version'].hash
    PROVE  IInv'
<1>1. o \in Operations
    BY DEF Good
<1>2. worker' \in [Workers -> Operations]
    BY <1>1 DEF IInv, Typed
<1>3. \A v \in Workers : worker'[v] = IF v = w THEN o ELSE worker[v]
    BY DEF IInv, Typed
<1>4. InLog'
    BY <1>3 DEF IInv, InLog, Good
<1>5. AboutToStore'
    BY <1>3 DEF IInv, AboutToStore, Good
<1>6. QED
    BY <1>2, <1>4, <1>5 DEF IInv, Typed, StoredHashIsSigned

\* A goroutine that returns is idle.
LEMMA ReturnOnly ==
    ASSUME IInv, NEW w \in Workers, Returns(w), UNCHANGED <<log, version, hash>>,
           keys' \subseteq AllKeys
    PROVE  IInv'
BY MoveOnly, IdleIsGood DEF Returns, IInv, Typed

\* The operation of a goroutine is good, and has its type.
LEMMA EachIsGood ==
    ASSUME IInv, NEW w \in Workers
    PROVE  Good(worker[w]) /\ worker[w] \in Operations
BY DEF IInv, Typed, InLog, AboutToStore, Good

\* updateHash yields a hash.
LEMMA UpdateHashType ==
    ASSUME NEW h \in Hashes, NEW v, NEW muts \in Seq(Mutations), NEW prev
    PROVE  updateHash(h, v, muts, prev) \in Hashes
<1>1. IsFiniteSet(DOMAIN muts)
    <2>1. DOMAIN muts = 1..Len(muts) /\ Len(muts) \in Nat
        OBVIOUS
    <2>2. QED BY <2>1, FS_Interval
<1>2. \A x : Cardinality({k \in DOMAIN muts : prev[k] = x}) \in Nat
    <2> TAKE x
    <2>1. IsFiniteSet({k \in DOMAIN muts : prev[k] = x})
        BY <1>1, FS_Subset
    <2>2. QED BY <2>1, FS_CardinalityType
<1>3. \A x \in Values : h[x] \in Int
    BY DEF Hashes
<1>4. \A x \in Values :
          h[x] + (IF x[1] = v /\ x[2] \in DOMAIN muts /\ muts[x[2]].op = "set" THEN 1 ELSE 0)
               - Cardinality({k \in DOMAIN muts : prev[k] = x}) \in Int
    <2> TAKE x \in Values
    <2> DEFINE added == IF x[1] = v /\ x[2] \in DOMAIN muts /\ muts[x[2]].op = "set" THEN 1 ELSE 0
               removed == Cardinality({k \in DOMAIN muts : prev[k] = x})
    <2>1. added \in Int
        OBVIOUS
    <2>2. removed \in Nat
        BY <1>2, Zenon
    <2> HIDE DEF added, removed
    <2>3. h[x] + added - removed \in Int
        BY <2>1, <2>2, <1>3
    <2>4. QED BY <2>3 DEF added, removed
<1>5. QED
    BY <1>4, Zenon DEF updateHash, Hashes

\* The list of patches between two versions.
LEMMA PatchesType ==
    ASSUME log \in Seq(Patch), Len(log) <= MaxVersion,
           NEW from \in 0..Len(log), NEW to \in from..Len(log)
    PROVE  /\ Patches(from, to) \in Seq(Items)
           /\ \A n \in DOMAIN Patches(from, to) : Patches(from, to)[n].version \in 1..Len(log)
<1>1. to - from \in Nat /\ Len(log) \in Nat /\ MaxVersion \in Nat
    BY AppStateAssumption
<1>2. \A n \in 1..(to - from) : /\ from + n \in 1..Len(log)
                                /\ [version |-> from + n, snapshot |-> FALSE] \in Items
    BY <1>1 DEF Items, Versions
<1>3. Patches(from, to) \in [1..(to - from) -> Items]
    BY <1>2 DEF Patches
<1>4. Patches(from, to) \in Seq(Items)
    BY <1>1, <1>3
<1>5. QED
    BY <1>2, <1>4 DEF Patches

\* The server adds a patch: what was signed stays signed, and every operation
\* that was good is still good.  One goroutine may have gone on meanwhile.
LEMMA LogGrows ==
    ASSUME IInv, NEW patch \in Patch, Len(log) < MaxVersion, log' = Append(log, patch),
           UNCHANGED <<version, hash, keys>>, worker' \in [Workers -> Operations],
           \A w \in Workers :
               \/ worker'[w] = worker[w]
               \/ worker'[w].version = 0 /\ worker'[w].list = <<>> /\ worker'[w].pc \in {"idle", "lock"}
    PROVE  IInv'
<1>1. /\ log' \in Seq(Patch) /\ Len(log') = Len(log) + 1 /\ Len(log) \in Nat
      /\ \A v \in 1..Len(log) : log'[v] = log[v]
    BY DEF IInv, Typed
<1>2. Len(log') <= MaxVersion /\ version \in 0..Len(log')
    BY <1>1, AppStateAssumption DEF IInv, Typed
<1>3. ASSUME NEW w \in Workers
      PROVE  /\ worker'[w].version <= Len(log')
             /\ \A n \in DOMAIN worker'[w].list : worker'[w].list[n].version \in 1..Len(log')
             /\ worker'[w].pc \in {"reset", "putVersion", "deleteMACs", "putMACs"}
                   => worker'[w].list # <<>>
             /\ worker'[w].pc \in {"encode", "post"} => worker'[w].key \in AllKeys
             /\ worker'[w].pc \in {"putVersion", "reset"} =>
                   /\ worker'[w].version > 0
                   /\ worker'[w].hash = log'[worker'[w].version].hash
    <2>1. CASE worker'[w] = worker[w]
        <3>1. Good(worker[w]) /\ worker[w].version \in Int
            BY EachIsGood DEF Operations, Versions
        <3>2. worker[w].version <= Len(log') /\ 1..Len(log) \subseteq 1..Len(log')
            BY <1>1, <3>1 DEF Good
        <3>3. worker[w].pc \in {"putVersion", "reset"} => worker[w].version \in 1..Len(log)
            BY <1>1, <3>1 DEF Good
        <3>4. QED BY <1>1, <2>1, <3>1, <3>2, <3>3 DEF Good
    <2>2. CASE worker'[w].version = 0 /\ worker'[w].list = <<>> /\ worker'[w].pc \in {"idle", "lock"}
        BY <1>1, <2>2
    <2>3. QED BY <2>1, <2>2
<1>4. InLog' /\ AboutToStore'
    BY <1>3 DEF InLog, AboutToStore
<1>5. StoredHashIsSigned'
    BY <1>1 DEF IInv, Typed, StoredHashIsSigned
<1>6. QED
    BY <1>1, <1>2, <1>4, <1>5 DEF IInv, Typed

-----------------------------------------------------------------------------
(* The steps                                                               *)

\* Operations start in a good state.
LEMMA StartStep ==
    ASSUME IInv, NEW w \in Workers, Starts(w)
    PROVE  IInv'
<1> USE DEF stored, keyring, Goes, Calls
<1>0. log \in Seq(Patch) /\ Len(log) \in Nat /\ Good(Idle) /\ Idle \in Operations
      /\ Idle.version = 0 /\ Idle.list = <<>> /\ keys \subseteq AllKeys
    BY IdleIsGood DEF IInv, Typed, Good, Idle
<1>1. ASSUME NEW full \in BOOLEAN, NEW only \in BOOLEAN, FetchAppState(w, full, only) PROVE IInv'
    <2> DEFINE o == [Idle EXCEPT !.pc = "lock", !.full = full, !.only = only]
    <2>1. Good(o)
        BY <1>0 DEF Good, Operations, Places
    <2> HIDE DEF o
    <2>2. worker' = [worker EXCEPT ![w] = o]
        BY <1>1 DEF FetchAppState, o
    <2>3. QED BY <2>1, <2>2, <1>0, <1>1, MoveOnly DEF FetchAppState
<1>2. ASSUME NEW edit \in OwnEdits, SendAppState(w, edit) PROVE IInv'
    <2> DEFINE o == [Idle EXCEPT !.pc = "read", !.mode = "conflict", !.retry = TRUE, !.edit = edit]
    <2>1. Good(o)
        BY <1>0, AppStateAssumption DEF Good, Operations, Places
    <2> HIDE DEF o
    <2>2. worker' = [worker EXCEPT ![w] = o]
        BY <1>2 DEF SendAppState, o
    <2>3. QED BY <2>1, <2>2, <1>0, <1>2, MoveOnly DEF SendAppState
<1>3. ASSUME NEW key \in AllKeys, handleAppStateSyncKeyShare(w, key) PROVE IInv'
    <2> DEFINE o == [Idle EXCEPT !.pc = "lock", !.only = key \notin requested]
    <2>1. Good(o)
        BY <1>0 DEF Good, Operations, Places
    <2> HIDE DEF o
    <2>2. worker' = [worker EXCEPT ![w] = o]
        BY <1>3 DEF handleAppStateSyncKeyShare, o
    <2>3. QED BY <2>1, <2>2, <1>0, <1>3, MoveOnly DEF handleAppStateSyncKeyShare
<1>4. ASSUME NEW v \in 1..Len(log), handleAppStateRecovery(w, v) PROVE IInv'
    <2> DEFINE item == [version |-> v, snapshot |-> TRUE]
               list == <<item>>
               o == [Idle EXCEPT !.pc = "reset", !.mode = "recovery", !.full = TRUE, !.version = v,
                                 !.hash = log[v].hash, !.list = list]
    <2>1. v \in Versions /\ v \in Nat /\ v > 0
        BY <1>0, AppStateAssumption DEF Versions, IInv, Typed
    <2>2. log[v].hash \in Hashes
        <3>1. log[v] \in Patch
            BY <1>0
        <3>2. QED BY <3>1 DEF Patch
    <2>3. list \in Seq(Items) /\ list # <<>> /\ \A n \in DOMAIN list : list[n].version \in 1..Len(log)
        BY <2>1 DEF Items
    <2> HIDE DEF item, list
    <2>4. Good(o)
        <3>1. o \in Operations
            BY <1>0, <2>1, <2>2, <2>3 DEF Operations, Places
        <3>2. o.version = v /\ o.hash = log[v].hash /\ o.list = list /\ o.pc = "reset"
            BY <1>0 DEF Operations
        <3> HIDE DEF o
        <3>3. v <= Len(log)
            BY <1>0
        <3>4. QED BY <3>1, <3>2, <3>3, <2>1, <2>3 DEF Good
    <2>5. worker' = [worker EXCEPT ![w] = o]
        BY <1>4 DEF handleAppStateRecovery, item, list
    <2> HIDE DEF o
    <2>6. QED BY <2>4, <2>5, <1>0, <1>4, MoveOnly DEF handleAppStateRecovery
<1>5. QED BY <1>1, <1>2, <1>3, <1>4 DEF Starts

\* fetchAppState under its lock.
LEMMA FetchStep ==
    ASSUME IInv, NEW w \in Workers, Fetches(w)
    PROVE  IInv'
<1> USE DEF stored, keyring, Goes
<1>0. /\ log \in Seq(Patch) /\ Len(log) \in Nat /\ Len(log) <= MaxVersion /\ keys \subseteq AllKeys
      /\ MaxVersion \in Nat /\ version \in 0..Len(log) /\ version \in Versions /\ hash \in Hashes
    BY AppStateAssumption DEF IInv, Typed, Versions
<1>w. Good(worker[w]) /\ worker[w] \in Operations
    BY EachIsGood
<1>1. ASSUME LockSync(w) PROVE IInv'
    <2> DEFINE o == [worker[w] EXCEPT !.pc = "version", !.mode = "fetch"]
    <2>1. Good(o)
        BY <1>w DEF Good, Operations, Places
    <2> HIDE DEF o
    <2>2. worker' = [worker EXCEPT ![w] = o] /\ log' = log /\ keys' = keys
        BY <1>1 DEF LockSync, o
    <2>3. CASE UNCHANGED <<version, hash>>
        BY <2>1, <2>2, <2>3, <1>0, MoveOnly
    <2>4. CASE DeleteAppStateVersion
        BY <2>1, <2>2, <2>4, <1>0, ForgetVersion
    <2>5. QED BY <2>3, <2>4, <1>1 DEF LockSync
<1>2. ASSUME GetAppStateVersion(w) PROVE IInv'
    <2>1. CASE Returns(w)
        BY <2>1, <1>0, <1>2, ReturnOnly DEF GetAppStateVersion
    <2>2. CASE ~(version # 0 /\ worker[w].only)
        <3> DEFINE o == [worker[w] EXCEPT !.pc = "fetch", !.version = version, !.hash = hash,
                                          !.full = @ \/ version = 0,
                                          !.snap = worker[w].full \/ version = 0, !.only = FALSE]
        <3>1. Good(o)
            <4>1. o \in Operations
                BY <1>0, <1>w DEF Operations, Places
            <4>2. o.version = version /\ o.list = worker[w].list /\ o.pc = "fetch"
                BY <1>w DEF Operations
            <4> HIDE DEF o
            <4>3. QED BY <4>1, <4>2, <1>0, <1>w DEF Good
        <3> HIDE DEF o
        <3>2. worker' = [worker EXCEPT ![w] = o]
            BY <1>2, <2>2 DEF GetAppStateVersion, o
        <3>3. QED BY <3>1, <3>2, <1>0, <1>2, MoveOnly DEF GetAppStateVersion
    <2>3. QED BY <2>1, <2>2, <1>2 DEF GetAppStateVersion
<1>3. ASSUME fetchAppStatePatches(w) PROVE IInv'
    <2>1. CASE Returns(w)
        BY <2>1, <1>0, <1>3, ReturnOnly DEF fetchAppStatePatches
    <2>2. CASE ~Returns(w)
        <3>1. PICK from \in (IF worker[w].snap THEN 0..Len(log) ELSE {worker[w].version}),
                   to \in 0..Len(log) :
                  /\ to >= from
                  /\ worker' = [worker EXCEPT ![w] = [worker[w] EXCEPT
                         !.pc = "apply", !.snap = FALSE, !.more = to < Len(log),
                         !.list = (IF worker[w].snap /\ from > 0
                                   THEN <<[version |-> from, snapshot |-> TRUE]>> ELSE <<>>)
                                  \o Patches(from, to)]]
            BY <1>3, <2>2 DEF fetchAppStatePatches, ParsePatchList
        <3>2. from \in 0..Len(log) /\ to \in from..Len(log)
            BY <1>0, <1>w, <3>1 DEF Good, Operations, Versions
        <3> DEFINE first == IF worker[w].snap /\ from > 0
                            THEN <<[version |-> from, snapshot |-> TRUE]>> ELSE <<>>
                   list == first \o Patches(from, to)
                   o == [worker[w] EXCEPT !.pc = "apply", !.snap = FALSE, !.more = to < Len(log),
                                          !.list = list]
        <3>3. first \in Seq(Items) /\ \A n \in DOMAIN first : first[n].version \in 1..Len(log)
            <4> DEFINE item == [version |-> from, snapshot |-> TRUE]
            <4>1. CASE worker[w].snap /\ from > 0
                <5>1. item \in Items /\ item.version \in 1..Len(log)
                    BY <1>0, <3>2, <4>1 DEF Items, Versions
                <5>2. first = <<item>>
                    BY <4>1
                <5> HIDE DEF item, first
                <5>3. QED BY <5>1, <5>2
            <4>2. CASE ~(worker[w].snap /\ from > 0)
                <5>1. first = <<>>
                    BY <4>2
                <5> HIDE DEF first
                <5>2. QED BY <5>1
            <4>3. QED BY <4>1, <4>2
        <3>4. list \in Seq(Items) /\ \A n \in DOMAIN list : list[n].version \in 1..Len(log)
            <4> HIDE DEF first
            <4>1. /\ Patches(from, to) \in Seq(Items)
                  /\ \A n \in DOMAIN Patches(from, to) : Patches(from, to)[n].version \in 1..Len(log)
                BY <1>0, <3>2, PatchesType
            <4> DEFINE rest == Patches(from, to)
            <4> HIDE DEF rest
            <4>2. first \o rest \in Seq(Items)
                BY <3>3, <4>1 DEF rest
            <4>3. ASSUME NEW n \in DOMAIN (first \o rest) PROVE (first \o rest)[n].version \in 1..Len(log)
                <5>1. CASE n <= Len(first)
                    BY <3>3, <4>1, <4>3, <5>1 DEF rest
                <5>2. CASE n > Len(first)
                    BY <3>3, <4>1, <4>3, <5>2 DEF rest
                <5>3. QED BY <5>1, <5>2, <3>3, <4>1 DEF rest
            <4>4. QED BY <4>2, <4>3 DEF rest
        <3> HIDE DEF list
        <3>5. Good(o)
            <4>1. o \in Operations
                <5>1. (to < Len(log)) \in BOOLEAN
                    OBVIOUS
                <5>2. QED BY <1>w, <3>4, <5>1 DEF Operations, Places
            <4>2. o.version = worker[w].version /\ o.list = list /\ o.pc = "apply"
                BY <1>w DEF Operations
            <4> HIDE DEF o
            <4>3. QED BY <4>1, <4>2, <1>w, <3>4 DEF Good
        <3>6. worker' = [worker EXCEPT ![w] = o]
            BY <3>1 DEF list
        <3> HIDE DEF o
        <3>7. QED BY <3>5, <3>6, <1>0, <1>3, MoveOnly DEF fetchAppStatePatches
    <2>3. QED BY <2>1, <2>2
<1>4. QED BY <1>1, <1>2, <1>3 DEF Fetches

\* applyAppStatePatches: what is stored has been checked against the signature.
LEMMA ApplyStep ==
    ASSUME IInv, NEW w \in Workers, Applies(w)
    PROVE  IInv'
<1> USE DEF stored, keyring, Goes
<1>0. /\ log \in Seq(Patch) /\ Len(log) \in Nat /\ Len(log) <= MaxVersion /\ keys \subseteq AllKeys
      /\ MaxVersion \in Nat
    BY AppStateAssumption DEF IInv, Typed
<1>w. Good(worker[w]) /\ worker[w] \in Operations
    BY EachIsGood
<1>1. ASSUME MissingKey(w) PROVE IInv'
    BY <1>0, <1>1, ReturnOnly DEF MissingKey
<1>2. ASSUME Decode(w) PROVE IInv'
    <2>1. CASE Returns(w)
        BY <2>1, <1>0, <1>2, ReturnOnly DEF Decode
    <2>2. CASE ~Returns(w)
        <3> DEFINE v == Head(worker[w].list).version
                   h == log[v].hash
                   o == [worker[w] EXCEPT !.pc = "putVersion", !.base = worker[w].version,
                                          !.version = v, !.hash = h]
        <3>1. worker[w].list # <<>> /\ h = log[v].hash /\ worker' = [worker EXCEPT ![w] = o]
            BY <1>2, <2>2 DEF Decode
        <3>2. v \in 1..Len(log)
            BY <1>w, <3>1 DEF Good, Operations
        <3>3. v \in Versions /\ v \in Nat /\ v > 0
            BY <1>0, <3>2 DEF Versions
        <3>4. log[v] \in Patch
            BY <1>0, <3>2
        <3>5. h \in Hashes
            BY <3>1, <3>4 DEF Patch
        <3> HIDE DEF v, h
        <3>6. o \in Operations
            BY <1>w, <3>3, <3>5 DEF Operations, Places
        <3>7. o.version = v /\ o.hash = h /\ o.list = worker[w].list /\ o.pc = "putVersion"
            BY <1>w DEF Operations
        <3> HIDE DEF o
        <3>8. Good(o)
            BY <1>w, <3>1, <3>2, <3>3, <3>6, <3>7 DEF Good
        <3>9. QED BY <3>1, <3>8, <1>0, <1>2, MoveOnly DEF Decode
    <2>3. QED BY <2>1, <2>2
<1>3. ASSUME PutAppStateVersion(w) PROVE IInv'
    <2> DEFINE next == IF worker[w].mode = "recovery" THEN "putMACs" ELSE "deleteMACs"
               o == [worker[w] EXCEPT !.pc = next]
    <2>1. next \in Places /\ next \notin {"putVersion", "reset", "encode", "post"}
        BY DEF Places
    <2>2. worker' = [worker EXCEPT ![w] = o]
        BY <1>3 DEF PutAppStateVersion
    <2>3. /\ worker[w].version \in 1..Len(log) /\ worker[w].hash = log[worker[w].version].hash
          /\ worker[w].hash \in Hashes
        BY <1>0, <1>w, <1>3 DEF Good, PutAppStateVersion, Operations, Versions
    <2> HIDE DEF next
    <2>4. o \in Operations /\ o.pc = next /\ o.version = worker[w].version /\ o.list = worker[w].list
        BY <1>w, <2>1 DEF Operations
    <2> HIDE DEF o
    <2>5. Good(o)
        BY <1>w, <1>3, <2>1, <2>4 DEF Good, PutAppStateVersion
    <2>6. QED BY <1>0, <1>3, <2>2, <2>3, <2>5, StoreSigned DEF PutAppStateVersion
<1>4. ASSUME DeleteAppStateMutationMACs(w) PROVE IInv'
    <2> DEFINE o == [worker[w] EXCEPT !.pc = "putMACs"]
    <2>1. Good(o)
        BY <1>w, <1>4 DEF Good, Operations, Places, DeleteAppStateMutationMACs
    <2>2. worker' = [worker EXCEPT ![w] = o]
        BY <1>4 DEF DeleteAppStateMutationMACs
    <2> HIDE DEF o
    <2>3. QED BY <1>0, <1>4, <2>1, <2>2, MoveOnly DEF DeleteAppStateMutationMACs
<1>5. ASSUME PutAppStateMutationMACs(w) PROVE IInv'
    <2>1. CASE Returns(w)
        BY <2>1, <1>0, <1>5, ReturnOnly DEF PutAppStateMutationMACs
    <2>2. CASE ~Returns(w)
        <3> DEFINE list == Tail(worker[w].list)
                   got == worker[w].got \cup SetsOf(Head(worker[w].list))
                   o == [worker[w] EXCEPT !.pc = "apply", !.list = list, !.got = got]
        <3>1. worker' = [worker EXCEPT ![w] = o]
            BY <1>5, <2>2 DEF PutAppStateMutationMACs
        <3>2. got \subseteq Values
            <4>1. worker[w].got \subseteq Values
                BY <1>w DEF Operations
            <4>2. QED BY <4>1, Zenon DEF SetsOf, Live
        <3>3. CASE worker[w].list # <<>>
            <4>1. worker[w].list \in Seq(Items)
                BY <1>w DEF Operations
            <4>2. list \in Seq(Items) /\ \A n \in DOMAIN list : list[n].version \in 1..Len(log)
                BY <1>w, <3>3, <4>1 DEF Good
            <4> HIDE DEF list, got
            <4>3. o \in Operations
                BY <1>w, <3>2, <4>2 DEF Operations, Places
            <4>4. o.pc = "apply" /\ o.version = worker[w].version /\ o.list = list
                BY <1>w DEF Operations
            <4> HIDE DEF o
            <4>5. Good(o)
                BY <1>w, <4>2, <4>3, <4>4 DEF Good
            <4>6. QED BY <1>0, <1>5, <3>1, <4>5, MoveOnly DEF PutAppStateMutationMACs
        <3>4. CASE worker[w].list = <<>>
            BY <1>5, <1>w, <3>4 DEF PutAppStateMutationMACs, Good
        <3>5. QED BY <3>3, <3>4
    <2>3. QED BY <2>1, <2>2
<1>6. ASSUME collectEventsToDispatch(w) PROVE IInv'
    <2>1. CASE Returns(w)
        BY <2>1, <1>0, <1>6, ReturnOnly DEF collectEventsToDispatch
    <2>2. CASE worker' = [worker EXCEPT ![w] = [worker[w] EXCEPT !.pc = "fetch", !.got = {}]]
        <3> DEFINE o == [worker[w] EXCEPT !.pc = "fetch", !.got = {}]
        <3>1. Good(o)
            BY <1>w DEF Good, Operations, Places
        <3>2. worker' = [worker EXCEPT ![w] = o]
            BY <2>2
        <3> HIDE DEF o
        <3>3. QED BY <1>0, <1>6, <3>1, <3>2, MoveOnly DEF collectEventsToDispatch
    <2>3. CASE worker' = [worker EXCEPT ![w] = [Idle EXCEPT !.pc = "read", !.mode = "conflict",
                                                            !.edit = worker[w].edit]]
        <3> DEFINE o == [Idle EXCEPT !.pc = "read", !.mode = "conflict", !.edit = worker[w].edit]
        <3>1. Good(Idle) /\ worker[w].edit \in Seq(Mutations)
            BY <1>0, <1>w, IdleIsGood DEF Operations
        <3>2. Good(o)
            BY <3>1 DEF Good, Operations, Places
        <3>3. worker' = [worker EXCEPT ![w] = o]
            BY <2>3
        <3> HIDE DEF o
        <3>4. QED BY <1>0, <1>6, <3>2, <3>3, MoveOnly DEF collectEventsToDispatch
    <2>4. QED BY <2>1, <2>2, <2>3, <1>6 DEF collectEventsToDispatch
<1>7. QED BY <1>1, <1>2, <1>3, <1>4, <1>5, <1>6 DEF Applies

\* sendAppState signs whatever it computes, but stores nothing itself.
LEMMA SendStep ==
    ASSUME IInv, NEW w \in Workers, Sends(w)
    PROVE  IInv'
<1> USE DEF stored, keyring, Goes
<1>0. /\ log \in Seq(Patch) /\ Len(log) \in Nat /\ Len(log) <= MaxVersion /\ keys \subseteq AllKeys
      /\ MaxVersion \in Nat /\ version \in 0..Len(log) /\ version \in Versions /\ hash \in Hashes
      /\ worker \in [Workers -> Operations]
    BY AppStateAssumption DEF IInv, Typed, Versions
<1>w. Good(worker[w]) /\ worker[w] \in Operations
    BY EachIsGood
<1>1. ASSUME SendReads(w) PROVE IInv'
    <2>1. CASE Returns(w)
        BY <2>1, <1>0, <1>1, ReturnOnly DEF SendReads
    <2>2. CASE ~Returns(w)
        <3>1. PICK newest \in keys :
                  worker' = [worker EXCEPT ![w] = [worker[w] EXCEPT !.pc = "encode",
                                 !.version = version, !.hash = hash, !.key = newest]]
            BY <1>1, <2>2 DEF SendReads
        <3> DEFINE o == [worker[w] EXCEPT !.pc = "encode", !.version = version, !.hash = hash,
                                          !.key = newest]
        <3>2. newest \in AllKeys
            BY <1>0
        <3>3. o \in Operations
            BY <1>0, <1>w, <3>2 DEF Operations, Places
        <3>4. o.version = version /\ o.list = worker[w].list /\ o.pc = "encode" /\ o.key = newest
            BY <1>w DEF Operations
        <3> HIDE DEF o
        <3>5. Good(o)
            BY <1>0, <1>w, <3>2, <3>3, <3>4 DEF Good
        <3>6. worker' = [worker EXCEPT ![w] = o]
            BY <3>1 DEF o
        <3>7. QED BY <3>5, <3>6, <1>0, <1>1, MoveOnly DEF SendReads
    <2>3. QED BY <2>1, <2>2
<1>2. ASSUME EncodePatch(w) PROVE IInv'
    <2> DEFINE edit == worker[w].edit
               previous == [k \in DOMAIN edit |-> GetAppStateMutationMAC(edit[k].index)]
               signed == updateHash(worker[w].hash, worker[w].version + 1, edit, previous)
               o == [worker[w] EXCEPT !.pc = "post", !.signed = signed]
    <2>1. worker' = [worker EXCEPT ![w] = o]
        BY <1>2 DEF EncodePatch
    <2>2. edit \in Seq(Mutations) /\ worker[w].hash \in Hashes
        BY <1>w DEF Operations
    <2> HIDE DEF edit, previous
    <2>3. signed \in Hashes
        BY <2>2, UpdateHashType
    <2> HIDE DEF signed
    <2>4. o \in Operations
        BY <1>w, <2>3 DEF Operations, Places
    <2>5. o.version = worker[w].version /\ o.list = worker[w].list /\ o.pc = "post"
          /\ o.key = worker[w].key
        BY <1>w DEF Operations
    <2> HIDE DEF o
    <2>6. Good(o)
        BY <1>w, <1>2, <2>4, <2>5 DEF Good, EncodePatch
    <2>7. QED BY <2>1, <2>6, <1>0, <1>2, MoveOnly DEF EncodePatch
<1>3. ASSUME PostAccepted(w) PROVE IInv'
    <2> DEFINE patch == [key |-> worker[w].key, muts |-> worker[w].edit, hash |-> worker[w].signed]
    <2>1. patch \in Patch
        BY <1>w, <1>3 DEF Patch, Operations, PostAccepted, Good
    <2>2. Len(log) < MaxVersion /\ log' = Append(log, patch)
        BY <1>3 DEF PostAccepted
    <2> HIDE DEF patch
    <2> DEFINE locks == [Idle EXCEPT !.pc = "lock"]
    <2>3. /\ Idle \in Operations /\ locks \in Operations
          /\ Idle.version = 0 /\ Idle.list = <<>> /\ Idle.pc = "idle"
          /\ locks.version = 0 /\ locks.list = <<>> /\ locks.pc = "lock"
        BY <1>0, IdleIsGood DEF Good, Idle, Operations, Places
    <2>4. \/ worker' = [worker EXCEPT ![w] = locks]
          \/ worker' = [worker EXCEPT ![w] = Idle]
          \/ worker' = worker
        BY <1>3 DEF PostAccepted
    <2> HIDE DEF locks
    <2>5. worker' \in [Workers -> Operations]
        BY <1>0, <2>3, <2>4
    <2>6. \A u \in Workers :
               \/ worker'[u] = worker[u]
               \/ worker'[u].version = 0 /\ worker'[u].list = <<>> /\ worker'[u].pc \in {"idle", "lock"}
        BY <1>0, <2>3, <2>4
    <2>7. QED BY <1>3, <2>1, <2>2, <2>5, <2>6, LogGrows DEF PostAccepted
<1>4. ASSUME PostRefused(w) PROVE IInv'
    <2>1. CASE Returns(w)
        BY <2>1, <1>0, <1>4, ReturnOnly DEF PostRefused
    <2>2. CASE ~Returns(w)
        <3>1. PICK to \in worker[w].version..Len(log) :
                  worker' = [worker EXCEPT ![w] = [worker[w] EXCEPT !.pc = "apply",
                                 !.list = Patches(worker[w].version, to),
                                 !.key = 0, !.signed = ZeroHash]]
            BY <1>4, <2>2 DEF PostRefused
        <3> DEFINE list == Patches(worker[w].version, to)
                   o == [worker[w] EXCEPT !.pc = "apply", !.list = list, !.key = 0,
                                          !.signed = ZeroHash]
        <3>2. worker[w].version \in 0..Len(log)
            BY <1>0, <1>w DEF Good, Operations, Versions
        <3>3. list \in Seq(Items) /\ \A n \in DOMAIN list : list[n].version \in 1..Len(log)
            BY <1>0, <3>2, PatchesType
        <3>4. ZeroHash \in Hashes
            BY DEF ZeroHash, Hashes
        <3>5. worker' = [worker EXCEPT ![w] = o]
            BY <3>1
        <3> HIDE DEF list
        <3>6. o \in Operations
            BY <1>w, <3>3, <3>4 DEF Operations, Places
        <3>7. o.version = worker[w].version /\ o.list = list /\ o.pc = "apply"
            BY <1>w DEF Operations
        <3> HIDE DEF o
        <3>8. Good(o)
            BY <1>w, <3>3, <3>6, <3>7 DEF Good
        <3>9. QED BY <3>5, <3>8, <1>0, <1>4, MoveOnly DEF PostRefused
    <2>3. QED BY <2>1, <2>2
<1>5. QED BY <1>1, <1>2, <1>3, <1>4 DEF Sends

\* The remaining steps of a goroutine: a recovery forgets the stored version, and
\* a failing statement ends the operation.
LEMMA OtherWorkerStep ==
    ASSUME IInv, NEW w \in Workers, RecoveryResets(w) \/ StoreFails(w)
    PROVE  IInv'
<1> USE DEF stored, keyring, Goes
<1>0. keys \subseteq AllKeys
    BY DEF IInv, Typed
<1>1. ASSUME RecoveryResets(w) PROVE IInv'
    <2> DEFINE o == [worker[w] EXCEPT !.pc = "putVersion"]
    <2>1. Good(worker[w]) /\ worker[w] \in Operations
        BY EachIsGood
    <2>2. Good(o)
        BY <1>1, <2>1 DEF Good, Operations, Places, RecoveryResets
    <2>3. worker' = [worker EXCEPT ![w] = o]
        BY <1>1 DEF RecoveryResets
    <2> HIDE DEF o
    <2>4. QED BY <1>1, <2>2, <2>3, ForgetVersion DEF RecoveryResets
<1>2. ASSUME StoreFails(w) PROVE IInv'
    BY <1>0, <1>2, ReturnOnly DEF StoreFails
<1>3. QED BY <1>1, <1>2

\* The surroundings: other devices, the key request, a crash.
LEMMA SurroundingStep ==
    ASSUME IInv,
           \/ \E key \in AllKeys, muts \in Edits : OtherDeviceSends(key, muts)
           \/ requestMissingAppStateKeys
           \/ Crash
    PROVE  IInv'
<1> USE DEF stored, keyring
<1>0. log \in Seq(Patch) /\ worker \in [Workers -> Operations]
    BY DEF IInv, Typed
<1>1. ASSUME NEW key \in AllKeys, NEW muts \in Edits, OtherDeviceSends(key, muts) PROVE IInv'
    <2> DEFINE patch == [key |-> key, muts |-> muts, hash |-> ZeroHash]
               signed == HashOf(Append(log, patch))
               whole == [patch EXCEPT !.hash = signed]
    <2>1. muts \in Seq(Mutations)
        BY AppStateAssumption
    <2>2. signed \in Hashes
        BY DEF HashOf, Hashes
    <2>3. Len(log) < MaxVersion /\ log' = Append(log, whole)
        BY <1>1 DEF OtherDeviceSends
    <2> HIDE DEF signed
    <2>4. whole \in Patch
        BY <2>1, <2>2 DEF Patch
    <2> HIDE DEF whole
    <2>5. QED BY <1>0, <1>1, <2>3, <2>4, LogGrows DEF OtherDeviceSends
<1>2. ASSUME requestMissingAppStateKeys PROVE IInv'
    BY <1>2 DEF requestMissingAppStateKeys, IInv, Typed, InLog, AboutToStore, StoredHashIsSigned
<1>3. ASSUME Crash PROVE IInv'
    <2>1. Good(Idle) /\ Idle \in Operations /\ Idle.pc = "idle"
        BY <1>0, IdleIsGood DEF Good, Idle
    <2>2. worker' = [w \in Workers |-> Idle] /\ UNCHANGED <<log, version, hash, keys>>
        BY <1>3 DEF Crash
    <2>3. worker' \in [Workers -> Operations] /\ \A w \in Workers : worker'[w] = Idle
        BY <2>1, <2>2
    <2>4. InLog' /\ AboutToStore'
        BY <2>1, <2>2, <2>3 DEF Good, InLog, AboutToStore
    <2>5. QED BY <2>2, <2>3, <2>4 DEF IInv, Typed, StoredHashIsSigned
<1>4. QED BY <1>1, <1>2, <1>3

-----------------------------------------------------------------------------
(* The theorem about the hash                                              *)

\* The invariant holds in every state.
LEMMA Invariance == Spec => []IInv
<1>1. Init => IInv
    <2> SUFFICES ASSUME Init PROVE IInv
        OBVIOUS
    <2>1. log \in Seq(Patch) /\ Len(log) = 0
        BY DEF Init
    <2>2. Good(Idle) /\ Idle \in Operations /\ Idle.pc = "idle"
        BY <2>1, IdleIsGood DEF Good, Idle
    <2>3. worker \in [Workers -> Operations] /\ \A w \in Workers : worker[w] = Idle
        BY <2>2 DEF Init
    <2>4. InLog /\ AboutToStore
        BY <2>2, <2>3 DEF Good, InLog, AboutToStore
    <2>5. hash \in Hashes
        BY DEF Init, ZeroHash, Hashes
    <2>6. Typed /\ StoredHashIsSigned
        BY <2>1, <2>3, <2>5, AppStateAssumption DEF Init, Typed, StoredHashIsSigned
    <2>7. QED BY <2>4, <2>6 DEF IInv
<1>2. IInv /\ [Next]_vars => IInv'
    <2> SUFFICES ASSUME IInv, [Next]_vars PROVE IInv'
        OBVIOUS
    <2>1. CASE UNCHANGED vars
        BY <2>1 DEF vars, stored, keyring, IInv, Typed, InLog, AboutToStore, StoredHashIsSigned
    <2>2. ASSUME NEW w \in Workers,
                 Starts(w) \/ Fetches(w) \/ Applies(w) \/ Sends(w) \/ RecoveryResets(w) \/ StoreFails(w)
          PROVE  IInv'
        BY <2>2, StartStep, FetchStep, ApplyStep, SendStep, OtherWorkerStep
    <2>3. CASE \/ \E key \in AllKeys, muts \in Edits : OtherDeviceSends(key, muts)
               \/ requestMissingAppStateKeys
               \/ Crash
        BY <2>3, SurroundingStep
    <2>4. QED BY <2>1, <2>2, <2>3 DEF Next
<1>3. QED
    BY <1>1, <1>2, PTL DEF Spec

\* Whatever order syncs, sends with their conflict retry, recoveries, failing
\* statements and crashes come in, the version and the LTHash that
\* PutAppStateVersion has stored belong together: the hash is the one the patch
\* of that version signs.
THEOREM StoredHashSigned == Spec => []StoredHashIsSigned
<1>1. IInv => StoredHashIsSigned
    BY DEF IInv
<1>2. QED
    BY <1>1, Invariance, PTL

-----------------------------------------------------------------------------
(* The value of an index                                                   *)

\* LatestIn, Latest and GetAppStateMutationMAC with the log and the rows as parameters.
LatestAt(l, i, v) == LatestIn(SubSeq(l, 1, v), i)
Touching(l, i, v) ==
    {x \in Values : /\ x[1] \in 1..v /\ x[2] \in DOMAIN l[x[1]].muts
                    /\ l[x[1]].muts[x[2]].index = i}
IsLast(T, x) == x \in T /\ \A y \in T : ~Before(x, y)
Newest(S, i) ==
    LET rows == {r \in S : r.index = i} IN
    IF rows = {} THEN NoValue
    ELSE (CHOOSE r \in rows : \A q \in rows : q.version <= r.version).value

\* The components of a value MAC.
LEMMA ValueFacts ==
    ASSUME NEW x \in Values
    PROVE  /\ x[1] \in 1..MaxVersion /\ x[2] \in {1, 2} /\ x = <<x[1], x[2]>>
           /\ x[1] \in Nat /\ x[2] \in Nat /\ x # NoValue
<1>1. x[1] \in 1..MaxVersion /\ x[2] \in {1, 2} /\ x = <<x[1], x[2]>>
    BY DEF Values
<1>2. x # NoValue
    BY ValueAssumption
<1> QED BY <1>1, <1>2, AppStateAssumption

\* Among values there is exactly one last.
LEMMA LastExists ==
    ASSUME NEW T \in SUBSET Values, T # {}
    PROVE  \E x : IsLast(T, x)
<1> DEFINE f(x) == 2 * (MaxVersion - x[1]) + (2 - x[2])
           R == {f(x) : x \in T}
<1>1. \A x \in T : f(x) \in Nat
    BY ValueFacts, AppStateAssumption
<1>2. R \in SUBSET Nat /\ R # {}
    BY <1>1
<1>3. PICK m \in R : \A n \in R : ~(<<n, m>> \in OpToRel(<, Nat))
    <2> HIDE DEF R
    <2> QED BY <1>2, NatLessThanWellFounded, WFMin
<1>4. \A n \in R : ~(n < m)
    BY <1>2, <1>3 DEF OpToRel
<1>5. PICK x \in T : m = f(x)
    BY <1>3
<1>6. ASSUME NEW y \in T PROVE ~Before(x, y)
    <2>1. ~(f(y) < f(x))
        BY <1>4, <1>5
    <2>2. x \in Values /\ y \in Values
        OBVIOUS
    <2>3. x[1] \in 1..MaxVersion /\ x[2] \in {1, 2} /\ y[1] \in 1..MaxVersion /\ y[2] \in {1, 2}
        BY <2>2, ValueFacts
    <2> QED BY <2>1, <2>3, AppStateAssumption DEF Before
<1> QED BY <1>6 DEF IsLast

\* Two last values are the same one.
LEMMA LastUnique ==
    ASSUME NEW T \in SUBSET Values, NEW x, NEW y, IsLast(T, x), IsLast(T, y)
    PROVE  x = y
<1>1. x \in Values /\ y \in Values /\ ~Before(x, y) /\ ~Before(y, x)
    BY DEF IsLast
<1> QED BY <1>1, ValueFacts DEF Before

\* CHOOSE finds the last value.
LEMMA LastChosen ==
    ASSUME NEW T \in SUBSET Values, NEW x, IsLast(T, x)
    PROVE  (CHOOSE y \in T : \A z \in T : ~Before(y, z)) = x
<1> DEFINE c == CHOOSE y \in T : \A z \in T : ~Before(y, z)
<1>1. c \in T /\ \A z \in T : ~Before(c, z)
    BY Zenon DEF IsLast
<1>2. IsLast(T, c)
    BY <1>1 DEF IsLast
<1> QED BY <1>2, LastUnique

\* The prefix of a log.
LEMMA PrefixFacts ==
    ASSUME NEW l \in Seq(Patch), NEW v \in 0..Len(l)
    PROVE  /\ SubSeq(l, 1, v) \in Seq(Patch) /\ Len(SubSeq(l, 1, v)) = v
           /\ DOMAIN SubSeq(l, 1, v) = 1..v
           /\ \A n \in 1..v : SubSeq(l, 1, v)[n] = l[n]
           /\ \A n \in 1..v : l[n] \in Patch /\ l[n].muts \in Seq(Mutations)
<1>1. \A n \in 1..v : l[n] \in Patch
    OBVIOUS
<1>2. \A n \in 1..v : l[n].muts \in Seq(Mutations)
    BY <1>1 DEF Patch
<1> QED BY <1>1, <1>2

\* The mutations that LatestIn looks at, written with the log itself.
LEMMA TouchingDef ==
    ASSUME NEW l \in Seq(Patch), NEW v \in 0..Len(l), NEW i
    PROVE  {x \in Values : /\ x[1] \in DOMAIN SubSeq(l, 1, v)
                           /\ x[2] \in DOMAIN SubSeq(l, 1, v)[x[1]].muts
                           /\ SubSeq(l, 1, v)[x[1]].muts[x[2]].index = i} = Touching(l, i, v)
<1> DEFINE p == SubSeq(l, 1, v)
<1>1. DOMAIN p = 1..v /\ \A n \in 1..v : p[n] = l[n]
    BY PrefixFacts
<1> HIDE DEF p
<1>2. {x \in Values : x[1] \in DOMAIN p /\ x[2] \in DOMAIN p[x[1]].muts
                           /\ p[x[1]].muts[x[2]].index = i} = Touching(l, i, v)
    BY <1>1 DEF Touching
<1> QED BY <1>2 DEF p

\* An index that no patch mentions has no value.
LEMMA LatestNone ==
    ASSUME NEW l \in Seq(Patch), NEW v \in 0..Len(l), NEW i, Touching(l, i, v) = {}
    PROVE  LatestAt(l, i, v) = NoValue
BY TouchingDef DEF LatestAt, LatestIn

\* The last mutation of an index decides its value.
LEMMA LatestIs ==
    ASSUME NEW l \in Seq(Patch), NEW v \in 0..Len(l), NEW i, NEW x, IsLast(Touching(l, i, v), x)
    PROVE  LatestAt(l, i, v) = IF l[x[1]].muts[x[2]].op = "set" THEN x ELSE NoValue
<1> DEFINE T == Touching(l, i, v)
           p == SubSeq(l, 1, v)
           c == CHOOSE y \in T : \A z \in T : ~Before(y, z)
<1>1. T \subseteq Values /\ T # {}
    BY DEF Touching, IsLast
<1>2. c = x
    <2> HIDE DEF T
    <2> QED BY <1>1, LastChosen DEF T
<1>3. x[1] \in 1..v
    BY DEF IsLast, Touching
<1>4. p[x[1]] = l[x[1]]
    BY <1>3, PrefixFacts
<1>5. LatestAt(l, i, v) = IF T = {} THEN NoValue
                          ELSE IF p[c[1]].muts[c[2]].op = "set" THEN c ELSE NoValue
    <2> DEFINE U == {y \in Values : /\ y[1] \in DOMAIN p /\ y[2] \in DOMAIN p[y[1]].muts
                                    /\ p[y[1]].muts[y[2]].index = i}
               d == CHOOSE y \in U : \A z \in U : ~Before(y, z)
    <2>1. U = T
        BY TouchingDef
    <2>2. LatestIn(p, i) = IF U = {} THEN NoValue
                           ELSE IF p[d[1]].muts[d[2]].op = "set" THEN d ELSE NoValue
        BY DEF LatestIn
    <2> HIDE DEF U, T, p
    <2>3. d = c
        BY <2>1
    <2> HIDE DEF d, c
    <2>4. LatestAt(l, i, v) = LatestIn(p, i)
        BY DEF LatestAt, p
    <2> QED BY <2>1, <2>2, <2>3, <2>4
<1> HIDE DEF T, p, c
<1> QED BY <1>1, <1>2, <1>4, <1>5

\* A value that an index has is that of its last mutation, a SET.
LEMMA LatestFacts ==
    ASSUME NEW l \in Seq(Patch), NEW v \in 0..Len(l), NEW i
    PROVE  /\ LatestAt(l, i, v) \in Values \cup {NoValue}
           /\ LatestAt(l, i, v) # NoValue =>
                 /\ IsLast(Touching(l, i, v), LatestAt(l, i, v))
                 /\ l[LatestAt(l, i, v)[1]].muts[LatestAt(l, i, v)[2]].op = "set"
                 /\ LatestAt(l, i, v)[1] \in 1..v
                 /\ LatestAt(l, i, v)[2] \in DOMAIN l[LatestAt(l, i, v)[1]].muts
                 /\ l[LatestAt(l, i, v)[1]].muts[LatestAt(l, i, v)[2]].index = i
<1> DEFINE T == Touching(l, i, v)
<1>1. CASE T = {}
    BY <1>1, LatestNone
<1>2. CASE T # {}
    <2>1. T \in SUBSET Values
        BY DEF Touching
    <2>2. PICK x : IsLast(T, x)
        <3> HIDE DEF T
        <3> QED BY <1>2, <2>1, LastExists
    <2>3. LatestAt(l, i, v) = IF l[x[1]].muts[x[2]].op = "set" THEN x ELSE NoValue
        BY <2>2, LatestIs
    <2>4. x \in Values /\ x[1] \in 1..v /\ x[2] \in DOMAIN l[x[1]].muts
          /\ l[x[1]].muts[x[2]].index = i
        BY <2>2 DEF IsLast, Touching
    <2> HIDE DEF T
    <2> QED BY <2>2, <2>3, <2>4 DEF T
<1> QED BY <1>1, <1>2

\* Before the first patch no index has a value.
LEMMA LatestAtZero ==
    ASSUME NEW l \in Seq(Patch), NEW i
    PROVE  LatestAt(l, i, 0) = NoValue
<1>1. Touching(l, i, 0) = {}
    BY DEF Touching
<1>2. 0 \in 0..Len(l)
    OBVIOUS
<1> QED BY <1>1, <1>2, LatestNone

\* A patch that does not mention an index leaves its value.
LEMMA LatestUntouched ==
    ASSUME NEW l \in Seq(Patch), NEW v \in 1..Len(l), NEW i,
           \A k \in DOMAIN l[v].muts : l[v].muts[k].index # i
    PROVE  LatestAt(l, i, v) = LatestAt(l, i, v - 1)
<1>1. v \in 0..Len(l) /\ v - 1 \in 0..Len(l)
    OBVIOUS
<1>2. Touching(l, i, v) = Touching(l, i, v - 1)
    <2>1. \A n : n \in 1..v <=> n \in 1..(v - 1) \/ n = v
        OBVIOUS
    <2> QED BY <2>1 DEF Touching
<1>3. CASE Touching(l, i, v) = {}
    BY <1>1, <1>2, <1>3, LatestNone
<1>4. CASE Touching(l, i, v) # {}
    <2>1. Touching(l, i, v) \in SUBSET Values
        BY DEF Touching
    <2>2. PICK x : IsLast(Touching(l, i, v), x)
        BY <1>4, <2>1, LastExists
    <2> QED BY <1>1, <1>2, <2>2, LatestIs
<1> QED BY <1>3, <1>4

\* The last mutation of an index in a patch decides.
LEMMA LatestTouched ==
    ASSUME NEW l \in Seq(Patch), NEW v \in 1..Len(l), v <= MaxVersion, NEW i,
           NEW k \in DOMAIN l[v].muts, k \in {1, 2}, l[v].muts[k].index = i,
           \A j \in DOMAIN l[v].muts : j > k => l[v].muts[j].index # i
    PROVE  LatestAt(l, i, v) = IF l[v].muts[k].op = "set" THEN <<v, k>> ELSE NoValue
<1> DEFINE x == <<v, k>>
<1>1. v \in 0..Len(l) /\ v \in 1..MaxVersion /\ v \in 1..v
    BY AppStateAssumption
<1>2. x \in Values /\ x[1] = v /\ x[2] = k
    BY <1>1 DEF Values
<1> HIDE DEF x
<1>3. x \in Touching(l, i, v)
    BY <1>1, <1>2 DEF Touching
<1>4. ASSUME NEW y \in Touching(l, i, v) PROVE ~Before(x, y)
    <2>1. y[1] \in 1..v /\ y[2] \in DOMAIN l[y[1]].muts /\ l[y[1]].muts[y[2]].index = i
        BY DEF Touching
    <2>2. ~(y[1] > v)
        BY <2>1
    <2>3. y[1] = v => ~(y[2] > k)
        BY <2>1
    <2> QED BY <1>2, <2>2, <2>3 DEF Before
<1>5. IsLast(Touching(l, i, v), x)
    BY <1>3, <1>4 DEF IsLast
<1> QED BY <1>1, <1>2, <1>5, LatestIs DEF x

\* A log that only grows keeps the values of its versions.
LEMMA LatestStays ==
    ASSUME NEW l \in Seq(Patch), NEW m \in Seq(Patch), NEW v \in 0..Len(l), Len(l) <= Len(m),
           \A n \in 1..Len(l) : m[n] = l[n]
    PROVE  SubSeq(m, 1, v) = SubSeq(l, 1, v) /\ \A i : LatestAt(m, i, v) = LatestAt(l, i, v)
<1>1. v \in 0..Len(m)
    OBVIOUS
<1> DEFINE p == SubSeq(l, 1, v)
           q == SubSeq(m, 1, v)
<1>2. /\ p \in Seq(Patch) /\ q \in Seq(Patch) /\ Len(p) = v /\ Len(q) = v
      /\ \A n \in 1..v : p[n] = l[n] /\ q[n] = m[n] /\ n \in 1..Len(l)
    BY <1>1, PrefixFacts
<1> HIDE DEF p, q
<1>3. p = q
    BY <1>2
<1> QED BY <1>3 DEF p, q, LatestAt

-----------------------------------------------------------------------------
(* The rows of MACs                                                        *)

\* The rows of app_state_mutation_macs.
MACRows == [version : Versions, index : Indexes, value : Values]
\* A patch removes an index.
Removes(muts, i) == \E k \in DOMAIN muts : muts[k].op = "remove" /\ muts[k].index = i

\* Without a row of an index there is no previous value.
LEMMA NewestNone ==
    ASSUME NEW S, NEW i, \A r \in S : r.index # i
    PROVE  Newest(S, i) = NoValue
<1>1. {r \in S : r.index = i} = {}
    OBVIOUS
<1> QED BY <1>1 DEF Newest

\* Rows of other indexes do not matter.
LEMMA NewestSame ==
    ASSUME NEW S, NEW T, NEW i, {r \in S : r.index = i} = {r \in T : r.index = i}
    PROVE  Newest(S, i) = Newest(T, i)
<1> DEFINE A == {r \in S : r.index = i}
           B == {r \in T : r.index = i}
           N(R) == IF R = {} THEN NoValue
                   ELSE (CHOOSE r \in R : \A q \in R : q.version <= r.version).value
<1>1. A = B
    OBVIOUS
<1>2. Newest(S, i) = N(A) /\ Newest(T, i) = N(B)
    BY DEF Newest
<1> HIDE DEF A, B, N
<1> QED BY <1>1, <1>2

\* A row that is newer than the others of its index is the one found.
LEMMA NewestIs ==
    ASSUME NEW S \in SUBSET MACRows, NEW i, NEW r \in S, r.index = i,
           \A q \in S : q.index = i => q = r \/ q.version < r.version
    PROVE  Newest(S, i) = r.value
<1> DEFINE rows == {q \in S : q.index = i}
           c == CHOOSE p \in rows : \A q \in rows : q.version <= p.version
<1>1. \A q \in rows : q.version \in Int /\ (q = r \/ q.version < r.version)
    BY DEF MACRows, Versions
<1>2. r \in rows
    OBVIOUS
<1> HIDE DEF rows
<1>3. \A q \in rows : q.version <= r.version
    BY <1>1, <1>2
<1>4. c \in rows /\ \A q \in rows : q.version <= c.version
    BY <1>2, <1>3, Zenon
<1> HIDE DEF c
<1>5. c = r
    BY <1>1, <1>2, <1>4
<1>6. Newest(S, i) = IF rows = {} THEN NoValue ELSE c.value
    BY DEF Newest, rows, c
<1> QED BY <1>2, <1>5, <1>6

\* The rows R that patch v with its mutations adds: those of the SETs that no later
\* REMOVE takes back.
AddedBy(R, v, muts) ==
    /\ \A r \in R :
          /\ r \in MACRows /\ r.version = v
          /\ \E k \in DOMAIN muts : /\ muts[k].op = "set" /\ r.index = muts[k].index
                                    /\ r.value = <<v, k>>
                                    /\ \A j \in DOMAIN muts : j > k /\ muts[j].index = r.index
                                          => muts[j].op # "remove"
    /\ \A k \in DOMAIN muts :
          /\ muts[k].op = "set"
          /\ \A j \in DOMAIN muts : j > k /\ muts[j].index = muts[k].index => muts[j].op # "remove"
          => \E r \in R : r.index = muts[k].index /\ r.version = v /\ r.value = <<v, k>>

\* What decodeMutations leaves of a patch.
LEMMA PatchMACs ==
    ASSUME NEW l \in Seq(Patch), l = log, NEW v \in 1..Len(l), v <= MaxVersion,
           NEW muts, muts = l[v].muts, Len(muts) \in {1, 2},
           NEW item, item.version = v, ~item.snapshot
    PROVE  /\ AddedBy(AddedMACs(item), v, muts)
           /\ \A i \in Indexes : i \in RemovedMACs(item) <=> Removes(muts, i)
<1>1. l[v] \in Patch /\ v \in 1..MaxVersion /\ v \in Versions
    BY AppStateAssumption DEF Versions
<1>2. muts \in Seq(Mutations) /\ DOMAIN muts \subseteq {1, 2}
    <2>1. muts \in Seq(Mutations)
        BY <1>1 DEF Patch
    <2> QED BY <2>1
<1>3. \A k \in DOMAIN muts : /\ muts[k] \in Mutations /\ muts[k].index \in Indexes
                             /\ muts[k].op \in {"set", "remove"}
                             /\ <<v, k>> \in Values /\ <<v, k>>[1] = v /\ <<v, k>>[2] = k
    <2>1. \A k \in DOMAIN muts : muts[k] \in Mutations
        BY <1>2
    <2> QED BY <1>1, <1>2, <2>1 DEF Mutations, Values
<1>4. SetsOf(item) = {x \in Values : x[1] = v /\ x[2] \in DOMAIN muts /\ muts[x[2]].op = "set"}
    BY DEF SetsOf, MutationAt
<1>5. AddedMACs(item) =
         {[version |-> v, index |-> muts[x[2]].index, value |-> x] :
             x \in {x \in SetsOf(item) : ~\E k \in DOMAIN muts :
                 k > x[2] /\ muts[k].op = "remove" /\ muts[k].index = muts[x[2]].index}}
    BY <1>4 DEF AddedMACs, MutationAt
<1>6. ASSUME NEW r \in AddedMACs(item)
      PROVE  /\ r \in MACRows /\ r.version = v
             /\ \E k \in DOMAIN muts : /\ muts[k].op = "set" /\ r.index = muts[k].index
                                       /\ r.value = <<v, k>>
                                       /\ \A j \in DOMAIN muts : j > k /\ muts[j].index = r.index
                                             => muts[j].op # "remove"
    <2>1. PICK x \in SetsOf(item) :
              /\ ~\E k \in DOMAIN muts :
                     k > x[2] /\ muts[k].op = "remove" /\ muts[k].index = muts[x[2]].index
              /\ r = [version |-> v, index |-> muts[x[2]].index, value |-> x]
        BY <1>5
    <2>2. x \in Values /\ x[1] = v /\ x[2] \in DOMAIN muts /\ muts[x[2]].op = "set"
        BY <1>4
    <2>3. x = <<v, x[2]>>
        BY <2>2, ValueFacts
    <2>4. r.version = v /\ r.index = muts[x[2]].index /\ r.value = x
        BY <2>1
    <2>5. r \in MACRows
        BY <1>1, <1>3, <2>1, <2>2 DEF MACRows
    <2> QED BY <2>1, <2>2, <2>3, <2>4, <2>5
<1>7. ASSUME NEW k \in DOMAIN muts, muts[k].op = "set",
             \A j \in DOMAIN muts : j > k /\ muts[j].index = muts[k].index => muts[j].op # "remove"
      PROVE  \E r \in AddedMACs(item) : r.index = muts[k].index /\ r.version = v /\ r.value = <<v, k>>
    <2> DEFINE x == <<v, k>>
               r == [version |-> v, index |-> muts[x[2]].index, value |-> x]
    <2>1. x \in Values /\ x[1] = v /\ x[2] = k
        BY <1>3
    <2> HIDE DEF x
    <2>2. x \in SetsOf(item)
        BY <1>4, <1>7, <2>1
    <2>3. ~\E j \in DOMAIN muts : j > x[2] /\ muts[j].op = "remove" /\ muts[j].index = muts[x[2]].index
        BY <1>7, <2>1
    <2>4. r \in AddedMACs(item)
        BY <1>5, <2>2, <2>3
    <2>5. r.index = muts[k].index /\ r.version = v /\ r.value = x
        BY <2>1
    <2> QED BY <2>4, <2>5 DEF x
<1>8. ASSUME NEW i \in Indexes
      PROVE  i \in RemovedMACs(item) <=> Removes(muts, i)
    <2>1. RemovedMACs(item) = {m.index : m \in {muts[k] : k \in DOMAIN muts}
                                                \cap [op : {"remove"}, index : Indexes]}
        BY DEF RemovedMACs
    <2>2. \A k \in DOMAIN muts : muts[k] \in [op : {"remove"}, index : Indexes] <=> muts[k].op = "remove"
        BY <1>3 DEF Mutations
    <2>3. i \in RemovedMACs(item) <=> \E k \in DOMAIN muts :
              muts[k] \in [op : {"remove"}, index : Indexes] /\ i = muts[k].index
        BY <2>1
    <2> QED BY <2>2, <2>3 DEF Removes
<1>9. AddedBy(AddedMACs(item), v, muts)
    BY <1>6, <1>7 DEF AddedBy
<1> QED BY <1>8, <1>9

\* The last mutation of an index in a patch of one or two.
LEMMA LastToucher ==
    ASSUME NEW muts \in Seq(Mutations), Len(muts) \in {1, 2}, NEW i, NEW n \in DOMAIN muts,
           muts[n].index = i
    PROVE  \E k \in DOMAIN muts : /\ k \in {1, 2} /\ muts[k].index = i
                                 /\ \A j \in DOMAIN muts : j > k => muts[j].index # i
<1>1. DOMAIN muts = 1..Len(muts)
    OBVIOUS
<1>2. CASE 2 \in DOMAIN muts /\ muts[2].index = i
    BY <1>1, <1>2
<1>3. CASE ~(2 \in DOMAIN muts /\ muts[2].index = i)
    BY <1>1, <1>3
<1> QED BY <1>2, <1>3

\* storeMACs of a patch: the rows that are left and the new ones are those of its version.
LEMMA PatchStores ==
    ASSUME NEW l \in Seq(Patch), l = log, NEW v \in 1..Len(l), v <= MaxVersion,
           NEW muts, muts = l[v].muts, Len(muts) \in {1, 2},
           NEW item, item.version = v, ~item.snapshot,
           NEW S \in SUBSET MACRows, \A r \in S : r.version < v,
           NEW i \in Indexes,
           Newest(S, i) = IF Removes(muts, i) THEN NoValue ELSE LatestAt(l, i, v - 1),
           \A r, q \in AddedMACs(item) : r.index = q.index => r = q
    PROVE  Newest(S \cup AddedMACs(item), i) = LatestAt(l, i, v)
<1> DEFINE A == AddedMACs(item)
<1>0. AddedBy(A, v, muts)
    BY PatchMACs
<1> HIDE DEF A
<1>2. muts \in Seq(Mutations) /\ DOMAIN muts \subseteq {1, 2}
    <2>1. l[v] \in Patch
        OBVIOUS
    <2>2. muts \in Seq(Mutations)
        BY <2>1 DEF Patch
    <2> QED BY <2>2
<1>3. CASE \A k \in DOMAIN muts : muts[k].index # i
    <2>1. \A r \in A : r.index # i
        BY <1>0, <1>3 DEF AddedBy
    <2>2. {r \in S \cup A : r.index = i} = {r \in S : r.index = i}
        BY <2>1
    <2>3. Newest(S \cup A, i) = Newest(S, i)
        BY <2>2, NewestSame
    <2>4. ~Removes(muts, i)
        BY <1>3 DEF Removes
    <2>5. LatestAt(l, i, v) = LatestAt(l, i, v - 1)
        BY <1>3, LatestUntouched
    <2> QED BY <2>3, <2>4, <2>5 DEF A
<1>4. CASE \E k \in DOMAIN muts : muts[k].index = i
    <2>1. PICK k \in DOMAIN muts : /\ k \in {1, 2} /\ muts[k].index = i
                                  /\ \A j \in DOMAIN muts : j > k => muts[j].index # i
        BY <1>2, <1>4, LastToucher
    <2>2. LatestAt(l, i, v) = IF muts[k].op = "set" THEN <<v, k>> ELSE NoValue
        BY <2>1, LatestTouched
    <2>3. CASE muts[k].op = "set"
        <3>1. PICK r \in A : r.index = i /\ r.version = v /\ r.value = <<v, k>>
            BY <1>0, <2>1, <2>3 DEF AddedBy
        <3>2. S \cup A \in SUBSET MACRows /\ r \in S \cup A
            BY <1>0 DEF AddedBy
        <3>3. \A q \in S \cup A : q.index = i => q = r \/ q.version < r.version
            BY <1>0, <3>1 DEF A, AddedBy
        <3>4. Newest(S \cup A, i) = r.value
            <4> DEFINE U == S \cup A
            <4> HIDE DEF U
            <4>1. U \in SUBSET MACRows /\ r \in U
                  /\ \A q \in U : q.index = i => q = r \/ q.version < r.version
                BY <3>2, <3>3 DEF U
            <4>2. r.index = i
                BY <3>1
            <4>3. Newest(U, i) = r.value
                BY ONLY <4>1, <4>2, NewestIs, Zenon
            <4> QED BY <4>3 DEF U
        <3> QED BY <2>2, <2>3, <3>1, <3>4 DEF A
    <2>4. CASE muts[k].op # "set"
        <3>1. muts[k].op = "remove"
            <4>1. muts[k] \in Mutations
                BY <1>2
            <4> QED BY <2>4, <4>1 DEF Mutations
        <3>2. ASSUME NEW r \in A PROVE r.index # i
            <4>1. PICK n \in DOMAIN muts : /\ muts[n].op = "set" /\ r.index = muts[n].index
                                          /\ \A j \in DOMAIN muts : j > n /\ muts[j].index = r.index
                                                => muts[j].op # "remove"
                BY <1>0 DEF AddedBy
            <4>2. SUFFICES ASSUME r.index = i PROVE FALSE
                OBVIOUS
            <4>3. ~(k > n) /\ ~(n > k) /\ n # k
                BY <2>1, <3>1, <4>1, <4>2
            <4>4. n \in {1, 2} /\ k \in {1, 2}
                BY <1>2
            <4> QED BY <4>3, <4>4
        <3>3. {r \in S \cup A : r.index = i} = {r \in S : r.index = i}
            BY <3>2
        <3>4. Newest(S \cup A, i) = Newest(S, i)
            BY <3>3, NewestSame
        <3>5. Removes(muts, i)
            BY <2>1, <3>1 DEF Removes
        <3> QED BY <2>2, <2>4, <3>4, <3>5 DEF A
    <2> QED BY <2>3, <2>4
<1> QED BY <1>3, <1>4

\* The records of a snapshot.
LEMMA SnapshotMACs ==
    ASSUME NEW l \in Seq(Patch), l = log, NEW v \in 1..Len(l), v <= MaxVersion,
           NEW item, item.version = v, item.snapshot
    PROVE  /\ \A r \in AddedMACs(item) :
                 r \in MACRows /\ r.version = v /\ r.value = LatestAt(l, r.index, v)
           /\ \A i \in Indexes : LatestAt(l, i, v) # NoValue =>
                 \E r \in AddedMACs(item) : r.index = i /\ r.value = LatestAt(l, i, v)
           /\ RemovedMACs(item) = {}
<1>0. v \in 0..Len(l) /\ v \in Versions
    BY AppStateAssumption DEF Versions
<1>1. Live(v) = {x \in Values : \E i \in Indexes : LatestAt(l, i, v) = x}
    BY DEF Live, Latest, LatestAt
<1>2. AddedMACs(item) = {[version |-> v, index |-> l[x[1]].muts[x[2]].index, value |-> x] : x \in Live(v)}
    BY DEF AddedMACs, SetsOf, MutationAt
<1>3. ASSUME NEW x \in Values, NEW i \in Indexes, LatestAt(l, i, v) = x
      PROVE  l[x[1]].muts[x[2]].index = i
    <2>1. LatestAt(l, i, v) # NoValue
        BY <1>3, ValueFacts
    <2> QED BY <1>0, <1>3, <2>1, LatestFacts
<1>4. ASSUME NEW r \in AddedMACs(item)
      PROVE  r \in MACRows /\ r.version = v /\ r.value = LatestAt(l, r.index, v)
    <2>1. PICK x \in Live(v) : r = [version |-> v, index |-> l[x[1]].muts[x[2]].index, value |-> x]
        BY <1>2
    <2>2. PICK i \in Indexes : x \in Values /\ LatestAt(l, i, v) = x
        BY <1>1
    <2>3. r = [version |-> v, index |-> i, value |-> x]
        BY <1>3, <2>1, <2>2
    <2> QED BY <1>0, <2>2, <2>3 DEF MACRows
<1>5. ASSUME NEW i \in Indexes, LatestAt(l, i, v) # NoValue
      PROVE  \E r \in AddedMACs(item) : r.index = i /\ r.value = LatestAt(l, i, v)
    <2> DEFINE x == LatestAt(l, i, v)
               r == [version |-> v, index |-> l[x[1]].muts[x[2]].index, value |-> x]
    <2>1. x \in Values
        BY <1>0, <1>5, LatestFacts
    <2>2. x \in Live(v) /\ l[x[1]].muts[x[2]].index = i
        BY <1>1, <1>3, <2>1
    <2> HIDE DEF x
    <2>3. r \in AddedMACs(item) /\ r.index = i /\ r.value = x
        BY <1>2, <2>2
    <2> QED BY <2>3 DEF x
<1>6. RemovedMACs(item) = {}
    BY DEF RemovedMACs
<1> QED BY <1>4, <1>5, <1>6

\* storeMACs of a snapshot on an empty table.
LEMMA SnapshotStores ==
    ASSUME NEW l \in Seq(Patch), l = log, NEW v \in 1..Len(l), v <= MaxVersion,
           NEW item, item.version = v, item.snapshot, NEW i \in Indexes
    PROVE  Newest(AddedMACs(item), i) = LatestAt(l, i, v)
<1> DEFINE A == AddedMACs(item)
<1>1. /\ \A r \in A : r \in MACRows /\ r.version = v /\ r.value = LatestAt(l, r.index, v)
      /\ LatestAt(l, i, v) # NoValue => \E r \in A : r.index = i /\ r.value = LatestAt(l, i, v)
    <2>1. \A r \in AddedMACs(item) : r \in MACRows /\ r.version = v /\ r.value = LatestAt(l, r.index, v)
        BY SnapshotMACs
    <2>2. \A j \in Indexes : LatestAt(l, j, v) # NoValue =>
                 \E r \in AddedMACs(item) : r.index = j /\ r.value = LatestAt(l, j, v)
        BY SnapshotMACs
    <2> QED BY <2>1, <2>2
<1> HIDE DEF A
<1>2. CASE LatestAt(l, i, v) = NoValue
    <2>1. \A r \in A : r.value # NoValue
        BY <1>1, ValueFacts DEF MACRows
    <2>2. \A r \in A : r.index # i
        BY <1>1, <1>2, <2>1
    <2> QED BY <1>2, <2>2, NewestNone DEF A
<1>3. CASE LatestAt(l, i, v) # NoValue
    <2>1. PICK r \in A : r.index = i /\ r.value = LatestAt(l, i, v)
        BY <1>1, <1>3
    <2>2. \A q \in A : q.index = i => q = r
        BY <1>1, <2>1 DEF MACRows
    <2>3. A \in SUBSET MACRows
        BY <1>1
    <2>4. Newest(A, i) = r.value
        BY <2>1, <2>2, <2>3, NewestIs, Zenon
    <2> QED BY <2>1, <2>4 DEF A
<1> QED BY <1>2, <1>3

-----------------------------------------------------------------------------
(* The hash of a patch                                                     *)

\* The previous values that validatePatch finds in a patch of one or two mutations.
LEMMA PreviousFacts ==
    ASSUME NEW v \in Nat, NEW muts \in Seq(Mutations), Len(muts) \in {1, 2}
    PROVE  /\ PreviousInPatch(v, muts)[1] = Newest(macs, muts[1].index)
           /\ 2 \in DOMAIN muts => PreviousInPatch(v, muts)[2] =
                 IF muts[1].index = muts[2].index
                 THEN IF muts[1].op = "set" THEN <<v, 1>> ELSE NoValue
                 ELSE Newest(macs, muts[2].index)
<1> DEFINE E(k) == {j \in DOMAIN muts : j < k /\ muts[j].index = muts[k].index}
           P(k) == IF E(k) = {} THEN GetAppStateMutationMAC(muts[k].index)
                   ELSE LET j == CHOOSE j \in E(k) : \A n \in E(k) : n <= j IN
                        IF muts[j].op = "set" THEN <<v, j>> ELSE NoValue
<1>1. DOMAIN muts = 1..Len(muts) /\ 1 \in DOMAIN muts
    OBVIOUS
<1>2. \A k \in DOMAIN muts : PreviousInPatch(v, muts)[k] = P(k)
    BY Zenon DEF PreviousInPatch
<1>3. \A i : GetAppStateMutationMAC(i) = Newest(macs, i)
    BY Zenon DEF GetAppStateMutationMAC, Newest
<1>4. E(1) = {}
    BY <1>1
<1>5. PreviousInPatch(v, muts)[1] = Newest(macs, muts[1].index)
    BY <1>1, <1>2, <1>3, <1>4
<1>6. ASSUME 2 \in DOMAIN muts
      PROVE  PreviousInPatch(v, muts)[2] =
                 IF muts[1].index = muts[2].index
                 THEN IF muts[1].op = "set" THEN <<v, 1>> ELSE NoValue
                 ELSE Newest(macs, muts[2].index)
    <2>1. E(2) = IF muts[1].index = muts[2].index THEN {1} ELSE {}
        BY <1>1, <1>6
    <2>2. CASE muts[1].index = muts[2].index
        <3>1. E(2) = {1}
            BY <2>1, <2>2
        <3> HIDE DEF E
        <3>2. (CHOOSE j \in E(2) : \A n \in E(2) : n <= j) = 1
            BY <3>1
        <3> QED BY <1>2, <1>6, <2>2, <3>1, <3>2
    <2>3. CASE muts[1].index # muts[2].index
        BY <1>2, <1>3, <1>6, <2>1, <2>3
    <2> QED BY <2>2, <2>3
<1> QED BY <1>5, <1>6

\* What a condition counts in a hash.
Bit(b) == IF b THEN 1 ELSE 0

\* The hash after a patch, computed from the one before it with the previous values
\* of the store, is the one the log gives: validatePatch and the sender agree.
LEMMA PatchHash ==
    ASSUME NEW l \in Seq(Patch), NEW v \in 1..Len(l), v <= MaxVersion,
           NEW muts, muts = l[v].muts, Len(muts) \in {1, 2},
           \A i \in Indexes : Newest(macs, i) = LatestAt(l, i, v - 1)
    PROVE  updateHash(HashOf(SubSeq(l, 1, v - 1)), v, muts, PreviousInPatch(v, muts))
              = HashOf(SubSeq(l, 1, v))
<1> DEFINE prev == PreviousInPatch(v, muts)
           Lives(u, x) == \E i \in Indexes : LatestAt(l, i, u) = x
           Sets(x) == x[1] = v /\ x[2] \in DOMAIN muts /\ muts[x[2]].op = "set"
           Drops(x) == \E k \in DOMAIN muts : prev[k] = x
<1>0. /\ v \in 0..Len(l) /\ v - 1 \in 0..Len(l) /\ v \in Nat
      /\ muts \in Seq(Mutations) /\ DOMAIN muts = 1..Len(muts) /\ 1 \in DOMAIN muts
      /\ DOMAIN muts \subseteq {1, 2}
    <2>1. l[v] \in Patch
        OBVIOUS
    <2>2. muts \in Seq(Mutations)
        BY <2>1 DEF Patch
    <2> QED BY <2>2
<1>1. \A k \in DOMAIN muts : muts[k].index \in Indexes
    <2>1. \A k \in DOMAIN muts : muts[k] \in Mutations
        BY <1>0
    <2> QED BY <2>1 DEF Mutations
<1>2. /\ prev[1] = LatestAt(l, muts[1].index, v - 1)
      /\ 2 \in DOMAIN muts => prev[2] =
            IF muts[1].index = muts[2].index
            THEN IF muts[1].op = "set" THEN <<v, 1>> ELSE NoValue
            ELSE LatestAt(l, muts[2].index, v - 1)
    BY <1>0, <1>1, PreviousFacts
<1> HIDE DEF prev
\* What the index of a value is.
<1>3. ASSUME NEW x \in Values, NEW i, NEW u \in {v - 1, v}, LatestAt(l, i, u) = x
      PROVE  /\ IsLast(Touching(l, i, u), x) /\ l[x[1]].muts[x[2]].op = "set"
             /\ x[1] \in 1..u /\ x[2] \in DOMAIN l[x[1]].muts /\ l[x[1]].muts[x[2]].index = i
    <2>1. LatestAt(l, i, u) # NoValue /\ u \in 0..Len(l)
        BY <1>0, <1>3, ValueFacts
    <2> QED BY <1>3, <2>1, LatestFacts
<1>4. ASSUME NEW x \in Values
      PROVE  ~(2 \in DOMAIN muts /\ prev[1] = x /\ prev[2] = x)
    <2> SUFFICES ASSUME 2 \in DOMAIN muts, prev[1] = x, prev[2] = x PROVE FALSE
        OBVIOUS
    <2>1. l[x[1]].muts[x[2]].index = muts[1].index /\ x[1] \in 1..(v - 1)
        <3>1. LatestAt(l, muts[1].index, v - 1) = x
            BY <1>2
        <3> QED BY <1>3, <3>1
    <2>2. x # <<v, 1>> /\ x # NoValue
        BY <2>1, ValueFacts
    <2>3. muts[1].index # muts[2].index /\ x = LatestAt(l, muts[2].index, v - 1)
        BY <1>2, <2>2
    <2>4. l[x[1]].muts[x[2]].index = muts[2].index
        BY <1>3, <2>3
    <2> QED BY <2>1, <2>3, <2>4
<1>5. ASSUME NEW x \in Values
      PROVE  Cardinality({k \in DOMAIN muts : prev[k] = x}) = Bit(Drops(x))
    <2> DEFINE D == {k \in DOMAIN muts : prev[k] = x}
    <2>1. CASE D = {}
        <3>1. ~Drops(x)
            BY <2>1
        <3>2. Cardinality(D) = 0
            BY <2>1, FS_EmptySet
        <3> QED BY <3>1, <3>2 DEF Bit
    <2>2. CASE D # {}
        <3>1. PICK k \in DOMAIN muts : prev[k] = x
            BY <2>2
        <3>2. D = {k}
            BY <1>0, <1>4, <3>1
        <3>3. Cardinality(D) = 1
            <4> HIDE DEF D
            <4> QED BY <3>2, FS_Singleton
        <3>4. Drops(x)
            BY <3>1
        <3> QED BY <3>3, <3>4 DEF Bit
    <2> QED BY <2>1, <2>2
\* A value is dropped by the patch only if it is alive or new.
<1>6. ASSUME NEW x \in Values, x[1] # v
      PROVE  /\ ~Sets(x) /\ (Drops(x) => Lives(v - 1, x))
             /\ Lives(v, x) <=> Lives(v - 1, x) /\ ~Drops(x)
    <2>0. ~Sets(x)
        BY <1>6
    <2>1. x # NoValue /\ x # <<v, 1>>
        BY <1>6, ValueFacts
    <2>2. ASSUME NEW k \in DOMAIN muts, prev[k] = x
          PROVE  LatestAt(l, muts[k].index, v - 1) = x
        BY <1>0, <1>2, <2>1, <2>2
    <2>3. Drops(x) => Lives(v - 1, x)
        BY <1>1, <2>2
    <2>4. ASSUME Lives(v, x) PROVE Lives(v - 1, x) /\ ~Drops(x)
        <3>1. PICK i \in Indexes : LatestAt(l, i, v) = x
            BY <2>4
        <3>2. l[x[1]].muts[x[2]].index = i
            BY <1>3, <3>1
        <3>3. \A k \in DOMAIN muts : muts[k].index # i
            <4> SUFFICES ASSUME NEW n \in DOMAIN muts, muts[n].index = i PROVE FALSE
                OBVIOUS
            <4>1. PICK k \in DOMAIN muts : /\ k \in {1, 2} /\ muts[k].index = i
                                          /\ \A j \in DOMAIN muts : j > k => muts[j].index # i
                BY <1>0, LastToucher
            <4>2. LatestAt(l, i, v) = IF muts[k].op = "set" THEN <<v, k>> ELSE NoValue
                BY <4>1, LatestTouched
            <4>3. x = <<v, k>>
                BY <2>1, <3>1, <4>2
            <4> QED BY <1>6, <4>3
        <3>4. LatestAt(l, i, v - 1) = x
            BY <3>1, <3>3, LatestUntouched
        <3>5. ASSUME NEW k \in DOMAIN muts, prev[k] = x PROVE FALSE
            <4>1. l[x[1]].muts[x[2]].index = muts[k].index
                BY <1>3, <2>2, <3>5
            <4> QED BY <3>2, <3>3, <4>1
        <3> QED BY <3>4, <3>5
    <2>5. ASSUME Lives(v - 1, x), ~Drops(x) PROVE Lives(v, x)
        <3>1. PICK i \in Indexes : LatestAt(l, i, v - 1) = x
            BY <2>5
        <3>2. \A k \in DOMAIN muts : muts[k].index # i
            <4>1. muts[1].index # i
                BY <1>0, <1>2, <2>5, <3>1
            <4>2. 2 \in DOMAIN muts => muts[2].index # i
                BY <1>0, <1>2, <2>5, <3>1, <4>1
            <4> QED BY <1>0, <4>1, <4>2
        <3>3. LatestAt(l, i, v) = x
            BY <3>1, <3>2, LatestUntouched
        <3> QED BY <3>3
    <2> QED BY <2>0, <2>3, <2>4, <2>5
<1>7. ASSUME NEW x \in Values, x[1] = v
      PROVE  /\ ~Lives(v - 1, x) /\ (Drops(x) => Sets(x))
             /\ Lives(v, x) <=> Sets(x) /\ ~Drops(x)
    <2>1. x = <<v, x[2]>> /\ x[2] \in {1, 2} /\ x # NoValue
        BY <1>7, ValueFacts
    <2>2. \A i : LatestAt(l, i, v - 1) # x
        BY <1>0, <1>3, <1>7
    <2>3. ~Lives(v - 1, x)
        BY <2>2
    <2>4. ASSUME NEW k \in DOMAIN muts, prev[k] = x
          PROVE  /\ k = 2 /\ 2 \in DOMAIN muts /\ x = <<v, 1>> /\ muts[1].op = "set"
                 /\ muts[1].index = muts[2].index
        BY <1>0, <1>2, <2>1, <2>2, <2>4
    <2>5. Drops(x) => Sets(x)
        BY <1>0, <1>7, <2>1, <2>4
    <2>6. ASSUME Lives(v, x) PROVE Sets(x) /\ ~Drops(x)
        <3>1. PICK i \in Indexes : LatestAt(l, i, v) = x
            BY <2>6
        <3>2. /\ IsLast(Touching(l, i, v), x) /\ muts[x[2]].op = "set" /\ x[2] \in DOMAIN muts
              /\ muts[x[2]].index = i
            BY <1>3, <1>7, <3>1
        <3>3. ASSUME NEW k \in DOMAIN muts, prev[k] = x PROVE FALSE
            <4>1. x[2] = 1 /\ 2 \in DOMAIN muts /\ muts[2].index = i
                BY <2>1, <2>4, <3>2, <3>3
            <4> DEFINE y == <<v, 2>>
            <4>2. y \in Values /\ y[1] = v /\ y[2] = 2
                BY <1>0, AppStateAssumption DEF Values
            <4> HIDE DEF y
            <4>3. y \in Touching(l, i, v)
                BY <1>0, <4>1, <4>2 DEF Touching
            <4>4. Before(x, y)
                BY <1>7, <4>1, <4>2 DEF Before
            <4> QED BY <3>2, <4>3, <4>4 DEF IsLast
        <3> QED BY <1>7, <3>2, <3>3
    <2>7. ASSUME Sets(x), ~Drops(x) PROVE Lives(v, x)
        <3> DEFINE k == x[2]
                   i == muts[k].index
        <3>1. k \in DOMAIN muts /\ k \in {1, 2} /\ i \in Indexes /\ muts[k].op = "set"
            BY <1>1, <2>1, <2>7
        <3>2. ASSUME NEW j \in DOMAIN muts, j > k PROVE muts[j].index # i
            <4>1. k = 1 /\ j = 2
                BY <1>0, <3>1, <3>2
            <4>2. x = <<v, 1>>
                BY <2>1, <4>1
            <4> QED BY <1>2, <2>7, <3>1, <4>1, <4>2
        <3>3. LatestAt(l, i, v) = <<v, k>>
            BY <3>1, <3>2, LatestTouched
        <3> QED BY <2>1, <3>1, <3>3
    <2> QED BY <2>3, <2>5, <2>6, <2>7
<1>8. ASSUME NEW x \in Values
      PROVE  Bit(Lives(v - 1, x)) + Bit(Sets(x)) - Bit(Drops(x)) = Bit(Lives(v, x))
    <2>1. CASE x[1] = v
        BY <1>7, <2>1 DEF Bit
    <2>2. CASE x[1] # v
        BY <1>6, <2>2 DEF Bit
    <2> QED BY <2>1, <2>2
<1> DEFINE h == HashOf(SubSeq(l, 1, v - 1))
           g == HashOf(SubSeq(l, 1, v))
<1>9. \A x \in Values : h[x] = Bit(Lives(v - 1, x)) /\ g[x] = Bit(Lives(v, x))
    BY Zenon DEF HashOf, LatestAt, Bit
<1>10. g = [x \in Values |-> g[x]]
    BY DEF HashOf
<1>11. updateHash(h, v, muts, prev) =
          [x \in Values |-> h[x] + Bit(Sets(x)) - Cardinality({k \in DOMAIN muts : prev[k] = x})]
    BY DEF updateHash, Bit
<1> HIDE DEF h, g, Lives, Sets, Drops
<1>12. \A x \in Values : h[x] + Bit(Sets(x)) - Cardinality({k \in DOMAIN muts : prev[k] = x}) = g[x]
    BY <1>5, <1>8, <1>9
<1>13. updateHash(h, v, muts, prev) = g
    BY <1>10, <1>11, <1>12
<1> QED BY <1>13 DEF h, g, prev
-----------------------------------------------------------------------------
(* The invariant about the MACs                                            *)

\* The rest of the type invariant.
RestTyped ==
    /\ macs \subseteq MACRows
    /\ pending \subseteq AllKeys /\ requested \subseteq AllKeys
    /\ cache \in [Indexes -> Values \cup {NoValue}]
    /\ calls \in 0..MaxCalls /\ faults \in 0..MaxFaults
    /\ disturbed \in BOOLEAN

\* appStateSyncLock is held by the operation that fetches.
Held(o) ==
    /\ o.mode = "fetch"
    /\ o.pc \in {"version", "fetch", "apply", "putVersion", "deleteMACs", "putMACs"}
LockInv ==
    /\ lock \in Workers \cup {Nobody}
    /\ \A w \in Workers : lock = w <=> Held(worker[w])

\* What is sent was given to SendAppState, and the patches of the log are edits.
Sending(o) ==
    /\ o.pc \in {"read", "encode", "post"} => o.mode = "conflict"
    /\ o.mode = "conflict" => o.edit \in Edits
EditInv ==
    /\ \A v \in 1..Len(log) : log[v].muts \in Edits
    /\ \A w \in Workers : Sending(worker[w])

\* The hash that goes with a version: of the empty collection, or signed.
HashFor(l, v, h) == IF v = 0 THEN h = ZeroHash ELSE h = l[v].hash

\* An operation carries a version with its hash.  A snapshot comes first and on an
\* empty state; while an item is stored it is the head of the list; a recovery has
\* one item, a snapshot.
InStore == {"putVersion", "deleteMACs", "putMACs"}
Recovering(o) ==
    /\ o.pc = "reset" => o.mode = "recovery"
    /\ o.mode = "recovery" =>
          /\ o.pc \in {"reset", "apply"} \cup InStore
          /\ o.pc = "apply" => o.list = <<>>
          /\ o.pc \in InStore \cup {"reset"} =>
                o.base = 0 /\ o.list = <<[version |-> o.version, snapshot |-> TRUE]>>
Carrying(l, o) ==
    /\ HashFor(l, o.version, o.hash)
    /\ \A n \in DOMAIN o.list : o.list[n].snapshot => n = 1
    /\ o.pc = "apply" /\ o.list # <<>> /\ Head(o.list).snapshot => o.version = 0
    /\ o.pc \in InStore => Head(o.list).version = o.version
    /\ o.pc \in InStore /\ Head(o.list).snapshot => o.base = 0
    /\ Recovering(o)
CarryInv ==
    /\ HashFor(log, version, hash)
    /\ \A w \in Workers : Carrying(log, worker[w])

\* The rows S are those of version v, and none is newer.
NoneNewer(S, v) == \A r \in S : r.version \in 1..v
Follow(l, S, v) == NoneNewer(S, v) /\ \A i \in Indexes : Newest(S, i) = LatestAt(l, i, v)

\* In the middle of storeMACs: a snapshot finds no rows; those that a patch finds are the
\* rows of its base, and then the ones among them that it does not remove.
Half(l, S, v, o) ==
    /\ v = o.version
    /\ Head(o.list).snapshot => S = {}
    /\ ~Head(o.list).snapshot =>
          /\ o.version = o.base + 1 /\ NoneNewer(S, o.base)
          /\ \A i \in Indexes : Newest(S, i) =
                IF o.pc = "putMACs" /\ Removes(l[o.version].muts, i) THEN NoValue
                ELSE LatestAt(l, i, o.base)

\* What the MACs are as long as nobody was disturbed.
StoringPCs == {"deleteMACs", "putMACs"}
MACInv ==
    ~disturbed =>
        /\ \A u, w \in Workers :
              worker[u].pc \in StoringPCs /\ worker[w].pc \in StoringPCs => u = w
        /\ (\A w \in Workers : worker[w].pc \notin StoringPCs) => Follow(log, macs, version)
        /\ \A w \in Workers : worker[w].pc \in StoringPCs => Half(log, macs, version, worker[w])

JInv == RestTyped /\ LockInv /\ EditInv /\ CarryInv /\ MACInv

-----------------------------------------------------------------------------
(* Frames                                                                  *)

\* An idle operation.
LEMMA IdleFacts ==
    ASSUME NEW l
    PROVE  /\ Sending(Idle) /\ Carrying(l, Idle) /\ ~Held(Idle) /\ Idle.pc = "idle"
           /\ Idle.list = <<>> /\ Idle.version = 0 /\ Idle.hash = ZeroHash /\ Idle.base = 0
           /\ Idle.mode = "fetch"
<1>1. /\ Idle.pc = "idle" /\ Idle.mode = "fetch" /\ Idle.version = 0 /\ Idle.hash = ZeroHash
      /\ Idle.list = <<>> /\ Idle.base = 0
    BY DEF Idle
<1>2. DOMAIN Idle.list = {}
    BY <1>1
<1> QED BY <1>1, <1>2 DEF Sending, Carrying, Recovering, HashFor, Held, InStore

\* What a growing log keeps.
Grows == /\ log' \in Seq(Patch) /\ Len(log) <= Len(log')
         /\ \A n \in 1..Len(log) : log'[n] = log[n]

\* An operation carries on what it carried.
LEMMA CarryGrows ==
    ASSUME log \in Seq(Patch), Grows, NEW o, o.version \in 0..Len(log), Carrying(log, o)
    PROVE  Carrying(log', o)
<1>1. o.version # 0 => log'[o.version] = log[o.version]
    BY DEF Grows
<1>2. HashFor(log', o.version, o.hash)
    BY <1>1 DEF Carrying, HashFor
<1> QED BY <1>2 DEF Carrying

\* The rows of a version stay its rows.
LEMMA FollowGrows ==
    ASSUME log \in Seq(Patch), Grows, NEW S, NEW v \in 0..Len(log), Follow(log, S, v)
    PROVE  Follow(log', S, v)
<1>1. \A i : LatestAt(log', i, v) = LatestAt(log, i, v)
    BY LatestStays DEF Grows
<1> QED BY <1>1 DEF Follow

\* storeMACs goes on in the middle of what it was doing.
LEMMA HalfGrows ==
    ASSUME log \in Seq(Patch), Grows, NEW S, NEW v, NEW o, o.version \in 1..Len(log),
           o.base \in Nat, Half(log, S, v, o)
    PROVE  Half(log', S, v, o)
<1>1. log'[o.version] = log[o.version]
    BY DEF Grows
<1>2. o.version = o.base + 1 => o.base \in 0..Len(log)
    OBVIOUS
<1>3. o.version = o.base + 1 => \A i : LatestAt(log', i, o.base) = LatestAt(log, i, o.base)
    BY <1>2, LatestStays DEF Grows
<1> QED BY <1>1, <1>3 DEF Half

\* What the lock does when an operation goes on as o.
LockStep(w, o) ==
    \/ lock' = lock /\ (Held(o) <=> Held(worker[w]))
    \/ lock = Nobody /\ lock' = w /\ Held(o)
    \/ lock' = (IF lock = w THEN Nobody ELSE lock) /\ ~Held(o)

\* One operation goes on: the lock, the edits and what is carried.
LEMMA MoveRest ==
    ASSUME IInv, JInv, NEW w \in Workers, NEW o, worker' = [worker EXCEPT ![w] = o],
           UNCHANGED log, Sending(o), Carrying(log, o), LockStep(w, o)
    PROVE  LockInv' /\ EditInv' /\ (\A u \in Workers : Carrying(log', worker'[u]))
<1>1. \A u \in Workers : worker'[u] = IF u = w THEN o ELSE worker[u]
    BY DEF IInv, Typed
<1>2. Nobody \notin Workers
    BY AppStateAssumption
<1>3. LockInv'
    <2>1. lock \in Workers \cup {Nobody} /\ \A u \in Workers : lock = u <=> Held(worker[u])
        BY DEF JInv, LockInv
    <2>2. lock' \in Workers \cup {Nobody} /\ \A u \in Workers : lock' = u <=> Held(worker'[u])
        <3>1. CASE lock' = lock /\ (Held(o) <=> Held(worker[w]))
            BY <1>1, <2>1, <3>1
        <3>2. CASE lock = Nobody /\ lock' = w /\ Held(o)
            BY <1>1, <1>2, <2>1, <3>2
        <3>3. CASE lock' = (IF lock = w THEN Nobody ELSE lock) /\ ~Held(o)
            BY <1>1, <1>2, <2>1, <3>3
        <3> QED BY <3>1, <3>2, <3>3 DEF LockStep
    <2> QED BY <2>2 DEF LockInv
<1>4. EditInv'
    BY <1>1 DEF JInv, EditInv
<1>5. \A u \in Workers : Carrying(log', worker'[u])
    BY <1>1 DEF JInv, CarryInv
<1> QED BY <1>3, <1>4, <1>5

\* While an item is stored, its version is the one of the operation.
LEMMA HeadIsStored ==
    ASSUME JInv, NEW w \in Workers, worker[w].pc \in InStore
    PROVE  Head(worker[w].list).version = worker[w].version
BY DEF JInv, CarryInv, Carrying

\* The MACs of a step that stores nothing: nobody starts or ends storeMACs unnoticed.
LEMMA QuietMACs ==
    ASSUME IInv, JInv, Grows, UNCHANGED <<macs, version>>,
           ~disturbed' => /\ ~disturbed
                          /\ \A u \in Workers : \/ worker'[u] = worker[u]
                                                \/ /\ worker[u].pc \notin StoringPCs
                                                   /\ worker'[u].pc \notin StoringPCs
    PROVE  MACInv'
<1> SUFFICES ASSUME ~disturbed' PROVE
          /\ \A u, w \in Workers :
                worker'[u].pc \in StoringPCs /\ worker'[w].pc \in StoringPCs => u = w
          /\ (\A w \in Workers : worker'[w].pc \notin StoringPCs) => Follow(log', macs', version')
          /\ \A w \in Workers : worker'[w].pc \in StoringPCs => Half(log', macs', version', worker'[w])
    BY DEF MACInv
<1>m. MACInv
    BY DEF JInv
<1>0. log \in Seq(Patch) /\ version \in 0..Len(log) /\ macs' = macs /\ version' = version
    BY DEF IInv, Typed
<1>1. \A u \in Workers : /\ worker'[u].pc \in StoringPCs <=> worker[u].pc \in StoringPCs
                         /\ worker[u].pc \in StoringPCs => worker'[u] = worker[u]
    OBVIOUS
<1>2. \A u, w \in Workers : worker'[u].pc \in StoringPCs /\ worker'[w].pc \in StoringPCs => u = w
    BY <1>1, <1>m DEF MACInv
<1>3. (\A w \in Workers : worker'[w].pc \notin StoringPCs) => Follow(log', macs', version')
    BY <1>0, <1>1, <1>m, FollowGrows DEF MACInv
<1>4. ASSUME NEW w \in Workers, worker'[w].pc \in StoringPCs
      PROVE  Half(log', macs', version', worker'[w])
    <2>1. worker'[w] = worker[w] /\ Half(log, macs, version, worker[w])
        BY <1>1, <1>4, <1>m DEF MACInv
    <2>2. Good(worker[w]) /\ worker[w] \in Operations
        BY EachIsGood
    <2>3. worker[w].base \in Nat /\ worker[w].version \in Nat /\ Len(log) \in Nat
        BY <1>0, <2>2, AppStateAssumption DEF Operations, Versions
    <2>4. worker[w].version = version
        BY <2>1 DEF Half
    <2>5. worker[w].version \in 1..Len(log)
        <3>1. worker[w].list # <<>> /\ worker[w].list \in Seq(Items)
            BY <1>1, <1>4, <2>2 DEF Good, StoringPCs, Operations
        <3>2. Head(worker[w].list).version \in 1..Len(log)
            BY <2>2, <3>1 DEF Good
        <3> QED BY <1>1, <1>4, <3>2, HeadIsStored DEF StoringPCs, InStore
    <2> QED BY <1>0, <2>1, <2>3, <2>5, HalfGrows
<1> QED BY <1>2, <1>3, <1>4

\* The whole invariant but the types, for a step of one operation that stores nothing.
LEMMA QuietMove ==
    ASSUME IInv, JInv, NEW w \in Workers, NEW o, worker' = [worker EXCEPT ![w] = o],
           UNCHANGED <<log, macs, version, hash>>, Sending(o), Carrying(log, o), LockStep(w, o),
           ~disturbed' => ~disturbed /\ worker[w].pc \notin StoringPCs /\ o.pc \notin StoringPCs
    PROVE  LockInv' /\ EditInv' /\ CarryInv' /\ MACInv'
<1>1. LockInv' /\ EditInv' /\ \A u \in Workers : Carrying(log', worker'[u])
    BY MoveRest
<1>2. CarryInv'
    BY <1>1 DEF JInv, CarryInv
<1>3. Grows
    BY DEF Grows, IInv, Typed
<1>4. \A u \in Workers : worker'[u] = IF u = w THEN o ELSE worker[u]
    BY DEF IInv, Typed
<1>5. MACInv'
    BY <1>3, <1>4, QuietMACs
<1> QED BY <1>1, <1>2, <1>5

\* An operation returns.
LEMMA ReturnMove ==
    ASSUME IInv, JInv, NEW w \in Workers, Returns(w), UNCHANGED <<log, macs, version, hash>>,
           ~disturbed' => ~disturbed /\ worker[w].pc \notin StoringPCs
    PROVE  LockInv' /\ EditInv' /\ CarryInv' /\ MACInv'
<1>1. Sending(Idle) /\ Carrying(log, Idle) /\ ~Held(Idle) /\ Idle.pc = "idle"
    BY IdleFacts
<1>2. LockStep(w, Idle)
    BY <1>1 DEF LockStep, Returns
<1>3. worker' = [worker EXCEPT ![w] = Idle]
    BY DEF Returns
<1>4. Idle.pc \notin StoringPCs
    BY <1>1 DEF StoringPCs
<1> QED BY <1>1, <1>2, <1>3, <1>4, QuietMove

\* Somebody deletes the stored version: the store is empty, which is what version 0 is.
LEMMA ForgetMove ==
    ASSUME IInv, JInv, NEW w \in Workers, NEW o, worker' = [worker EXCEPT ![w] = o],
           UNCHANGED log, DeleteAppStateVersion, Sending(o), Carrying(log, o), LockStep(w, o),
           worker[w].pc \notin StoringPCs, o.pc \notin StoringPCs
    PROVE  LockInv' /\ EditInv' /\ CarryInv' /\ MACInv'
<1>1. LockInv' /\ EditInv' /\ \A u \in Workers : Carrying(log', worker'[u])
    BY MoveRest
<1>2. version' = 0 /\ hash' = ZeroHash /\ macs' = {} /\ disturbed' = (Storing # {})
    BY DEF DeleteAppStateVersion
<1>3. CarryInv'
    BY <1>1, <1>2 DEF CarryInv, HashFor
<1>4. \A u \in Workers : worker'[u] = IF u = w THEN o ELSE worker[u]
    BY DEF IInv, Typed
<1>5. MACInv'
    <2> SUFFICES ASSUME ~disturbed'
                 PROVE  /\ \A u \in Workers : worker'[u].pc \notin StoringPCs
                        /\ Follow(log', macs', version')
        BY DEF MACInv
    <2>1. \A u \in Workers : worker[u].pc \notin StoringPCs
        BY <1>2 DEF Storing, StoringPCs
    <2>2. \A u \in Workers : worker'[u].pc \notin StoringPCs
        BY <1>4, <2>1
    <2>3. \A i : Newest({}, i) = NoValue
        BY NewestNone
    <2>4. \A i : LatestAt(log, i, 0) = NoValue
        BY LatestAtZero DEF IInv, Typed
    <2>5. Follow(log', macs', version')
        BY <1>2, <2>3, <2>4 DEF Follow, NoneNewer
    <2> QED BY <2>2, <2>5
<1> QED BY <1>1, <1>3, <1>5

-----------------------------------------------------------------------------
(* The steps, and the invariant about the MACs                             *)

\* An operation starts with nothing, but for a recovery that carries its snapshot.
LEMMA StartKeeps ==
    ASSUME IInv, JInv, NEW w \in Workers, Starts(w)
    PROVE  LockInv' /\ EditInv' /\ CarryInv' /\ MACInv'
<1> USE DEF stored, keyring, Goes, Calls
<1>0. Idle \in Operations
    BY IdleIsGood DEF IInv, Typed, Good
<1>i. /\ Sending(Idle) /\ Carrying(log, Idle) /\ ~Held(Idle) /\ Idle.list = <<>>
      /\ Idle.version = 0 /\ Idle.hash = ZeroHash /\ Idle.base = 0 /\ Idle.mode = "fetch"
    BY IdleFacts
<1>d. DOMAIN Idle.list = {}
    BY <1>i
<1>w. worker[w].pc = "idle" => ~Held(worker[w]) /\ worker[w].pc \notin StoringPCs
    BY DEF Held, StoringPCs
<1>1. ASSUME NEW full \in BOOLEAN, NEW only \in BOOLEAN, FetchAppState(w, full, only)
      PROVE  LockInv' /\ EditInv' /\ CarryInv' /\ MACInv'
    <2> DEFINE o == [Idle EXCEPT !.pc = "lock", !.full = full, !.only = only]
    <2>1. /\ o.pc = "lock" /\ o.mode = "fetch" /\ o.version = 0 /\ o.hash = ZeroHash
          /\ o.list = <<>> /\ DOMAIN o.list = {}
        BY <1>0, <1>i, <1>d DEF Operations
    <2>2. worker' = [worker EXCEPT ![w] = o]
        BY <1>1 DEF FetchAppState
    <2> HIDE DEF o
    <2>3. Sending(o) /\ Carrying(log, o) /\ ~Held(o) /\ o.pc \notin StoringPCs
        BY <2>1 DEF Sending, Carrying, Recovering, HashFor, Held, InStore, StoringPCs
    <2>4. LockStep(w, o)
        BY <1>1, <1>w, <2>3 DEF LockStep, FetchAppState
    <2> QED BY <1>1, <1>w, <2>2, <2>3, <2>4, QuietMove DEF FetchAppState
<1>2. ASSUME NEW edit \in OwnEdits, SendAppState(w, edit)
      PROVE  LockInv' /\ EditInv' /\ CarryInv' /\ MACInv'
    <2> DEFINE o == [Idle EXCEPT !.pc = "read", !.mode = "conflict", !.retry = TRUE, !.edit = edit]
    <2>1. /\ o.pc = "read" /\ o.mode = "conflict" /\ o.version = 0 /\ o.hash = ZeroHash
          /\ o.list = <<>> /\ DOMAIN o.list = {} /\ o.edit = edit
        BY <1>0, <1>i, <1>d DEF Operations
    <2>2. worker' = [worker EXCEPT ![w] = o] /\ edit \in Edits
        BY <1>2, AppStateAssumption DEF SendAppState
    <2> HIDE DEF o
    <2>3. Sending(o) /\ Carrying(log, o) /\ ~Held(o) /\ o.pc \notin StoringPCs
        BY <2>1, <2>2 DEF Sending, Carrying, Recovering, HashFor, Held, InStore, StoringPCs
    <2>4. LockStep(w, o)
        BY <1>2, <1>w, <2>3 DEF LockStep, SendAppState
    <2> QED BY <1>2, <1>w, <2>2, <2>3, <2>4, QuietMove DEF SendAppState
<1>3. ASSUME NEW key \in AllKeys, handleAppStateSyncKeyShare(w, key)
      PROVE  LockInv' /\ EditInv' /\ CarryInv' /\ MACInv'
    <2> DEFINE o == [Idle EXCEPT !.pc = "lock", !.only = key \notin requested]
    <2>1. /\ o.pc = "lock" /\ o.mode = "fetch" /\ o.version = 0 /\ o.hash = ZeroHash
          /\ o.list = <<>> /\ DOMAIN o.list = {}
        BY <1>0, <1>i, <1>d DEF Operations
    <2>2. worker' = [worker EXCEPT ![w] = o]
        BY <1>3 DEF handleAppStateSyncKeyShare
    <2> HIDE DEF o
    <2>3. Sending(o) /\ Carrying(log, o) /\ ~Held(o) /\ o.pc \notin StoringPCs
        BY <2>1 DEF Sending, Carrying, Recovering, HashFor, Held, InStore, StoringPCs
    <2>4. LockStep(w, o)
        BY <1>3, <1>w, <2>3 DEF LockStep, handleAppStateSyncKeyShare
    <2> QED BY <1>3, <1>w, <2>2, <2>3, <2>4, QuietMove DEF handleAppStateSyncKeyShare
<1>4. ASSUME NEW v \in 1..Len(log), handleAppStateRecovery(w, v)
      PROVE  LockInv' /\ EditInv' /\ CarryInv' /\ MACInv'
    <2> DEFINE list == <<[version |-> v, snapshot |-> TRUE]>>
               o == [Idle EXCEPT !.pc = "reset", !.mode = "recovery", !.full = TRUE, !.version = v,
                                 !.hash = log[v].hash, !.list = list]
    <2>1. DOMAIN list = {1}
        OBVIOUS
    <2>2. worker' = [worker EXCEPT ![w] = o]
        BY <1>4 DEF handleAppStateRecovery
    <2>3. /\ o.pc = "reset" /\ o.mode = "recovery" /\ o.version = v /\ o.hash = log[v].hash
          /\ o.list = <<[version |-> v, snapshot |-> TRUE]>> /\ o.base = 0
        BY <1>0, <1>i DEF Operations
    <2>4. \A n \in DOMAIN o.list : n = 1
        BY <2>1, <2>3
    <2>5. HashFor(log, o.version, o.hash)
        BY <2>3 DEF HashFor
    <2> HIDE DEF o
    <2>6. Sending(o) /\ ~Held(o) /\ o.pc \notin StoringPCs
        BY <2>3 DEF Sending, Held, StoringPCs
    <2>7. Recovering(o)
        BY <2>3 DEF Recovering, InStore
    <2>8. o.pc \notin InStore /\ o.pc # "apply"
        BY <2>3 DEF InStore
    <2>9. Carrying(log, o)
        BY <2>4, <2>5, <2>7, <2>8 DEF Carrying
    <2>10. LockStep(w, o)
        BY <1>4, <1>w, <2>6 DEF LockStep, handleAppStateRecovery
    <2> QED BY <1>4, <1>w, <2>2, <2>6, <2>9, <2>10, QuietMove DEF handleAppStateRecovery
<1> QED BY <1>1, <1>2, <1>3, <1>4 DEF Starts

\* The items that the server answers with: a snapshot is the first of them.
LEMMA ParseFacts ==
    ASSUME NEW snapshot \in BOOLEAN, NEW from \in Nat, NEW to \in Nat, to >= from,
           NEW list, list = ParsePatchList(snapshot, from, to)
    PROVE  /\ \A n \in DOMAIN list : list[n].snapshot => n = 1 /\ snapshot
           /\ \A n \in DOMAIN Patches(from, to) : ~Patches(from, to)[n].snapshot
<1> DEFINE first == IF snapshot THEN <<[version |-> from, snapshot |-> TRUE]>> ELSE <<>>
           rest == Patches(from, to)
           R == [version : Nat, snapshot : BOOLEAN]
<1>1. to - from \in Nat
    OBVIOUS
<1>2. rest \in Seq(R) /\ \A n \in DOMAIN rest : ~rest[n].snapshot
    <2>1. \A n \in 1..(to - from) : [version |-> from + n, snapshot |-> FALSE] \in R
        BY <1>1
    <2>4. \A n \in DOMAIN rest : ~rest[n].snapshot
        BY DEF Patches
    <2> HIDE DEF R
    <2>2. rest \in [1..(to - from) -> R]
        BY <2>1 DEF Patches
    <2> HIDE DEF rest
    <2>3. rest \in Seq(R)
        BY <1>1, <2>2
    <2> QED BY <2>3, <2>4
<1>3. list = first \o rest
    BY DEF ParsePatchList
<1>4. /\ first \in Seq(R)
      /\ snapshot => Len(first) = 1
      /\ ~snapshot => Len(first) = 0
    <2> DEFINE item == [version |-> from, snapshot |-> TRUE]
    <2>1. item \in R
        OBVIOUS
    <2>2. CASE snapshot
        <3>1. first = <<item>>
            BY <2>2
        <3> HIDE DEF item, first, R
        <3> QED BY <2>1, <2>2, <3>1
    <2>3. CASE ~snapshot
        <3>1. first = <<>>
            BY <2>3
        <3> HIDE DEF first
        <3> QED BY <2>3, <3>1
    <2> QED BY <2>2, <2>3
<1> HIDE DEF first, rest, R
<1>5. ASSUME NEW n \in DOMAIN list, list[n].snapshot PROVE n = 1 /\ snapshot
    <2>1. n \in 1..(Len(first) + Len(rest)) /\ Len(first) \in Nat /\ Len(rest) \in Nat
        BY <1>2, <1>3, <1>4
    <2>2. CASE n > Len(first)
        <3>1. list[n] = rest[n - Len(first)] /\ n - Len(first) \in DOMAIN rest
            BY <1>2, <1>3, <1>4, <2>1, <2>2
        <3> QED BY <1>2, <1>5, <3>1
    <2>3. CASE n <= Len(first)
        <3>1. CASE snapshot
            <4>1. Len(first) = 1
                BY <1>4, <3>1
            <4>2. n = 1
                BY <2>1, <2>3, <4>1
            <4> QED BY <3>1, <4>2
        <3>2. CASE ~snapshot
            BY <1>4, <2>1, <2>3, <3>2
        <3> QED BY <3>1, <3>2
    <2> QED BY <2>1, <2>2, <2>3
<1> QED BY <1>2, <1>5 DEF rest

\* fetchAppState stores nothing, unless a full sync forgets the version.
LEMMA FetchKeeps ==
    ASSUME IInv, JInv, NEW w \in Workers, Fetches(w)
    PROVE  LockInv' /\ EditInv' /\ CarryInv' /\ MACInv'
<1>n. IInv'
    BY FetchStep
<1> USE DEF stored, keyring, Goes
<1>w. worker[w] \in Operations /\ Good(worker[w])
    BY EachIsGood
<1>c. Sending(worker[w]) /\ Carrying(log, worker[w]) /\ Recovering(worker[w])
    BY DEF JInv, EditInv, CarryInv, Carrying
<1>l. lock = w <=> Held(worker[w])
    BY DEF JInv, LockInv
<1>1. ASSUME LockSync(w) PROVE LockInv' /\ EditInv' /\ CarryInv' /\ MACInv'
    <2> DEFINE o == [worker[w] EXCEPT !.pc = "version", !.mode = "fetch"]
    <2>1. /\ o.pc = "version" /\ o.mode = "fetch" /\ o.version = worker[w].version
          /\ o.hash = worker[w].hash /\ o.list = worker[w].list
        BY <1>w DEF Operations
    <2>2. worker' = [worker EXCEPT ![w] = o] /\ log' = log /\ worker[w].pc = "lock"
        BY <1>1 DEF LockSync
    <2> HIDE DEF o
    <2>3. /\ Sending(o) /\ Carrying(log, o) /\ Held(o)
          /\ o.pc \notin StoringPCs /\ worker[w].pc \notin StoringPCs
        BY <1>c, <2>1, <2>2 DEF Sending, Carrying, Recovering, HashFor, Held, InStore, StoringPCs
    <2>4. LockStep(w, o)
        BY <1>1, <2>3 DEF LockStep, LockSync
    <2>5. CASE DeleteAppStateVersion
        BY <2>2, <2>3, <2>4, <2>5, ForgetMove
    <2>6. CASE UNCHANGED <<stored, disturbed>>
        BY <2>2, <2>3, <2>4, <2>6, QuietMove
    <2> QED BY <1>1, <2>5, <2>6 DEF LockSync
<1>2. ASSUME GetAppStateVersion(w) PROVE LockInv' /\ EditInv' /\ CarryInv' /\ MACInv'
    <2>0. worker[w].pc = "version" /\ worker[w].pc \notin StoringPCs
        BY <1>2 DEF GetAppStateVersion, StoringPCs
    <2>1. CASE Returns(w)
        BY <1>2, <2>0, <2>1, ReturnMove DEF GetAppStateVersion
    <2>2. CASE ~(version # 0 /\ worker[w].only)
        <3> DEFINE o == [worker[w] EXCEPT !.pc = "fetch", !.version = version, !.hash = hash,
                                          !.full = @ \/ version = 0,
                                          !.snap = worker[w].full \/ version = 0, !.only = FALSE]
        <3>1. /\ o.pc = "fetch" /\ o.mode = worker[w].mode /\ o.version = version /\ o.hash = hash
              /\ o.list = worker[w].list /\ o.edit = worker[w].edit
            BY <1>w DEF Operations
        <3>2. worker' = [worker EXCEPT ![w] = o] /\ lock' = lock
            BY <1>2, <2>2 DEF GetAppStateVersion
        <3> HIDE DEF o
        <3>3. HashFor(log, version, hash)
            BY DEF JInv, CarryInv
        <3>4. worker[w].mode # "recovery"
            BY <1>c, <2>0 DEF Recovering, InStore
        <3>5. Sending(o) /\ Carrying(log, o) /\ o.pc \notin StoringPCs
            BY <1>c, <3>1, <3>3, <3>4 DEF Sending, Carrying, Recovering, InStore, StoringPCs
        <3>6. LockStep(w, o)
            BY <2>0, <3>1, <3>2 DEF LockStep, Held
        <3> QED BY <1>2, <2>0, <3>2, <3>5, <3>6, QuietMove DEF GetAppStateVersion
    <2> QED BY <1>2, <2>1, <2>2 DEF GetAppStateVersion
<1>3. ASSUME fetchAppStatePatches(w) PROVE LockInv' /\ EditInv' /\ CarryInv' /\ MACInv'
    <2>0. worker[w].pc = "fetch" /\ worker[w].pc \notin StoringPCs
        BY <1>3 DEF fetchAppStatePatches, StoringPCs
    <2>1. CASE Returns(w)
        BY <1>3, <2>0, <2>1, ReturnMove DEF fetchAppStatePatches
    <2>2. CASE ~Returns(w)
        <3>1. PICK from \in (IF worker[w].snap THEN 0..Len(log) ELSE {worker[w].version}),
                   to \in 0..Len(log) :
                  /\ to >= from
                  /\ ~(worker[w].snap /\ from > 0 /\ worker[w].version # 0)
                  /\ worker' = [worker EXCEPT ![w] = [worker[w] EXCEPT
                         !.pc = "apply", !.snap = FALSE, !.more = to < Len(log),
                         !.list = ParsePatchList(worker[w].snap /\ from > 0, from, to)]]
                  /\ lock' = lock
            BY <1>3, <2>2 DEF fetchAppStatePatches
        <3>2. from \in Nat /\ to \in Nat /\ (worker[w].snap /\ from > 0) \in BOOLEAN
            BY <1>w, <3>1, AppStateAssumption DEF Operations, Versions, IInv, Typed
        <3> DEFINE list == ParsePatchList(worker[w].snap /\ from > 0, from, to)
                   o == [worker[w] EXCEPT !.pc = "apply", !.snap = FALSE, !.more = to < Len(log),
                                          !.list = list]
        <3>3. \A n \in DOMAIN list : list[n].snapshot => n = 1 /\ worker[w].snap /\ from > 0
            BY <3>1, <3>2, ParseFacts
        <3>4. worker' = [worker EXCEPT ![w] = o]
            BY <3>1
        <3> HIDE DEF list
        <3>5. /\ o.pc = "apply" /\ o.mode = worker[w].mode /\ o.version = worker[w].version
              /\ o.hash = worker[w].hash /\ o.list = list /\ o.edit = worker[w].edit
            BY <1>w DEF Operations
        <3> HIDE DEF o
        <3>6. list \in Seq(Items)
            <4>1. worker' \in [Workers -> Operations] /\ worker'[w] = o
                BY <1>n, <3>4 DEF IInv, Typed
            <4> QED BY <3>5, <4>1 DEF Operations
        <3>7. list # <<>> /\ Head(list).snapshot => worker[w].version = 0
            <4>1. list # <<>> => 1 \in DOMAIN list /\ Head(list) = list[1]
                BY <3>6
            <4> QED BY <3>1, <3>3, <4>1
        <3>8. worker[w].mode # "recovery"
            BY <1>c, <2>0 DEF Recovering, InStore
        <3>9. Sending(o) /\ Recovering(o) /\ o.pc \notin StoringPCs /\ o.pc \notin InStore
            BY <1>c, <3>5, <3>8 DEF Sending, Recovering, InStore, StoringPCs
        <3>10. Carrying(log, o)
            BY <1>c, <3>3, <3>5, <3>7, <3>9 DEF Carrying
        <3>11. LockStep(w, o)
            BY <2>0, <3>1, <3>5 DEF LockStep, Held
        <3> QED BY <1>3, <2>0, <3>4, <3>9, <3>10, <3>11, QuietMove DEF fetchAppStatePatches
    <2> QED BY <2>1, <2>2
<1> QED BY <1>1, <1>2, <1>3 DEF Fetches

\* A hash that was checked, or computed on the way, goes with its version.
LEMMA ApplyQuiet ==
    ASSUME IInv, JInv, NEW w \in Workers,
           MissingKey(w) \/ Decode(w) \/ collectEventsToDispatch(w)
    PROVE  LockInv' /\ EditInv' /\ CarryInv' /\ MACInv'
<1> USE DEF stored, keyring, Goes
<1>w. worker[w] \in Operations /\ Good(worker[w])
    BY EachIsGood
<1>c. Sending(worker[w]) /\ Carrying(log, worker[w]) /\ Recovering(worker[w])
    BY DEF JInv, EditInv, CarryInv, Carrying
<1>0. worker[w].pc = "apply" /\ worker[w].pc \notin StoringPCs
    BY DEF MissingKey, Decode, collectEventsToDispatch, StoringPCs
<1>1. ASSUME MissingKey(w) PROVE LockInv' /\ EditInv' /\ CarryInv' /\ MACInv'
    BY <1>0, <1>1, ReturnMove DEF MissingKey
<1>2. ASSUME Decode(w) PROVE LockInv' /\ EditInv' /\ CarryInv' /\ MACInv'
    <2>1. CASE Returns(w)
        BY <1>0, <1>2, <2>1, ReturnMove DEF Decode
    <2>2. CASE ~Returns(w)
        <3> DEFINE v == Head(worker[w].list).version
                   h == log[v].hash
                   o == [worker[w] EXCEPT !.pc = "putVersion", !.base = worker[w].version,
                                          !.version = v, !.hash = h]
        <3>1. /\ worker[w].list # <<>> /\ h = log[v].hash /\ worker' = [worker EXCEPT ![w] = o]
              /\ lock' = lock
            BY <1>2, <2>2 DEF Decode
        <3>2. v \in 1..Len(log)
            BY <1>w, <3>1 DEF Good, Operations
        <3> HIDE DEF h
        <3>3. /\ o.pc = "putVersion" /\ o.mode = worker[w].mode /\ o.version = v /\ o.hash = h
              /\ o.list = worker[w].list /\ o.edit = worker[w].edit /\ o.base = worker[w].version
            BY <1>w DEF Operations
        <3> HIDE DEF o
        <3>4. HashFor(log, o.version, o.hash)
            BY <3>1, <3>2, <3>3 DEF HashFor
        <3>5. worker[w].mode # "recovery"
            BY <1>0, <1>c, <3>1 DEF Recovering
        <3>6. Sending(o) /\ Recovering(o) /\ o.pc \notin StoringPCs /\ o.pc \in InStore
            BY <1>c, <3>3, <3>5 DEF Sending, Recovering, InStore, StoringPCs
        <3>7. Head(o.list).snapshot => o.base = 0
            BY <1>0, <1>c, <3>1, <3>3 DEF Carrying
        <3>8. Carrying(log, o)
            BY <1>c, <3>3, <3>4, <3>6, <3>7 DEF Carrying
        <3>9. LockStep(w, o)
            BY <1>0, <3>1, <3>3 DEF LockStep, Held
        <3> QED BY <1>0, <1>2, <3>1, <3>6, <3>8, <3>9, QuietMove DEF Decode
    <2> QED BY <2>1, <2>2
<1>3. ASSUME collectEventsToDispatch(w) PROVE LockInv' /\ EditInv' /\ CarryInv' /\ MACInv'
    <2>1. CASE Returns(w)
        BY <1>0, <1>3, <2>1, ReturnMove DEF collectEventsToDispatch
    <2>2. CASE /\ worker[w].mode = "fetch"
               /\ worker' = [worker EXCEPT ![w] = [worker[w] EXCEPT !.pc = "fetch", !.got = {}]]
               /\ lock' = lock
        <3> DEFINE o == [worker[w] EXCEPT !.pc = "fetch", !.got = {}]
        <3>1. /\ o.pc = "fetch" /\ o.mode = "fetch" /\ o.version = worker[w].version
              /\ o.hash = worker[w].hash /\ o.list = worker[w].list
            BY <1>w, <2>2 DEF Operations
        <3>2. worker' = [worker EXCEPT ![w] = o]
            BY <2>2
        <3> HIDE DEF o
        <3>3. Sending(o) /\ Carrying(log, o) /\ o.pc \notin StoringPCs
            BY <1>c, <3>1 DEF Sending, Carrying, Recovering, InStore, StoringPCs
        <3>4. LockStep(w, o)
            BY <1>0, <2>2, <3>1 DEF LockStep, Held
        <3> QED BY <1>0, <1>3, <3>2, <3>3, <3>4, QuietMove DEF collectEventsToDispatch
    <2>3. CASE /\ worker[w].mode = "conflict"
               /\ worker' = [worker EXCEPT ![w] = [Idle EXCEPT !.pc = "read", !.mode = "conflict",
                                                               !.edit = worker[w].edit]]
               /\ lock' = lock
        <3> DEFINE o == [Idle EXCEPT !.pc = "read", !.mode = "conflict", !.edit = worker[w].edit]
        <3>0. Idle \in Operations
            BY IdleIsGood DEF IInv, Typed, Good
        <3>i. Idle.list = <<>> /\ DOMAIN Idle.list = {} /\ Idle.version = 0 /\ Idle.hash = ZeroHash
            BY IdleFacts
        <3>1. /\ o.pc = "read" /\ o.mode = "conflict" /\ o.version = 0 /\ o.hash = ZeroHash
              /\ o.list = <<>> /\ DOMAIN o.list = {} /\ o.edit = worker[w].edit
            BY <3>0, <3>i DEF Operations
        <3>2. worker' = [worker EXCEPT ![w] = o]
            BY <2>3
        <3> HIDE DEF o
        <3>3. Sending(o) /\ Carrying(log, o) /\ o.pc \notin StoringPCs /\ ~Held(o)
            BY <1>c, <2>3, <3>1 DEF Sending, Carrying, Recovering, HashFor, InStore, StoringPCs, Held
        <3>4. LockStep(w, o)
            BY <2>3, <3>3 DEF LockStep, Held
        <3> QED BY <1>0, <1>3, <3>2, <3>3, <3>4, QuietMove DEF collectEventsToDispatch
    <2> QED BY <1>3, <2>1, <2>2, <2>3 DEF collectEventsToDispatch
<1> QED BY <1>1, <1>2, <1>3

\* The first statement of storeMACs: what it finds is the state it continues, or it is noted.
LEMMA PutVersionKeeps ==
    ASSUME IInv, JInv, NEW w \in Workers, PutAppStateVersion(w)
    PROVE  LockInv' /\ EditInv' /\ CarryInv' /\ MACInv'
<1> USE DEF stored, keyring, Goes
<1>w. worker[w] \in Operations /\ Good(worker[w])
    BY EachIsGood
<1>c. Sending(worker[w]) /\ Carrying(log, worker[w]) /\ Recovering(worker[w])
    BY DEF JInv, EditInv, CarryInv, Carrying
<1>0. worker[w].pc = "putVersion"
    BY DEF PutAppStateVersion
<1> DEFINE next == IF worker[w].mode = "recovery" THEN "putMACs" ELSE "deleteMACs"
           o == [worker[w] EXCEPT !.pc = next]
<1>1. worker' = [worker EXCEPT ![w] = o]
    BY DEF PutAppStateVersion
<1>2. /\ o.pc = next /\ o.mode = worker[w].mode /\ o.version = worker[w].version
      /\ o.hash = worker[w].hash /\ o.list = worker[w].list /\ o.edit = worker[w].edit
      /\ o.base = worker[w].base
    BY <1>w DEF Operations
<1>3. /\ o.pc \in StoringPCs /\ o.pc \in InStore
      /\ o.pc \notin {"read", "encode", "post", "reset", "apply"}
      /\ o.pc = "putMACs" => o.mode = "recovery"
    BY <1>2 DEF StoringPCs, InStore
<1> HIDE DEF o, next
<1>4. Sending(o) /\ Recovering(o)
    BY <1>0, <1>c, <1>2, <1>3 DEF Sending, Recovering, InStore
<1>5. Carrying(log, o)
    BY <1>0, <1>c, <1>2, <1>3, <1>4 DEF Carrying, InStore
<1>6. LockStep(w, o)
    <2>1. lock' = lock
        BY DEF PutAppStateVersion
    <2>2. Held(o) <=> Held(worker[w])
        BY <1>0, <1>2, <1>3 DEF Held, StoringPCs
    <2> QED BY <2>1, <2>2 DEF LockStep
<1>7. log' = log /\ macs' = macs /\ version' = worker[w].version /\ hash' = worker[w].hash
    BY DEF PutAppStateVersion
<1>8. LockInv' /\ EditInv' /\ \A u \in Workers : Carrying(log', worker'[u])
    BY <1>1, <1>4, <1>5, <1>6, <1>7, MoveRest
<1>9. CarryInv'
    BY <1>7, <1>8, <1>c DEF CarryInv, Carrying
<1>10. \A u \in Workers : worker'[u] = IF u = w THEN o ELSE worker[u]
    BY <1>1 DEF IInv, Typed
<1>11. ASSUME ~disturbed'
       PROVE  /\ \A u \in Workers : worker[u].pc \notin StoringPCs
              /\ Follow(log, macs, version) /\ version = worker[w].base
              /\ ~Head(worker[w].list).snapshot => worker[w].version = version + 1
    <2>1. ~disturbed /\ Storing = {} /\ ~Stale(w)
        BY <1>11 DEF PutAppStateVersion
    <2>2. \A u \in Workers : worker[u].pc \notin StoringPCs
        BY <2>1 DEF Storing, StoringPCs
    <2>3. Follow(log, macs, version)
        BY <2>1, <2>2 DEF JInv, MACInv
    <2> QED BY <2>1, <2>2, <2>3 DEF Stale
<1>12. ASSUME ~disturbed' PROVE Half(log', macs', version', o)
    <2>1. CASE Head(worker[w].list).snapshot
        <3>1. version = 0
            BY <1>0, <1>c, <1>11, <1>12, <2>1 DEF Carrying, InStore
        <3>2. macs = {}
            <4>1. \A r \in macs : r.version \in 1..0
                BY <1>11, <1>12, <3>1 DEF Follow, NoneNewer
            <4> QED BY <4>1
        <3> QED BY <1>2, <1>7, <2>1, <3>2 DEF Half
    <2>2. CASE ~Head(worker[w].list).snapshot
        <3>1. o.mode # "recovery"
            <4>1. worker[w].mode = "recovery" =>
                      worker[w].list = <<[version |-> worker[w].version, snapshot |-> TRUE]>>
                BY <1>0, <1>c DEF Recovering, InStore
            <4>2. worker[w].mode = "recovery" => Head(worker[w].list).snapshot
                BY <4>1
            <4> QED BY <1>2, <2>2, <4>2
        <3>2. o.pc # "putMACs"
            BY <1>3, <3>1
        <3>3. o.version = o.base + 1 /\ Follow(log, macs, o.base)
            BY <1>2, <1>11, <1>12, <2>2
        <3> QED BY <1>2, <1>7, <2>2, <3>2, <3>3 DEF Half, Follow
    <2> QED BY <2>1, <2>2
<1>13. MACInv'
    BY <1>3, <1>10, <1>11, <1>12 DEF MACInv
<1> QED BY <1>8, <1>9, <1>13

\* The item that an operation stores.
LEMMA ItemFacts ==
    ASSUME IInv, JInv, NEW w \in Workers, worker[w].pc \in InStore,
           NEW item, item = Head(worker[w].list), NEW v, v = worker[w].version
    PROVE  /\ item.version = v /\ v \in 1..Len(log) /\ v <= MaxVersion /\ v \in Nat \ {0}
           /\ item.snapshot \in BOOLEAN
           /\ log \in Seq(Patch) /\ Len(log[v].muts) \in {1, 2}
           /\ ~item.snapshot =>
                 /\ AddedBy(AddedMACs(item), v, log[v].muts)
                 /\ \A i \in Indexes : i \in RemovedMACs(item) <=> Removes(log[v].muts, i)
<1>1. worker[w] \in Operations /\ Good(worker[w])
    BY EachIsGood
<1>2. worker[w].list # <<>> /\ worker[w].list \in Seq(Items)
    BY <1>1 DEF Good, InStore, Operations
<1>3. item = worker[w].list[1] /\ 1 \in DOMAIN worker[w].list /\ item \in Items
    BY <1>2
<1>4. item.version \in 1..Len(log) /\ item.snapshot \in BOOLEAN
    BY <1>1, <1>3 DEF Good, Items
<1>5. item.version = v
    BY HeadIsStored
<1>6. log \in Seq(Patch) /\ Len(log) <= MaxVersion /\ Len(log) \in Nat /\ MaxVersion \in Nat
    BY AppStateAssumption DEF IInv, Typed
<1>7. v \in 1..Len(log) /\ v <= MaxVersion /\ v \in Nat \ {0}
    BY <1>4, <1>5, <1>6
<1>8. Len(log[v].muts) \in {1, 2}
    BY <1>7, ValueAssumption DEF JInv, EditInv
<1>9. ~item.snapshot => /\ AddedBy(AddedMACs(item), v, log[v].muts)
                        /\ \A i \in Indexes : i \in RemovedMACs(item) <=> Removes(log[v].muts, i)
    BY <1>5, <1>6, <1>7, <1>8, PatchMACs
<1> QED BY <1>4, <1>5, <1>6, <1>7, <1>8, <1>9

\* What the store deletes of an index is all of it.
LEMMA DeleteKeeps ==
    ASSUME IInv, JInv, NEW w \in Workers, DeleteAppStateMutationMACs(w)
    PROVE  LockInv' /\ EditInv' /\ CarryInv' /\ MACInv'
<1> USE DEF stored, keyring, Goes
<1>w. worker[w] \in Operations /\ Good(worker[w])
    BY EachIsGood
<1>c. Sending(worker[w]) /\ Carrying(log, worker[w]) /\ Recovering(worker[w])
    BY DEF JInv, EditInv, CarryInv, Carrying
<1>0. worker[w].pc = "deleteMACs" /\ worker[w].pc \in StoringPCs /\ worker[w].pc \in InStore
    BY DEF DeleteAppStateMutationMACs, StoringPCs, InStore
<1> DEFINE o == [worker[w] EXCEPT !.pc = "putMACs"]
           item == Head(worker[w].list)
<1>1. worker' = [worker EXCEPT ![w] = o]
    BY DEF DeleteAppStateMutationMACs
<1>2. /\ o.pc = "putMACs" /\ o.mode = worker[w].mode /\ o.version = worker[w].version
      /\ o.hash = worker[w].hash /\ o.list = worker[w].list /\ o.edit = worker[w].edit
      /\ o.base = worker[w].base
    BY <1>w DEF Operations
<1> HIDE DEF o
<1>3. o.pc \in StoringPCs /\ o.pc \in InStore
    BY <1>2 DEF StoringPCs, InStore
<1>4. Sending(o) /\ Recovering(o)
    BY <1>0, <1>c, <1>2 DEF Sending, Recovering, InStore
<1>5. Carrying(log, o)
    BY <1>0, <1>c, <1>2, <1>3, <1>4 DEF Carrying
<1>6. LockStep(w, o)
    <2>1. lock' = lock
        BY DEF DeleteAppStateMutationMACs
    <2>2. Held(o) <=> Held(worker[w])
        BY <1>0, <1>2 DEF Held
    <2> QED BY <2>1, <2>2 DEF LockStep
<1>7. /\ log' = log /\ version' = version /\ hash' = hash /\ disturbed' = disturbed
      /\ macs' = {r \in macs : r.index \notin RemovedMACs(item)}
    BY DEF DeleteAppStateMutationMACs
<1>8. LockInv' /\ EditInv' /\ \A u \in Workers : Carrying(log', worker'[u])
    BY <1>1, <1>4, <1>5, <1>6, <1>7, MoveRest
<1>9. CarryInv'
    BY <1>7, <1>8 DEF JInv, CarryInv
<1>10. \A u \in Workers : worker'[u] = IF u = w THEN o ELSE worker[u]
    BY <1>1 DEF IInv, Typed
<1>11. ASSUME ~disturbed'
       PROVE  /\ \A u \in Workers : worker[u].pc \in StoringPCs => u = w
              /\ Half(log, macs, version, worker[w])
    BY <1>0, <1>7, <1>11 DEF JInv, MACInv
<1>12. ASSUME ~disturbed' PROVE Half(log', macs', version', o)
    <2>0. Half(log, macs, version, worker[w])
        BY <1>11, <1>12
    <2>1. CASE item.snapshot
        BY <1>2, <1>7, <2>0, <2>1 DEF Half
    <2>2. CASE ~item.snapshot
        <3>1. /\ worker[w].version = worker[w].base + 1 /\ NoneNewer(macs, worker[w].base)
              /\ version = worker[w].version
              /\ \A i \in Indexes : Newest(macs, i) = LatestAt(log, i, worker[w].base)
            BY <1>0, <2>0, <2>2 DEF Half
        <3> DEFINE muts == log[worker[w].version].muts
        <3>2. \A i \in Indexes : i \in RemovedMACs(item) <=> Removes(muts, i)
            BY <1>0, <1>w, <2>2, ItemFacts
        <3>3. ASSUME NEW i \in Indexes
              PROVE  Newest(macs', i) = IF Removes(muts, i) THEN NoValue
                                        ELSE LatestAt(log, i, worker[w].base)
            <4> HIDE DEF muts, item
            <4>1. CASE Removes(muts, i)
                <5>1. \A r \in macs' : r.index # i
                    BY <1>7, <3>2, <4>1
                <5> QED BY <4>1, <5>1, NewestNone
            <4>2. CASE ~Removes(muts, i)
                <5>1. {r \in macs' : r.index = i} = {r \in macs : r.index = i}
                    BY <1>7, <3>2, <4>2
                <5>2. Newest(macs', i) = Newest(macs, i)
                    BY <5>1, NewestSame
                <5> QED BY <3>1, <4>2, <5>2
            <4> QED BY <4>1, <4>2
        <3>4. NoneNewer(macs', worker[w].base)
            BY <1>7, <3>1 DEF NoneNewer
        <3> QED BY <1>2, <1>7, <2>2, <3>1, <3>3, <3>4 DEF Half
    <2> QED BY <2>1, <2>2
<1>13. MACInv'
    BY <1>3, <1>10, <1>11, <1>12 DEF MACInv
<1> QED BY <1>8, <1>9, <1>13

\* The last statement of storeMACs completes the rows of the new version.
LEMMA PutMACsKeeps ==
    ASSUME IInv, JInv, NEW w \in Workers, PutAppStateMutationMACs(w)
    PROVE  LockInv' /\ EditInv' /\ CarryInv' /\ MACInv'
<1> USE DEF stored, keyring, Goes
<1>w. worker[w] \in Operations /\ Good(worker[w])
    BY EachIsGood
<1>c. Sending(worker[w]) /\ Carrying(log, worker[w]) /\ Recovering(worker[w])
    BY DEF JInv, EditInv, CarryInv, Carrying
<1>0. worker[w].pc = "putMACs" /\ worker[w].pc \in StoringPCs /\ worker[w].pc \in InStore
    BY DEF PutAppStateMutationMACs, StoringPCs, InStore
<1>1. CASE disturbed' = TRUE /\ Returns(w) /\ UNCHANGED macs
    BY <1>1, ReturnMove DEF PutAppStateMutationMACs
<1>2. CASE ~(disturbed' = TRUE /\ Returns(w) /\ UNCHANGED macs)
    <2> DEFINE item == Head(worker[w].list)
               A == AddedMACs(item)
               list == Tail(worker[w].list)
               got == worker[w].got \cup SetsOf(item)
               o == [worker[w] EXCEPT !.pc = "apply", !.list = list, !.got = got]
               v == worker[w].version
    <2>1. /\ worker' = [worker EXCEPT ![w] = o] /\ macs' = macs \cup A
          /\ lock' = lock /\ disturbed' = disturbed
          /\ log' = log /\ version' = version /\ hash' = hash
          /\ \A r, q \in A : r.index = q.index => r = q
        BY <1>2 DEF PutAppStateMutationMACs
    <2>2. worker[w].list # <<>> /\ worker[w].list \in Seq(Items)
        BY <1>0, <1>w DEF Good, Operations
    <2>3. /\ \A n \in DOMAIN list : ~list[n].snapshot
          /\ list # <<>> => ~Head(list).snapshot
        <3>1. \A n \in DOMAIN list : n + 1 \in DOMAIN worker[w].list /\ list[n] = worker[w].list[n + 1]
                                     /\ n + 1 # 1
            BY <2>2
        <3>2. \A n \in DOMAIN list : ~list[n].snapshot
            BY <1>c, <3>1 DEF Carrying
        <3>3. list # <<>> => 1 \in DOMAIN list /\ Head(list) = list[1]
            BY <2>2
        <3> QED BY <3>2, <3>3
    <2>4. worker[w].mode = "recovery" => list = <<>>
        <3>1. worker[w].mode = "recovery" =>
                  worker[w].list = <<[version |-> worker[w].version, snapshot |-> TRUE]>>
            BY <1>0, <1>c DEF Recovering
        <3> DEFINE x == [version |-> worker[w].version, snapshot |-> TRUE]
        <3> HIDE DEF x
        <3>2. Tail(<<x>>) = <<>>
            OBVIOUS
        <3> QED BY <3>1, <3>2 DEF x
    <2> HIDE DEF list, got
    <2>5. /\ o.pc = "apply" /\ o.mode = worker[w].mode /\ o.version = worker[w].version
          /\ o.hash = worker[w].hash /\ o.list = list /\ o.edit = worker[w].edit
        BY <1>w DEF Operations
    <2> HIDE DEF o
    <2>6. Sending(o) /\ Recovering(o) /\ o.pc \notin InStore /\ o.pc \notin StoringPCs
        BY <1>c, <2>4, <2>5 DEF Sending, Recovering, InStore, StoringPCs
    <2>7. Carrying(log, o)
        BY <1>c, <2>3, <2>5, <2>6 DEF Carrying
    <2>8. LockStep(w, o)
        BY <1>0, <2>1, <2>5 DEF LockStep, Held
    <2>9. LockInv' /\ EditInv' /\ \A u \in Workers : Carrying(log', worker'[u])
        BY <2>1, <2>6, <2>7, <2>8, MoveRest
    <2>10. CarryInv'
        BY <2>1, <2>9 DEF JInv, CarryInv
    <2>11. \A u \in Workers : worker'[u] = IF u = w THEN o ELSE worker[u]
        BY <2>1 DEF IInv, Typed
    <2>12. /\ item.version = v /\ v \in 1..Len(log) /\ v <= MaxVersion /\ v \in Nat \ {0}
           /\ item.snapshot \in BOOLEAN /\ log \in Seq(Patch) /\ Len(log[v].muts) \in {1, 2}
           /\ ~item.snapshot => AddedBy(A, v, log[v].muts)
        BY <1>0, ItemFacts
    <2>13. ASSUME ~disturbed'
           PROVE  /\ \A u \in Workers : worker[u].pc \in StoringPCs => u = w
                  /\ Half(log, macs, version, worker[w])
        BY <1>0, <2>1, <2>13 DEF JInv, MACInv
    <2>14. macs \subseteq MACRows
        BY DEF JInv, RestTyped
    <2>15. ASSUME ~disturbed' PROVE Follow(log, macs \cup A, v) /\ version = v
        <3>0. Half(log, macs, version, worker[w]) /\ version = v
            BY <2>13, <2>15 DEF Half
        <3>1. CASE item.snapshot
            <4>1. macs \cup A = A
                BY <3>0, <3>1 DEF Half
            <4>2. \A i \in Indexes : Newest(A, i) = LatestAt(log, i, v)
                BY <2>12, <3>1, SnapshotStores
            <4>3. \A r \in A : r.version = v
                BY <2>12, <3>1, SnapshotMACs
            <4>4. NoneNewer(A, v)
                BY <2>12, <4>3 DEF NoneNewer
            <4> HIDE DEF A, v
            <4> QED BY <3>0, <4>1, <4>2, <4>4 DEF Follow
        <3>2. CASE ~item.snapshot
            <4>1. /\ v = worker[w].base + 1 /\ NoneNewer(macs, worker[w].base)
                  /\ \A i \in Indexes : Newest(macs, i) =
                        IF Removes(log[v].muts, i) THEN NoValue ELSE LatestAt(log, i, worker[w].base)
                BY <1>0, <3>0, <3>2 DEF Half
            <4>2. worker[w].base \in Nat /\ worker[w].base = v - 1
                BY <1>w, <4>1, AppStateAssumption DEF Operations, Versions
            <4>3. \A r \in macs : r.version < v /\ r.version \in 1..v
                BY <2>12, <4>1, <4>2 DEF NoneNewer
            <4>4. \A r \in A : r.version = v
                BY <2>12, <3>2 DEF AddedBy
            <4>5. NoneNewer(macs \cup A, v)
                BY <2>12, <4>3, <4>4 DEF NoneNewer
            <4>6. ASSUME NEW i \in Indexes PROVE Newest(macs \cup A, i) = LatestAt(log, i, v)
                <5>1. Newest(macs, i) = IF Removes(log[v].muts, i) THEN NoValue
                                        ELSE LatestAt(log, i, v - 1)
                    BY <4>1, <4>2
                <5> QED BY <2>1, <2>12, <2>14, <3>2, <4>3, <5>1, PatchStores
            <4> QED BY <3>0, <4>5, <4>6 DEF Follow
        <3> QED BY <3>1, <3>2
    <2>16. \A u \in Workers : ~disturbed' => worker'[u].pc \notin StoringPCs
        BY <2>6, <2>11, <2>13
    <2>17. ~disturbed' => Follow(log', macs', version')
        BY <2>1, <2>15
    <2>18. MACInv'
        BY <2>16, <2>17 DEF MACInv
    <2> QED BY <2>9, <2>10, <2>18
<1> QED BY <1>1, <1>2

\* sendAppState stores nothing; a conflict hands over patches only.
LEMMA SendQuiet ==
    ASSUME IInv, JInv, NEW w \in Workers, SendReads(w) \/ EncodePatch(w) \/ PostRefused(w)
    PROVE  LockInv' /\ EditInv' /\ CarryInv' /\ MACInv'
<1> USE DEF stored, keyring, Goes
<1>w. worker[w] \in Operations /\ Good(worker[w])
    BY EachIsGood
<1>c. Sending(worker[w]) /\ Carrying(log, worker[w]) /\ Recovering(worker[w])
    BY DEF JInv, EditInv, CarryInv, Carrying
<1>0. /\ worker[w].pc \in {"read", "encode", "post"} /\ worker[w].pc \notin StoringPCs
      /\ worker[w].pc \notin InStore
    BY DEF SendReads, EncodePatch, PostRefused, StoringPCs, InStore
<1>m. worker[w].mode = "conflict" /\ worker[w].edit \in Edits /\ ~Held(worker[w])
    BY <1>0, <1>c DEF Sending, Held
<1>1. ASSUME SendReads(w) PROVE LockInv' /\ EditInv' /\ CarryInv' /\ MACInv'
    <2>1. CASE Returns(w)
        BY <1>0, <1>1, <2>1, ReturnMove DEF SendReads
    <2>2. CASE ~Returns(w)
        <3>1. PICK newest \in keys :
                  /\ worker' = [worker EXCEPT ![w] = [worker[w] EXCEPT !.pc = "encode",
                                    !.version = version, !.hash = hash, !.key = newest]]
                  /\ lock' = lock
            BY <1>1, <2>2 DEF SendReads
        <3> DEFINE o == [worker[w] EXCEPT !.pc = "encode", !.version = version, !.hash = hash,
                                          !.key = newest]
        <3>2. /\ o.pc = "encode" /\ o.mode = "conflict" /\ o.version = version /\ o.hash = hash
              /\ o.list = worker[w].list /\ o.edit = worker[w].edit
            BY <1>w, <1>m DEF Operations
        <3>3. worker' = [worker EXCEPT ![w] = o]
            BY <3>1
        <3> HIDE DEF o
        <3>4. HashFor(log, o.version, o.hash)
            BY <3>2 DEF JInv, CarryInv
        <3>5. /\ Sending(o) /\ Recovering(o) /\ ~Held(o)
              /\ o.pc \notin StoringPCs /\ o.pc \notin InStore /\ o.pc # "apply"
            BY <1>m, <3>2 DEF Sending, Recovering, InStore, StoringPCs, Held
        <3>6. Carrying(log, o)
            BY <1>c, <3>2, <3>4, <3>5 DEF Carrying
        <3>7. LockStep(w, o)
            BY <1>m, <3>1, <3>5 DEF LockStep
        <3> QED BY <1>0, <1>1, <3>3, <3>5, <3>6, <3>7, QuietMove DEF SendReads
    <2> QED BY <2>1, <2>2
<1>2. ASSUME EncodePatch(w) PROVE LockInv' /\ EditInv' /\ CarryInv' /\ MACInv'
    <2> DEFINE edit == worker[w].edit
               previous == [k \in DOMAIN edit |-> GetAppStateMutationMAC(edit[k].index)]
               signed == updateHash(worker[w].hash, worker[w].version + 1, edit, previous)
               o == [worker[w] EXCEPT !.pc = "post", !.signed = signed]
    <2>1. worker' = [worker EXCEPT ![w] = o] /\ lock' = lock
        BY <1>2 DEF EncodePatch
    <2> HIDE DEF signed
    <2>2. /\ o.pc = "post" /\ o.mode = "conflict" /\ o.version = worker[w].version
          /\ o.hash = worker[w].hash /\ o.list = worker[w].list /\ o.edit = worker[w].edit
        BY <1>w, <1>m DEF Operations
    <2> HIDE DEF o
    <2>3. /\ Sending(o) /\ Recovering(o) /\ ~Held(o)
          /\ o.pc \notin StoringPCs /\ o.pc \notin InStore /\ o.pc # "apply"
        BY <1>m, <2>2 DEF Sending, Recovering, InStore, StoringPCs, Held
    <2>4. Carrying(log, o)
        BY <1>c, <2>2, <2>3 DEF Carrying
    <2>5. LockStep(w, o)
        BY <1>m, <2>1, <2>3 DEF LockStep
    <2> QED BY <1>0, <1>2, <2>1, <2>3, <2>4, <2>5, QuietMove DEF EncodePatch
<1>3. ASSUME PostRefused(w) PROVE LockInv' /\ EditInv' /\ CarryInv' /\ MACInv'
    <2>1. CASE Returns(w)
        BY <1>0, <1>3, <2>1, ReturnMove DEF PostRefused
    <2>2. CASE ~Returns(w)
        <3>1. PICK to \in worker[w].version..Len(log) :
                  /\ worker' = [worker EXCEPT ![w] = [worker[w] EXCEPT !.pc = "apply",
                                    !.list = Patches(worker[w].version, to),
                                    !.key = 0, !.signed = ZeroHash]]
                  /\ lock' = lock
            BY <1>3, <2>2 DEF PostRefused
        <3> DEFINE list == Patches(worker[w].version, to)
                   o == [worker[w] EXCEPT !.pc = "apply", !.list = list, !.key = 0,
                                          !.signed = ZeroHash]
        <3>2. worker[w].version \in Nat /\ to \in Nat /\ to >= worker[w].version /\ Len(log) \in Nat
              /\ worker[w].version \in 0..Len(log) /\ log \in Seq(Patch) /\ Len(log) <= MaxVersion
            BY <1>w, AppStateAssumption DEF Operations, Versions, IInv, Typed, Good
        <3>3. list \in Seq(Items)
            BY <3>2, PatchesType
        <3>4. \A n \in DOMAIN list : ~list[n].snapshot
            BY DEF Patches
        <3>5. list # <<>> => ~Head(list).snapshot
            <4> HIDE DEF list
            <4>1. list # <<>> => 1 \in DOMAIN list /\ Head(list) = list[1]
                BY <3>3
            <4> QED BY <3>4, <4>1
        <3>6. worker' = [worker EXCEPT ![w] = o]
            BY <3>1
        <3> HIDE DEF list
        <3>7. /\ o.pc = "apply" /\ o.mode = "conflict" /\ o.version = worker[w].version
              /\ o.hash = worker[w].hash /\ o.list = list /\ o.edit = worker[w].edit
            BY <1>w, <1>m DEF Operations
        <3> HIDE DEF o
        <3>8. /\ Sending(o) /\ Recovering(o) /\ ~Held(o)
              /\ o.pc \notin StoringPCs /\ o.pc \notin InStore
            BY <1>m, <3>7 DEF Sending, Recovering, InStore, StoringPCs, Held
        <3>9. Carrying(log, o)
            BY <1>c, <3>4, <3>5, <3>7, <3>8 DEF Carrying
        <3>10. LockStep(w, o)
            BY <1>m, <3>1, <3>8 DEF LockStep
        <3> QED BY <1>0, <1>3, <3>6, <3>8, <3>9, <3>10, QuietMove DEF PostRefused
    <2> QED BY <2>1, <2>2
<1> QED BY <1>1, <1>2, <1>3

\* The log grows, and at most one operation goes on to something that carries nothing.
LEMMA AppendKeeps ==
    ASSUME IInv, JInv, NEW patch \in Patch, patch.muts \in Edits, log' = Append(log, patch),
           UNCHANGED <<version, hash, macs, lock, disturbed>>, worker' \in [Workers -> Operations],
           \A u \in Workers :
               \/ worker'[u] = worker[u]
               \/ /\ ~Held(worker[u]) /\ worker[u].pc \notin StoringPCs
                  /\ ~Held(worker'[u]) /\ worker'[u].pc \notin StoringPCs
                  /\ Sending(worker'[u]) /\ Carrying(log', worker'[u])
    PROVE  LockInv' /\ EditInv' /\ CarryInv' /\ MACInv'
<1>0. log \in Seq(Patch) /\ Len(log) \in Nat /\ version \in 0..Len(log)
    BY DEF IInv, Typed
<1>1. Grows /\ Len(log') = Len(log) + 1 /\ log'[Len(log) + 1] = patch
    BY <1>0 DEF Grows
<1>2. LockInv'
    BY DEF JInv, LockInv
<1>3. EditInv'
    <2>1. \A v \in 1..Len(log') : v \in 1..Len(log) \/ v = Len(log) + 1
        BY <1>0, <1>1
    <2>2. \A v \in 1..Len(log') : log'[v].muts \in Edits
        BY <1>1, <2>1 DEF JInv, EditInv, Grows
    <2> QED BY <2>2 DEF JInv, EditInv
<1>4. ASSUME NEW u \in Workers PROVE Carrying(log', worker'[u])
    <2>1. worker[u] \in Operations /\ Good(worker[u])
        BY EachIsGood
    <2>2. worker[u].version \in 0..Len(log)
        BY <1>0, <2>1 DEF Operations, Versions, Good
    <2>3. Carrying(log, worker[u])
        BY DEF JInv, CarryInv
    <2>4. Carrying(log', worker[u])
        BY <1>0, <1>1, <2>2, <2>3, CarryGrows
    <2> QED BY <2>4
<1>5. HashFor(log', version', hash')
    <2>1. version # 0 => log'[version] = log[version]
        BY <1>0, <1>1 DEF Grows
    <2> QED BY <2>1 DEF JInv, CarryInv, HashFor
<1>6. MACInv'
    BY <1>1, QuietMACs
<1> QED BY <1>2, <1>3, <1>4, <1>5, <1>6 DEF CarryInv

\* The server takes a patch that SendAppState was given.
LEMMA PostAcceptedKeeps ==
    ASSUME IInv, JInv, NEW w \in Workers, PostAccepted(w)
    PROVE  LockInv' /\ EditInv' /\ CarryInv' /\ MACInv'
<1> USE DEF stored, keyring, Goes
<1>w. worker[w] \in Operations /\ Good(worker[w]) /\ worker \in [Workers -> Operations]
    BY EachIsGood DEF IInv, Typed
<1>c. Sending(worker[w])
    BY DEF JInv, EditInv
<1>0. worker[w].pc = "post" /\ worker[w].pc \notin StoringPCs
    BY DEF PostAccepted, StoringPCs
<1>m. worker[w].mode = "conflict" /\ worker[w].edit \in Edits /\ ~Held(worker[w])
    BY <1>0, <1>c DEF Sending, Held
<1> DEFINE patch == [key |-> worker[w].key, muts |-> worker[w].edit, hash |-> worker[w].signed]
           locks == [Idle EXCEPT !.pc = "lock"]
<1>1. patch \in Patch /\ patch.muts \in Edits
    BY <1>w, <1>0, <1>m DEF Patch, Operations, Good
<1>2. log' = Append(log, patch) /\ UNCHANGED <<version, hash, macs, lock, disturbed>>
    BY DEF PostAccepted
<1> HIDE DEF patch
<1>i. /\ Idle \in Operations /\ Idle.pc = "idle" /\ Idle.mode = "fetch" /\ Idle.version = 0
      /\ Idle.hash = ZeroHash /\ Idle.list = <<>> /\ DOMAIN Idle.list = {}
      /\ Sending(Idle) /\ Carrying(log', Idle) /\ ~Held(Idle)
    BY IdleFacts, IdleIsGood DEF IInv, Typed, Good
<1>3. /\ locks \in Operations /\ locks.pc = "lock" /\ locks.mode = "fetch" /\ locks.version = 0
      /\ locks.hash = ZeroHash /\ locks.list = <<>> /\ DOMAIN locks.list = {}
    BY <1>i DEF Operations, Places
<1>4. \/ worker' = [worker EXCEPT ![w] = locks]
      \/ worker' = [worker EXCEPT ![w] = Idle]
      \/ worker' = worker
    BY DEF PostAccepted
<1> HIDE DEF locks
<1>5. Sending(locks) /\ Carrying(log', locks) /\ ~Held(locks) /\ locks.pc \notin StoringPCs
    BY <1>3 DEF Sending, Carrying, Recovering, HashFor, Held, InStore, StoringPCs
<1>6. Idle.pc \notin StoringPCs
    BY <1>i DEF StoringPCs
<1>7. worker' \in [Workers -> Operations]
    BY <1>w, <1>i, <1>3, <1>4
<1>8. \A u \in Workers :
          \/ worker'[u] = worker[u]
          \/ u = w /\ (worker'[u] = locks \/ worker'[u] = Idle)
    BY <1>w, <1>4
<1>9. \A u \in Workers :
          \/ worker'[u] = worker[u]
          \/ /\ ~Held(worker[u]) /\ worker[u].pc \notin StoringPCs
             /\ ~Held(worker'[u]) /\ worker'[u].pc \notin StoringPCs
             /\ Sending(worker'[u]) /\ Carrying(log', worker'[u])
    BY <1>0, <1>m, <1>i, <1>5, <1>6, <1>8
<1> QED BY <1>1, <1>2, <1>7, <1>9, AppendKeeps

\* A recovery forgets the version; a failing statement ends the operation.
LEMMA ResetKeeps ==
    ASSUME IInv, JInv, NEW w \in Workers, RecoveryResets(w) \/ StoreFails(w)
    PROVE  LockInv' /\ EditInv' /\ CarryInv' /\ MACInv'
<1> USE DEF stored, keyring, Goes
<1>w. worker[w] \in Operations /\ Good(worker[w])
    BY EachIsGood
<1>c. Sending(worker[w]) /\ Carrying(log, worker[w]) /\ Recovering(worker[w])
    BY DEF JInv, EditInv, CarryInv, Carrying
<1>1. ASSUME RecoveryResets(w) PROVE LockInv' /\ EditInv' /\ CarryInv' /\ MACInv'
    <2>0. worker[w].pc = "reset" /\ worker[w].mode = "recovery" /\ worker[w].pc \notin StoringPCs
        BY <1>1, <1>c DEF RecoveryResets, Recovering, StoringPCs
    <2>1. worker[w].base = 0 /\ worker[w].list = <<[version |-> worker[w].version, snapshot |-> TRUE]>>
        BY <1>c, <2>0 DEF Recovering, InStore
    <2> DEFINE o == [worker[w] EXCEPT !.pc = "putVersion"]
    <2>2. worker' = [worker EXCEPT ![w] = o] /\ log' = log /\ lock' = lock
        BY <1>1 DEF RecoveryResets
    <2>3. /\ o.pc = "putVersion" /\ o.mode = "recovery" /\ o.version = worker[w].version
          /\ o.hash = worker[w].hash /\ o.list = worker[w].list /\ o.base = 0
        BY <1>w, <2>0, <2>1 DEF Operations
    <2> HIDE DEF o
    <2>4. /\ Sending(o) /\ Recovering(o) /\ ~Held(o) /\ ~Held(worker[w])
          /\ o.pc \notin StoringPCs /\ o.pc \in InStore /\ o.pc # "apply"
        BY <2>0, <2>1, <2>3 DEF Sending, Recovering, InStore, StoringPCs, Held
    <2>5. Head(o.list).version = o.version
        BY <2>1, <2>3
    <2>6. Carrying(log, o)
        BY <1>c, <2>3, <2>4, <2>5 DEF Carrying
    <2>7. LockStep(w, o)
        BY <2>2, <2>4 DEF LockStep
    <2> QED BY <1>1, <2>0, <2>2, <2>4, <2>6, <2>7, ForgetMove DEF RecoveryResets
<1>2. ASSUME StoreFails(w) PROVE LockInv' /\ EditInv' /\ CarryInv' /\ MACInv'
    <2>1. ~disturbed' => ~disturbed /\ worker[w].pc \notin StoringPCs
        BY <1>2 DEF StoreFails, Storing, StoringPCs
    <2> QED BY <1>2, <2>1, ReturnMove DEF StoreFails
<1> QED BY <1>1, <1>2

\* The surroundings.
LEMMA SurroundingKeeps ==
    ASSUME IInv, JInv,
           \/ \E key \in AllKeys, muts \in Edits : OtherDeviceSends(key, muts)
           \/ requestMissingAppStateKeys
           \/ Crash
           \/ UNCHANGED vars
    PROVE  LockInv' /\ EditInv' /\ CarryInv' /\ MACInv'
<1> USE DEF stored, keyring
<1>0. log \in Seq(Patch) /\ worker \in [Workers -> Operations]
    BY DEF IInv, Typed
<1>1. ASSUME NEW key \in AllKeys, NEW muts \in Edits, OtherDeviceSends(key, muts)
      PROVE  LockInv' /\ EditInv' /\ CarryInv' /\ MACInv'
    <2> DEFINE patch == [key |-> key, muts |-> muts, hash |-> ZeroHash]
               signed == HashOf(Append(log, patch))
               whole == [patch EXCEPT !.hash = signed]
    <2>1. muts \in Seq(Mutations)
        BY AppStateAssumption
    <2>2. signed \in Hashes
        BY DEF HashOf, Hashes
    <2>3. log' = Append(log, whole)
        BY <1>1 DEF OtherDeviceSends
    <2> HIDE DEF signed
    <2>4. whole \in Patch /\ whole.muts \in Edits
        BY <2>1, <2>2 DEF Patch
    <2> HIDE DEF whole
    <2>5. worker' \in [Workers -> Operations] /\ worker' = worker
          /\ UNCHANGED <<version, hash, macs, lock, disturbed>>
        BY <1>0, <1>1 DEF OtherDeviceSends
    <2> QED BY <2>3, <2>4, <2>5, AppendKeeps
<1>2. ASSUME requestMissingAppStateKeys \/ UNCHANGED vars
      PROVE  LockInv' /\ EditInv' /\ CarryInv' /\ MACInv'
    <2>1. UNCHANGED <<log, version, hash, macs, lock, worker, disturbed>>
        BY <1>2 DEF requestMissingAppStateKeys, vars
    <2>2. LockInv' /\ EditInv' /\ CarryInv'
        BY <2>1 DEF JInv, LockInv, EditInv, CarryInv
    <2>3. MACInv'
        BY <2>1 DEF JInv, MACInv
    <2> QED BY <2>2, <2>3
<1>3. ASSUME Crash PROVE LockInv' /\ EditInv' /\ CarryInv' /\ MACInv'
    <2>1. /\ worker' = [w \in Workers |-> Idle] /\ UNCHANGED <<log, version, hash, macs>>
          /\ lock' = Nobody /\ disturbed' = (disturbed \/ Storing # {})
        BY <1>3 DEF Crash
    <2>2. \A w \in Workers : worker'[w] = Idle
        BY <2>1
    <2>3. Sending(Idle) /\ Carrying(log, Idle) /\ ~Held(Idle) /\ Idle.pc = "idle"
        BY IdleFacts
    <2>4. LockInv'
        BY <2>1, <2>2, <2>3, AppStateAssumption DEF LockInv
    <2>5. EditInv' /\ CarryInv'
        BY <2>1, <2>2, <2>3 DEF JInv, EditInv, CarryInv
    <2>6. Grows
        BY <1>0, <2>1 DEF Grows
    <2>7. ~disturbed' => ~disturbed /\ \A w \in Workers : worker[w].pc \notin StoringPCs
        BY <2>1 DEF Storing, StoringPCs
    <2>8. \A w \in Workers : worker'[w].pc \notin StoringPCs
        BY <2>2, <2>3 DEF StoringPCs
    <2>9. MACInv'
        BY <2>1, <2>6, <2>7, <2>8, QuietMACs
    <2> QED BY <2>4, <2>5, <2>9
<1> QED BY <1>1, <1>2, <1>3

\* dispatchAppState hands over a value.
LEMMA DispatchType ==
    ASSUME NEW i \in Indexes, NEW sets \in SUBSET Values,
           cache \in [Indexes -> Values \cup {NoValue}]
    PROVE  dispatchAppState(i, sets) \in Values \cup {NoValue}
<1>1. CASE sets = {}
    BY <1>1 DEF dispatchAppState
<1>2. CASE sets # {}
    <2>1. PICK x : IsLast(sets, x)
        BY <1>2, LastExists
    <2>2. (CHOOSE y \in sets : \A z \in sets : ~Before(y, z)) = x
        BY <2>1, LastChosen
    <2>3. dispatchAppState(i, sets) = x /\ x \in Values
        BY <1>2, <2>1, <2>2 DEF dispatchAppState, IsLast
    <2> QED BY <2>3
<1> QED BY <1>1, <1>2

\* The keys of an item are sync keys.
LEMMA KeysType ==
    ASSUME IInv, NEW item, item.version \in 1..Len(log)
    PROVE  KeysOf(item) \subseteq AllKeys
<1>0. log \in Seq(Patch) /\ Len(log) \in Nat /\ item.version \in 0..Len(log)
    BY DEF IInv, Typed
<1>1. \A n \in 1..Len(log) : log[n].key \in AllKeys
    <2>1. \A n \in 1..Len(log) : log[n] \in Patch
        BY <1>0
    <2> QED BY <2>1 DEF Patch
<1>2. ASSUME NEW x \in Live(item.version) PROVE x[1] \in 1..Len(log)
    <2>1. PICK i \in Indexes : x \in Values /\ LatestAt(log, i, item.version) = x
        BY DEF Live, Latest, LatestAt
    <2>2. LatestAt(log, i, item.version) # NoValue
        BY <2>1, ValueFacts
    <2>3. x[1] \in 1..item.version
        BY <1>0, <2>1, <2>2, LatestFacts
    <2> QED BY <1>0, <2>3
<1> QED BY <1>1, <1>2 DEF KeysOf

\* The rest of the type invariant.
LEMMA RestStep ==
    ASSUME IInv, JInv, [Next]_vars
    PROVE  RestTyped'
<1> USE DEF stored, keyring
<1>0. RestTyped
    BY DEF JInv
<1>b. MaxCalls \in Nat /\ MaxFaults \in Nat
    BY AppStateAssumption
<1>c. /\ calls < MaxCalls /\ calls' = calls + 1 => calls' \in 0..MaxCalls
      /\ faults < MaxFaults /\ faults' = faults + 1 => faults' \in 0..MaxFaults
    BY <1>0, <1>b DEF RestTyped
<1>1. CASE UNCHANGED vars
    BY <1>0, <1>1 DEF vars, RestTyped
<1>2. ASSUME NEW w \in Workers, Starts(w) PROVE RestTyped'
    <2>1. /\ UNCHANGED <<macs, pending, requested, cache, faults, disturbed>>
          /\ calls < MaxCalls /\ calls' = calls + 1
        BY <1>2 DEF Starts, FetchAppState, SendAppState, handleAppStateSyncKeyShare,
                    handleAppStateRecovery, Calls
    <2> QED BY <1>0, <1>c, <2>1 DEF RestTyped
<1>3. ASSUME NEW w \in Workers, Fetches(w) \/ RecoveryResets(w) PROVE RestTyped'
    <2>1. /\ UNCHANGED <<pending, requested, cache, calls, faults>>
          /\ \/ UNCHANGED <<macs, disturbed>>
             \/ macs' = {} /\ disturbed' = (Storing # {})
        BY <1>3 DEF Fetches, LockSync, GetAppStateVersion, fetchAppStatePatches, RecoveryResets,
                    DeleteAppStateVersion
    <2>2. macs' \subseteq MACRows /\ disturbed' \in BOOLEAN
        BY <1>0, <2>1 DEF RestTyped
    <2> QED BY <1>0, <2>1, <2>2 DEF RestTyped
<1>4. ASSUME NEW w \in Workers, MissingKey(w) PROVE RestTyped'
    <2> DEFINE list == worker[w].list
    <2>1. Good(worker[w]) /\ list \in Seq(Items)
        BY EachIsGood DEF Operations
    <2>2. \A n \in DOMAIN list : KeysOf(list[n]) \subseteq AllKeys
        BY <2>1, KeysType DEF Good
    <2>3. /\ UNCHANGED <<macs, requested, cache, calls, faults, disturbed>>
          /\ pending' = pending \cup (UNION {KeysOf(list[n]) : n \in DOMAIN list} \ keys)
        BY <1>4 DEF MissingKey
    <2> HIDE DEF list
    <2>4. pending' \subseteq AllKeys
        BY <1>0, <2>2, <2>3 DEF RestTyped
    <2> QED BY <1>0, <2>3, <2>4 DEF RestTyped
<1>5. ASSUME NEW w \in Workers, Decode(w) \/ PutAppStateVersion(w) \/ DeleteAppStateMutationMACs(w)
      PROVE  RestTyped'
    <2>1. UNCHANGED <<pending, requested, cache, calls, faults>> /\ macs' \subseteq macs
        BY <1>5 DEF Decode, PutAppStateVersion, DeleteAppStateMutationMACs
    <2>2. disturbed' \in BOOLEAN
        BY <1>0, <1>5 DEF Decode, PutAppStateVersion, DeleteAppStateMutationMACs, RestTyped
    <2> QED BY <1>0, <2>1, <2>2 DEF RestTyped
<1>6. ASSUME NEW w \in Workers, PutAppStateMutationMACs(w) PROVE RestTyped'
    <2> DEFINE item == Head(worker[w].list)
               A == AddedMACs(item)
               v == worker[w].version
    <2>1. worker[w].pc \in InStore
        BY <1>6 DEF PutAppStateMutationMACs, InStore
    <2>2. /\ item.version = v /\ v \in 1..Len(log) /\ v <= MaxVersion /\ item.snapshot \in BOOLEAN
          /\ log \in Seq(Patch) /\ (~item.snapshot => AddedBy(A, v, log[v].muts))
        BY <2>1, ItemFacts
    <2>3. A \subseteq MACRows
        <3>1. CASE item.snapshot
            BY <2>2, <3>1, SnapshotMACs
        <3>2. CASE ~item.snapshot
            BY <2>2, <3>2 DEF AddedBy
        <3> QED BY <3>1, <3>2
    <2>4. /\ UNCHANGED <<pending, requested, cache, calls, faults>>
          /\ macs' = macs \/ macs' = macs \cup A
          /\ disturbed' = TRUE \/ disturbed' = disturbed
        BY <1>6 DEF PutAppStateMutationMACs
    <2>5. macs' \subseteq MACRows
        BY <1>0, <2>3, <2>4 DEF RestTyped
    <2>6. disturbed' \in BOOLEAN
        BY <1>0, <2>4 DEF RestTyped
    <2> QED BY <1>0, <2>4, <2>5, <2>6 DEF RestTyped
<1>7. ASSUME NEW w \in Workers, collectEventsToDispatch(w) PROVE RestTyped'
    <2>1. UNCHANGED <<macs, pending, requested, calls, faults, disturbed>>
        BY <1>7 DEF collectEventsToDispatch
    <2>2. worker[w].got \subseteq Values
        BY EachIsGood DEF Operations
    <2>3. \A i \in Indexes : dispatchAppState(i, {x \in worker[w].got : MutationAt(x).index = i})
                                \in Values \cup {NoValue}
        <3> TAKE i \in Indexes
        <3> DEFINE S == {x \in worker[w].got : MutationAt(x).index = i}
        <3>1. S \in SUBSET Values
            BY <2>2
        <3> HIDE DEF S
        <3>2. dispatchAppState(i, S) \in Values \cup {NoValue}
            BY <1>0, <3>1, DispatchType DEF RestTyped
        <3> QED BY <3>2 DEF S
    <2>4. cache' = [i \in Indexes |->
                      dispatchAppState(i, {x \in worker[w].got : MutationAt(x).index = i})]
        BY <1>7 DEF collectEventsToDispatch
    <2>5. cache' \in [Indexes -> Values \cup {NoValue}]
        BY <2>3, <2>4, Zenon
    <2> QED BY <1>0, <2>1, <2>5 DEF RestTyped
<1>8. ASSUME NEW w \in Workers, Sends(w) PROVE RestTyped'
    <2>1. UNCHANGED <<macs, pending, requested, cache, calls, faults, disturbed>>
        BY <1>8 DEF Sends, SendReads, EncodePatch, PostAccepted, PostRefused
    <2> QED BY <1>0, <2>1 DEF RestTyped
<1>9. ASSUME NEW w \in Workers, StoreFails(w) PROVE RestTyped'
    <2>1. /\ UNCHANGED <<macs, pending, requested, cache, calls>>
          /\ faults < MaxFaults /\ faults' = faults + 1
        BY <1>9 DEF StoreFails
    <2>2. disturbed' \in BOOLEAN
        BY <1>0, <1>9 DEF StoreFails, RestTyped
    <2> QED BY <1>0, <1>c, <2>1, <2>2 DEF RestTyped
<1>10. CASE \/ \E key \in AllKeys, muts \in Edits : OtherDeviceSends(key, muts)
            \/ requestMissingAppStateKeys
    <2>1. UNCHANGED <<macs, cache, calls, faults, disturbed>>
        BY <1>10 DEF OtherDeviceSends, requestMissingAppStateKeys
    <2>2. pending' \subseteq AllKeys /\ requested' \subseteq AllKeys
        BY <1>0, <1>10 DEF OtherDeviceSends, requestMissingAppStateKeys, RestTyped
    <2> QED BY <1>0, <2>1, <2>2 DEF RestTyped
<1>11. CASE Crash
    <2>1. /\ UNCHANGED <<macs, cache, calls>> /\ pending' = {} /\ requested' = {}
          /\ faults < MaxFaults /\ faults' = faults + 1
        BY <1>11 DEF Crash
    <2>2. disturbed' \in BOOLEAN
        BY <1>0, <1>11 DEF Crash, RestTyped
    <2> QED BY <1>0, <1>c, <2>1, <2>2 DEF RestTyped
<1> QED
    BY <1>1, <1>2, <1>3, <1>4, <1>5, <1>6, <1>7, <1>8, <1>9, <1>10, <1>11 DEF Next, Applies

\* The invariant about the MACs holds in every state.
LEMMA JInvariance == Spec => []JInv
<1>1. Init => JInv
    <2> SUFFICES ASSUME Init PROVE JInv
        OBVIOUS
    <2>1. /\ log = <<>> /\ version = 0 /\ hash = ZeroHash /\ macs = {} /\ lock = Nobody
          /\ \A w \in Workers : worker[w] = Idle
        BY DEF Init
    <2>2. Sending(Idle) /\ Carrying(log, Idle) /\ ~Held(Idle) /\ Idle.pc = "idle"
        BY IdleFacts
    <2>3. RestTyped
        <3>1. cache \in [Indexes -> Values \cup {NoValue}]
            BY DEF Init
        <3>2. calls \in 0..MaxCalls /\ faults \in 0..MaxFaults
            BY AppStateAssumption DEF Init
        <3>3. disturbed \in BOOLEAN /\ macs = {} /\ pending = {} /\ requested = {}
            BY DEF Init
        <3> QED BY <3>1, <3>2, <3>3 DEF RestTyped
    <2>4. LockInv
        BY <2>1, <2>2, AppStateAssumption DEF LockInv
    <2>5. EditInv
        BY <2>1, <2>2 DEF EditInv
    <2>6. CarryInv
        BY <2>1, <2>2 DEF CarryInv, HashFor
    <2>7. log \in Seq(Patch)
        BY <2>1
    <2>8. Follow(log, macs, version)
        <3>1. \A i : Newest({}, i) = NoValue
            BY NewestNone
        <3>2. \A i : LatestAt(log, i, 0) = NoValue
            BY <2>7, LatestAtZero
        <3> QED BY <2>1, <3>1, <3>2 DEF Follow, NoneNewer
    <2>9. MACInv
        BY <2>1, <2>2, <2>8 DEF MACInv, StoringPCs
    <2> QED BY <2>3, <2>4, <2>5, <2>6, <2>9 DEF JInv
<1>2. IInv /\ JInv /\ [Next]_vars => JInv'
    <2> SUFFICES ASSUME IInv, JInv, [Next]_vars PROVE JInv'
        OBVIOUS
    <2>1. RestTyped'
        BY RestStep
    <2>2. LockInv' /\ EditInv' /\ CarryInv' /\ MACInv'
        <3>1. ASSUME NEW w \in Workers,
                     \/ Starts(w) \/ Fetches(w) \/ Applies(w) \/ Sends(w)
                     \/ RecoveryResets(w) \/ StoreFails(w)
              PROVE  LockInv' /\ EditInv' /\ CarryInv' /\ MACInv'
            <4>1. CASE Starts(w)
                BY <4>1, StartKeeps
            <4>2. CASE Fetches(w)
                BY <4>2, FetchKeeps
            <4>3. CASE Applies(w)
                BY <4>3, ApplyQuiet, PutVersionKeeps, DeleteKeeps, PutMACsKeeps DEF Applies
            <4>4. CASE Sends(w)
                BY <4>4, SendQuiet, PostAcceptedKeeps DEF Sends
            <4>5. CASE RecoveryResets(w) \/ StoreFails(w)
                BY <4>5, ResetKeeps
            <4> QED BY <3>1, <4>1, <4>2, <4>3, <4>4, <4>5
        <3>2. CASE \/ \E key \in AllKeys, muts \in Edits : OtherDeviceSends(key, muts)
                   \/ requestMissingAppStateKeys
                   \/ Crash
                   \/ UNCHANGED vars
            BY <3>2, SurroundingKeeps
        <3> QED BY <3>1, <3>2 DEF Next
    <2> QED BY <2>1, <2>2 DEF JInv
<1> QED BY <1>1, <1>2, Invariance, PTL DEF Spec

-----------------------------------------------------------------------------
(* The theorems about types, MACs and mismatches                           *)

\* Every variable keeps its type, and appStateSyncLock is held by exactly the
\* operation that is between its Lock and its deferred Unlock.
THEOREM TypeCorrect == Spec => []TypeOK
<1>1. IInv /\ JInv => TypeOK
    <2> SUFFICES ASSUME IInv, JInv PROVE TypeOK
        OBVIOUS
    <2>1. version \in Versions
        <3>1. version \in 0..Len(log) /\ Len(log) <= MaxVersion /\ Len(log) \in Nat /\ MaxVersion \in Nat
            BY AppStateAssumption DEF IInv, Typed
        <3> QED BY <3>1 DEF Versions
    <2>2. \A w \in Workers : lock = w <=> LockHeld(w)
        BY DEF JInv, LockInv, Held, LockHeld
    <2> QED BY <2>1, <2>2 DEF IInv, Typed, JInv, RestTyped, LockInv, MACRows, TypeOK
<1> QED BY <1>1, Invariance, JInvariance, PTL

\* As long as nobody was disturbed, nobody is in storeMACs and every patch of the log
\* signs its hash, the newest row of every index is the value that the log gives it
\* at the stored version, whatever snapshots, patches, conflicts and recoveries have
\* stored, in any order.
THEOREM MACsFollow == Spec => []MACsFollowVersion
<1>1. IInv /\ JInv => MACsFollowVersion
    <2> SUFFICES ASSUME IInv, JInv, Undisturbed, NEW i \in Indexes
                 PROVE  GetAppStateMutationMAC(i) = Latest(i, version)
        BY DEF MACsFollowVersion
    <2>1. \A w \in Workers : worker[w].pc \notin StoringPCs
        BY DEF Undisturbed, Storing, StoringPCs
    <2>2. Newest(macs, i) = LatestAt(log, i, version)
        BY <2>1 DEF Undisturbed, JInv, MACInv, Follow
    <2>3. GetAppStateMutationMAC(i) = Newest(macs, i)
        BY Zenon DEF GetAppStateMutationMAC, Newest
    <2> QED BY <2>2, <2>3 DEF Latest, LatestAt
<1> QED BY <1>1, Invariance, JInvariance, PTL

\* A client that nobody disturbed computes the signed hash for the next patch and
\* for a snapshot: validateSnapshotMAC and validatePatch raise no false alarm.
THEOREM NoFalseAlarm == Spec => []NoFalseMismatch
<1>1. IInv /\ JInv => NoFalseMismatch
    <2> SUFFICES ASSUME IInv, JInv, NEW w \in Workers,
                        worker[w].pc = "apply", worker[w].list # <<>>, worker[w].version = version,
                        Head(worker[w].list).snapshot \/ Head(worker[w].list).version = version + 1,
                        Undisturbed
                 PROVE  HashIsSigned(w)
        BY DEF NoFalseMismatch
    <2> DEFINE item == Head(worker[w].list)
               v == item.version
    <2>1. worker[w] \in Operations /\ Good(worker[w]) /\ Carrying(log, worker[w])
        BY EachIsGood DEF JInv, CarryInv
    <2>2. worker[w].list \in Seq(Items)
        BY <2>1 DEF Operations
    <2>3. item \in Items /\ v \in 1..Len(log)
        BY <2>1, <2>2 DEF Good
    <2>4. /\ log \in Seq(Patch) /\ Len(log) <= MaxVersion /\ Len(log) \in Nat /\ MaxVersion \in Nat
          /\ version \in 0..Len(log)
        BY AppStateAssumption DEF IInv, Typed
    <2>5. v <= MaxVersion /\ v \in Nat /\ v > 0
        BY <2>3, <2>4
    <2>6. log[v].hash = HashOf(SubSeq(log, 1, v))
        BY <2>3 DEF Undisturbed, ValidLog
    <2>7. HashOf(SubSeq(log, 1, 0)) = ZeroHash
        <3>1. \A i : LatestAt(log, i, 0) = NoValue
            BY <2>4, LatestAtZero
        <3>2. \A x \in Values : ~\E i \in Indexes : LatestIn(SubSeq(log, 1, 0), i) = x
            BY <3>1, ValueFacts DEF LatestAt
        <3> QED BY <3>2 DEF HashOf, ZeroHash
    <2>8. worker[w].hash = HashOf(SubSeq(log, 1, version))
        <3>1. HashFor(log, version, worker[w].hash)
            BY <2>1 DEF Carrying
        <3>2. CASE version = 0
            BY <2>7, <3>1, <3>2 DEF HashFor
        <3>3. CASE version # 0
            <4>1. version \in 1..Len(log)
                BY <2>4, <3>3
            <4> QED BY <3>1, <3>3, <4>1 DEF HashFor, Undisturbed, ValidLog
        <3> QED BY <3>2, <3>3
    <2>9. CASE item.snapshot
        <3>1. worker[w].version = 0
            BY <2>1, <2>9 DEF Carrying
        <3>2. worker[w].hash = ZeroHash
            BY <2>1, <3>1 DEF Carrying, HashFor
        <3>3. ComputedHash(w) =
                 [x \in Values |-> worker[w].hash[x] + (IF x \in Live(v) THEN 1 ELSE 0)]
            BY <2>9 DEF ComputedHash
        <3>4. \A x \in Values : worker[w].hash[x] = 0
            BY <3>2 DEF ZeroHash
        <3>5. ComputedHash(w) = [x \in Values |-> IF x \in Live(v) THEN 1 ELSE 0]
            <4> DEFINE b(x) == IF x \in Live(v) THEN 1 ELSE 0
            <4>1. \A x \in Values : b(x) \in Nat
                OBVIOUS
            <4> HIDE DEF b
            <4>2. \A x \in Values : worker[w].hash[x] + b(x) = b(x)
                BY <3>4, <4>1
            <4>3. [x \in Values |-> worker[w].hash[x] + b(x)] = [x \in Values |-> b(x)]
                BY <4>2
            <4> QED BY <3>3, <4>3 DEF b
        <3>6. HashOf(SubSeq(log, 1, v)) = [x \in Values |-> IF x \in Live(v) THEN 1 ELSE 0]
            <4>1. \A x \in Values : x \in Live(v) <=> \E i \in Indexes : LatestIn(SubSeq(log, 1, v), i) = x
                BY DEF Live, Latest
            <4> QED BY <4>1 DEF HashOf
        <3> QED BY <2>6, <3>5, <3>6 DEF HashIsSigned
    <2>10. CASE ~item.snapshot
        <3>1. v = version + 1 /\ version = v - 1
            BY <2>4, <2>10
        <3> DEFINE muts == log[v].muts
        <3>2. Len(muts) \in {1, 2}
            BY <2>3, ValueAssumption DEF JInv, EditInv
        <3>3. \A i \in Indexes : Newest(macs, i) = LatestAt(log, i, v - 1)
            <4>1. \A u \in Workers : worker[u].pc \notin StoringPCs
                BY DEF Undisturbed, Storing, StoringPCs
            <4>2. Follow(log, macs, version)
                BY <4>1 DEF Undisturbed, JInv, MACInv
            <4> QED BY <3>1, <4>2 DEF Follow
        <3>4. updateHash(HashOf(SubSeq(log, 1, v - 1)), v, muts, PreviousInPatch(v, muts))
                 = HashOf(SubSeq(log, 1, v))
            BY <2>3, <2>4, <2>5, <3>2, <3>3, PatchHash
        <3>5. ComputedHash(w) = updateHash(worker[w].hash, v, muts, PreviousInPatch(v, muts))
            BY <2>10 DEF ComputedHash
        <3>6. ComputedHash(w) = log[v].hash
            BY <2>6, <2>8, <3>1, <3>4, <3>5
        <3> QED BY <3>6 DEF HashIsSigned
    <2> QED BY <2>9, <2>10
<1> QED BY <1>1, Invariance, JInvariance, PTL
=============================================================================
