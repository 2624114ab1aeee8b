------------------------------- MODULE PreKeys -------------------------------
(***************************************************************************)
(* One-time prekeys: generated and numbered by the store, uploaded in      *)
(* batches by uploadPreKeys or put into a retry receipt, handed out by     *)
(* the server, used by the first message of a peer and removed.            *)
(*                                                                         *)
(* The store is the SQL store or, with remote set, a RemoteSignal behind   *)
(* remotePreKeyStore, which prepares durable batches that must be          *)
(* acknowledged.  A key is its id and a serial number that stands for its  *)
(* material: ids may be used again, material may not.                      *)
(***************************************************************************)
EXTENDS Naturals, FiniteSets, FiniteSetsExt

CONSTANTS
    Triggers,        \* goroutines that call uploadPreKeys
    Nil,
    WantedPreKeyCount, MinPreKeyCount,
    InitialCount,    \* 812 in the code
    MaxKeys,         \* bound: keys generated
    MaxFaults        \* bound: failing requests, failing statements and crashes

ASSUME PreKeysAssumption ==
    /\ Nil \notin Triggers
    /\ WantedPreKeyCount \in Nat \ {0} /\ InitialCount \in Nat \ {0} /\ MinPreKeyCount \in Nat
    /\ MaxKeys \in Nat /\ MaxFaults \in Nat

VARIABLES
    remote,     \* whether the store is a remote one
    rows,       \* the keys in the store, each with its uploaded flag
    serial,     \* keys generated so far
    pending,    \* remote: the prepared batch, durable
    server,     \* the keys the server can hand out
    given,      \* keys in the hands of a peer whose message is on its way
    receipt,    \* keys made for a retry receipt that is not sent yet
    lock,       \* uploadPreKeysLock
    recent,     \* lastPreKeyUpload is less than ten minutes ago
    pc,         \* where a trigger is
    dbCount,    \* the keys it counted in the store, up to MinPreKeyCount
    initial,    \* its initialUpload
    batch,      \* the keys it uploads
    ids,        \* remotePreKeyStore.ids, as the keys they stand for
    awaitingACK,
    faults,
    published,  \* history: keys that reached the server in an upload
    singles,    \* history: keys made for a retry receipt
    confirmed,  \* history: keys whose upload was answered
    repeated,   \* history: keys uploaded again
    crashed     \* history: the process has ended once

store == <<rows, serial, pending>>
uploader == <<lock, recent, pc, dbCount, initial, batch, ids, awaitingACK>>
history == <<published, singles, confirmed, repeated, crashed>>
vars == <<remote, store, server, given, receipt, uploader, faults, history>>

Serials == 1..MaxKeys
Keys == [id : Serials, key : Serials]
Rows == [id : Serials, key : Serials, up : BOOLEAN]
KeyOf(r) == [id |-> r.id, key |-> r.key]
KeysOf(rs) == {KeyOf(r) : r \in rs}

Steps == {"idle", "counting", "locking", "checking", "generating", "numbering", "sending", "waiting", "marking"}

\* Where uploadPreKeysLock is held.
Holding == {"checking", "generating", "numbering", "sending", "waiting", "marking"}

TypeOK ==
    /\ remote \in BOOLEAN
    /\ rows \subseteq Rows /\ \A r, q \in rows : r.id = q.id => r = q
    /\ serial \in 0..MaxKeys
    /\ pending \subseteq Keys /\ server \subseteq Keys /\ given \subseteq Keys /\ receipt \subseteq Keys
    /\ lock \in Triggers \cup {Nil} /\ recent \in BOOLEAN
    /\ pc \in [Triggers -> Steps]
    /\ \A t \in Triggers : pc[t] \in Holding <=> lock = t
    /\ dbCount \in [Triggers -> 0..MinPreKeyCount] /\ initial \in [Triggers -> BOOLEAN]
    /\ batch \subseteq Keys /\ ids \subseteq Keys
    /\ awaitingACK \in BOOLEAN /\ (awaitingACK => ids # {})
    /\ faults \in 0..MaxFaults

Init ==
    /\ remote \in BOOLEAN
    /\ rows = {} /\ serial = 0 /\ pending = {} /\ server = {} /\ given = {} /\ receipt = {}
    /\ lock = Nil /\ recent = FALSE
    /\ pc = [t \in Triggers |-> "idle"] /\ initial = [t \in Triggers |-> FALSE]
    /\ dbCount = [t \in Triggers |-> 0]
    /\ batch = {} /\ ids = {} /\ awaitingACK = FALSE
    /\ faults = 0
    /\ published = {} /\ singles = {} /\ confirmed = {} /\ repeated = {} /\ crashed = FALSE

Goto(t, step) == pc' = [pc EXCEPT ![t] = step]
Fault == faults < MaxFaults /\ faults' = faults + 1

-----------------------------------------------------------------------------
(* The store                                                               *)

\* getNextPreKeyID: one more than the largest id there is now.
NextID == Max({0} \cup {r.id : r \in rows}) + 1

\* n keys with the next ids.
Fresh(n, up) == {[id |-> NextID + k, key |-> serial + 1 + k, up |-> up] : k \in 0..(n - 1)}

Unuploaded == {r \in rows : ~r.up}

\* The keys of the count lowest ids that are not uploaded.
Lowest(count) ==
    {r \in Unuploaded : Cardinality({q \in Unuploaded : q.id < r.id}) < count}

\* Mutant: every row is marked.
MarkedAll(rs, keys) == {[r EXCEPT !.up = TRUE] : r \in rs}

\* markPreKeysAsUploadedQuery, up to the last id of the batch.  That is the largest
\* one, or the largest left in the store: a new key has an id above all there are.
Marked(rs, keys) ==
    {[r EXCEPT !.up = @ \/ \E k \in keys : r.id <= k.id] : r \in rs}

\* AcknowledgePreKeyUpload: the surviving keys of exactly this batch.
Acknowledged(rs, keys) == {[r EXCEPT !.up = @ \/ KeyOf(r) \in keys] : r \in rs}

-----------------------------------------------------------------------------
(* uploadPreKeys                                                           *)

\* handleConnectSuccess: UploadedPreKeyCount, then a request for the server's count.
UploadedPreKeyCount(t) ==
    /\ pc[t] = "idle"
    /\ dbCount' = [dbCount EXCEPT ![t] = Min({MinPreKeyCount, Cardinality({r \in rows : r.up})})]
    /\ Goto(t, "counting")
    /\ UNCHANGED <<remote, store, server, given, receipt, lock, recent, initial, batch, ids, awaitingACK, faults, history>>

\* Its answer, or its failure: upload if either count is low.  The store's count is
\* the one read before the request.
GetServerPreKeyCount(t) ==
    /\ pc[t] = "counting"
    /\ \/ /\ Cardinality(server) < MinPreKeyCount \/ dbCount[t] < MinPreKeyCount
          /\ initial' = [initial EXCEPT ![t] = dbCount[t] = 0 /\ server = {}]
          /\ Goto(t, "locking") /\ UNCHANGED faults
       \/ /\ Cardinality(server) >= MinPreKeyCount /\ dbCount[t] >= MinPreKeyCount
          /\ Goto(t, "idle") /\ UNCHANGED <<initial, faults>>
       \/ Fault /\ Goto(t, "idle") /\ UNCHANGED initial
    /\ dbCount' = [dbCount EXCEPT ![t] = 0]
    /\ UNCHANGED <<remote, store, server, given, receipt, lock, recent, batch, ids, awaitingACK, history>>

\* handleEncryptNotification: the server said that fewer than MinPreKeyCount keys
\* were left, which need not be so any more.
KeysRunLow(t) ==
    /\ pc[t] = "idle" /\ 0 < MinPreKeyCount
    /\ Goto(t, "locking")
    /\ UNCHANGED <<remote, store, server, given, receipt, lock, recent, dbCount, initial, batch, ids, awaitingACK, faults, history>>

\* Mutant: without the lock.
LockUploadAnyway(t) ==
    /\ pc[t] = "locking"
    /\ lock' = t
    /\ Goto(t, IF recent THEN "checking" ELSE "generating")
    /\ UNCHANGED <<remote, store, server, given, receipt, recent, dbCount, initial, batch, ids, awaitingACK, faults, history>>

LockUpload(t) ==
    /\ pc[t] = "locking" /\ lock = Nil
    /\ lock' = t
    /\ Goto(t, IF recent THEN "checking" ELSE "generating")
    /\ UNCHANGED <<remote, store, server, given, receipt, recent, dbCount, initial, batch, ids, awaitingACK, faults, history>>

Return(t) == lock' = Nil /\ batch' = {} /\ initial' = [initial EXCEPT ![t] = FALSE] /\ Goto(t, "idle")

\* Another upload was just made: ask the server whether it has enough.
CheckCount(t) ==
    /\ pc[t] = "checking"
    /\ \/ Cardinality(server) >= WantedPreKeyCount /\ Return(t) /\ UNCHANGED faults
       \/ Cardinality(server) < WantedPreKeyCount /\ Goto(t, "generating") /\ UNCHANGED <<lock, initial, batch, faults>>
       \/ Fault /\ Goto(t, "generating") /\ UNCHANGED <<lock, initial, batch>>   \* the error is ignored
    /\ UNCHANGED <<remote, store, server, given, receipt, recent, dbCount, ids, awaitingACK, history>>

Count(t) == IF initial[t] THEN InitialCount ELSE WantedPreKeyCount

\* GetOrGenPreKeys of the SQL store, under preKeyLock: first the keys that are not
\* uploaded yet.
QueryUnuploaded(t) ==
    /\ pc[t] = "generating" /\ ~remote
    /\ batch' = KeysOf(Lowest(Count(t)))
    /\ Goto(t, "numbering")
    /\ UNCHANGED <<remote, store, server, given, receipt, lock, recent, dbCount, initial, ids, awaitingACK, faults, history>>

\* Then new ones.  RemovePreKey takes no lock, so a key of the first part may be gone
\* by now and its id be the next one.
GetOrGenPreKeys(t) ==
    LET new == Fresh(Count(t) - Cardinality(batch), FALSE) IN
    /\ pc[t] = "numbering"
    /\ serial + Cardinality(new) <= MaxKeys
    /\ rows' = rows \cup new /\ serial' = serial + Cardinality(new)
    /\ batch' = batch \cup KeysOf(new)
    /\ Goto(t, "sending")
    /\ UNCHANGED <<remote, pending, server, given, receipt, lock, recent, dbCount, initial, ids, awaitingACK, faults, history>>

\* A query fails, or an insert: the keys before it stay.
GenerateFails(t) ==
    /\ ~remote /\ Fault
    /\ \/ pc[t] = "generating" /\ UNCHANGED <<rows, serial>>
       \/ /\ pc[t] = "numbering"
          /\ \E n \in 0..(Count(t) - Cardinality(batch) - 1) :
                /\ serial + n <= MaxKeys
                /\ rows' = rows \cup Fresh(n, FALSE) /\ serial' = serial + n
    /\ Return(t)
    /\ UNCHANGED <<remote, pending, server, given, receipt, recent, dbCount, ids, awaitingACK, history>>

\* GetOrGenPreKeys of remotePreKeyStore: the pending batch in full, if any of its
\* keys is left, or a new one.
PrepareUpload(t) ==
    LET live == pending \cap KeysOf(rows)
        new == IF live = {} THEN Fresh(Count(t), FALSE) ELSE {} IN
    /\ pc[t] = "generating" /\ remote /\ ~awaitingACK
    /\ serial + Cardinality(new) <= MaxKeys
    /\ rows' = rows \cup new /\ serial' = serial + Cardinality(new)
    /\ pending' = IF live = {} THEN KeysOf(new) ELSE live
    /\ batch' = pending' /\ ids' = pending'
    /\ Goto(t, "sending")
    /\ UNCHANGED <<remote, server, given, receipt, lock, recent, dbCount, initial, awaitingACK, faults, history>>

\* It fails, or only its answer is lost and the new batch stays pending.
PrepareFails(t) ==
    LET new == Fresh(Count(t), FALSE) IN
    /\ pc[t] = "generating" /\ remote /\ ~awaitingACK /\ Fault
    /\ \/ UNCHANGED store
       \/ /\ pending \cap KeysOf(rows) = {} /\ serial + Cardinality(new) <= MaxKeys
          /\ rows' = rows \cup new /\ serial' = serial + Cardinality(new)
          /\ pending' = KeysOf(new)
    /\ Return(t)
    /\ UNCHANGED <<remote, server, given, receipt, recent, dbCount, ids, awaitingACK, history>>

\* The upload reaches the server.
UploadArrives(t) ==
    /\ pc[t] = "sending"
    /\ server' = {k \in server : \A b \in batch : b.id # k.id} \cup batch
    /\ repeated' = repeated \cup (batch \cap published)
    /\ published' = published \cup batch
    /\ Goto(t, "waiting")
    /\ UNCHANGED <<remote, store, given, receipt, lock, recent, dbCount, initial, batch, ids, awaitingACK, faults, singles, confirmed, crashed>>

\* The request or its answer is lost.
UploadFails(t) ==
    /\ pc[t] \in {"sending", "waiting"} /\ Fault
    /\ Return(t)
    /\ UNCHANGED <<remote, store, server, given, receipt, recent, dbCount, ids, awaitingACK, history>>

UploadAnswered(t) ==
    /\ pc[t] = "waiting"
    /\ confirmed' = confirmed \cup batch
    /\ Goto(t, "marking")
    /\ UNCHANGED <<remote, store, server, given, receipt, lock, recent, dbCount, initial, batch, ids, awaitingACK, faults, published, singles, repeated, crashed>>

\* MarkPreKeysAsUploaded of the SQL store; a failure is only logged.
MarkPreKeysAsUploaded(t) ==
    /\ pc[t] = "marking" /\ ~remote
    /\ \/ rows' = Marked(rows, batch) /\ recent' = TRUE /\ UNCHANGED faults
       \/ Fault /\ UNCHANGED <<rows, recent>>
    /\ Return(t)
    /\ UNCHANGED <<remote, serial, pending, server, given, receipt, dbCount, ids, awaitingACK, history>>

\* Mutant: an ACK that failed is not tried again.
acknowledgeOnce(keys) ==
    \/ /\ rows' = Acknowledged(rows, keys) /\ pending' = pending \ keys
       /\ ids' = {} /\ awaitingACK' = FALSE
       /\ UNCHANGED faults
    \/ /\ ids' = {} /\ awaitingACK' = FALSE
       /\ Fault /\ UNCHANGED <<rows, pending>>

\* acknowledgeLocked: the remote store applies the ACK, and its answer may be lost.
acknowledgeLocked(keys) ==
    \/ /\ rows' = Acknowledged(rows, keys) /\ pending' = pending \ keys
       /\ ids' = {} /\ awaitingACK' = FALSE
       /\ UNCHANGED faults
    \/ /\ rows' = Acknowledged(rows, keys) /\ pending' = pending \ keys
       /\ awaitingACK' = TRUE
       /\ Fault /\ UNCHANGED ids
    \/ /\ awaitingACK' = TRUE
       /\ Fault /\ UNCHANGED <<rows, pending, ids>>

\* MarkPreKeysAsUploaded of remotePreKeyStore.
AcknowledgeUpload(t) ==
    /\ pc[t] = "marking" /\ remote
    /\ acknowledgeLocked(ids)
    /\ recent' = (recent \/ ~awaitingACK')
    /\ Return(t)
    /\ UNCHANGED <<remote, serial, server, given, receipt, dbCount, history>>

\* An ACK whose answer was lost is settled before the next batch is prepared.
SettleACK(t) ==
    /\ pc[t] = "generating" /\ remote /\ awaitingACK
    /\ acknowledgeLocked(ids)
    /\ IF awaitingACK' THEN Return(t) ELSE UNCHANGED <<lock, initial, batch, pc>>
    /\ UNCHANGED <<remote, serial, server, given, receipt, recent, dbCount, history>>

-----------------------------------------------------------------------------
(* A key for a retry receipt, and using keys up                            *)

\* sendRetryReceipt: the key is marked at once.  preKeyLock keeps it out of
\* GetOrGenPreKeys.
GenOnePreKey ==
    LET new == Fresh(1, TRUE) IN
    /\ serial < MaxKeys /\ \A t \in Triggers : pc[t] # "numbering"
    /\ rows' = rows \cup new /\ serial' = serial + 1
    /\ receipt' = receipt \cup KeysOf(new) /\ singles' = singles \cup KeysOf(new)
    /\ UNCHANGED <<remote, pending, server, given, uploader, faults, published, confirmed, repeated, crashed>>

\* The receipt reaches the peer, or it is never sent or lost and nobody learns of the key.
SendRetryReceipt(k) ==
    /\ k \in receipt
    /\ receipt' = receipt \ {k}
    /\ given' \in {given, given \cup {k}}
    /\ UNCHANGED <<remote, store, server, uploader, faults, history>>

\* The remote store generates the key, but marking it fails, or is done and only its
\* answer lost: the receipt goes without.
GenOneUnmarked ==
    /\ remote /\ serial < MaxKeys /\ Fault
    /\ \E up \in BOOLEAN :
          rows' = rows \cup Fresh(1, up) /\ singles' = singles \cup KeysOf(Fresh(1, up))
    /\ serial' = serial + 1
    /\ UNCHANGED <<remote, pending, server, given, receipt, uploader, published, confirmed, repeated, crashed>>

\* The server hands out a key, once.
HandOut(k) ==
    /\ k \in server
    /\ server' = server \ {k} /\ given' = given \cup {k}
    /\ UNCHANGED <<remote, store, receipt, uploader, faults, history>>

\* Mutant: the row goes by its id, before the decryption has shown that it fits.
UsePreKeyEarly(k) ==
    /\ k \in given
    /\ given' = given \ {k}
    /\ rows' = {r \in rows : r.id # k.id}
    /\ UNCHANGED <<remote, serial, pending, server, receipt, uploader, faults, history>>

\* The first message of a peer: its key is loaded by id, and removed together
\* with the decryption if it fits.
UsePreKey(k) ==
    /\ k \in given
    /\ given' = given \ {k}
    /\ rows' = {r \in rows : KeyOf(r) # k}
    /\ UNCHANGED <<remote, serial, pending, server, receipt, uploader, faults, history>>

TenMinutes ==
    /\ recent
    /\ recent' = FALSE
    /\ UNCHANGED <<remote, store, server, given, receipt, lock, pc, dbCount, initial, batch, ids, awaitingACK, faults, history>>

\* The process ends; the store and the server stay.
Crash ==
    /\ Fault
    /\ lock' = Nil /\ recent' = FALSE /\ pc' = [t \in Triggers |-> "idle"]
    /\ dbCount' = [t \in Triggers |-> 0] /\ initial' = [t \in Triggers |-> FALSE]
    /\ batch' = {} /\ ids' = {} /\ awaitingACK' = FALSE /\ receipt' = {}
    /\ crashed' = TRUE
    /\ UNCHANGED <<remote, store, server, given, published, singles, confirmed, repeated>>

-----------------------------------------------------------------------------
Upload(t) ==
    \/ UploadedPreKeyCount(t) \/ GetServerPreKeyCount(t) \/ KeysRunLow(t) \/ LockUpload(t) \/ CheckCount(t)
    \/ QueryUnuploaded(t) \/ GetOrGenPreKeys(t) \/ GenerateFails(t) \/ PrepareUpload(t) \/ PrepareFails(t)
    \/ UploadArrives(t) \/ UploadFails(t) \/ UploadAnswered(t)
    \/ MarkPreKeysAsUploaded(t) \/ AcknowledgeUpload(t) \/ SettleACK(t)

Next ==
    \/ \E t \in Triggers : Upload(t)
    \/ GenOnePreKey \/ GenOneUnmarked
    \/ \E k \in Keys : SendRetryReceipt(k) \/ HandOut(k) \/ UsePreKey(k)
    \/ TenMinutes \/ Crash

Spec == Init /\ [][Next]_vars

-----------------------------------------------------------------------------
(* Properties                                                              *)

\* A key the server can hand out, or that a peer is about to use, is in the store
\* under its id with its material, although ids are used again: unless it was
\* uploaded a second time because the first upload was not recorded.
OfferedKeysWork == \A k \in server \cup given : k \in KeysOf(rows) \/ k \in repeated

\* A key that was made for an upload is marked as uploaded only once the server has
\* had it, although MarkPreKeysAsUploaded marks by id, ids are used again and keys
\* come and go meanwhile: none is left out of every batch.
MarkedWasUploaded == \A r \in rows : r.up => KeyOf(r) \in published \cup singles

\* Once the server has confirmed a batch, remotePreKeyStore acknowledges it, if need
\* be again and again, and never uploads it a second time: only the end of the
\* process can lose the acknowledgement.
ConfirmedStaysConfirmed ==
    [][remote /\ ~crashed => (repeated' \ repeated) \cap confirmed = {}]_vars
=============================================================================
