------------------------------ MODULE Sessions ------------------------------
(***************************************************************************)
(* The Signal session with one device of a peer, as SendMessage, the       *)
(* handlers of retry receipts and the decryption of incoming messages      *)
(* read, change and write it, and as MigratePNToLID moves it from the      *)
(* peer's phone number to its LID.                                         *)
(*                                                                         *)
(* A session is its sending chain and the number of the next message key   *)
(* in it.  Building a session from a prekey bundle, or decrypting a        *)
(* message with a new ratchet key, starts a new chain.  What the Signal    *)
(* library does between LoadSession and StoreSession is external; it       *)
(* holds no lock, and no lock of the client spans the two but              *)
(* messageSendLock, which SendMessage takes only after it has encrypted    *)
(* for an inline bot.                                                      *)
(***************************************************************************)
EXTENDS Naturals, FiniteSets

CONSTANTS
    Senders,     \* calls of SendMessage, from where they take messageSendLock
    InlineCalls, \* calls of SendMessage that invoke the peer as inline bot, up to there
    Retriers,    \* handlers of retry receipts
    Decrypters,  \* handlers of incoming messages
    Nil,
    Together,    \* bound: the sets of workers at work at the same time
    MaxChains,   \* bound: chains started
    MaxKeys,     \* bound: message keys of a chain
    MaxFaults    \* bound: failing statements, crashes and new identities

\* Both run encryptMessageForDevices.
Encrypters == Senders \cup InlineCalls
Workers == Encrypters \cup Retriers \cup Decrypters
Session == [chain : 1..MaxChains, next : 0..MaxKeys]

ASSUME SessionsAssumption ==
    /\ Senders \cap InlineCalls = {} /\ Encrypters \cap Retriers = {}
    /\ Encrypters \cap Decrypters = {} /\ Retriers \cap Decrypters = {}
    /\ Nil \notin Workers /\ Nil \notin Session
    /\ MaxChains \in Nat \ {0} /\ MaxKeys \in Nat \ {0} /\ MaxFaults \in Nat

VARIABLES
    session,    \* the rows of whatsmeow_sessions
    chains,     \* chains started
    known,      \* the LID of the peer is known
    migration,  \* the caches of MigratePNToLID
    sendLock,   \* messageSendLock
    recreated,  \* sessionRecreateHistory: addresses with an entry of this hour
    pc,
    addr,       \* the address the worker uses
    bundle,     \* whether it has a prekey bundle
    local,      \* the session it has loaded
    faults,
    used,       \* history: message keys of what was handed on to be sent
    reused,     \* history: one of them for a second time
    disturbed   \* history: somebody wrote a session between another's load and store

Addresses == {"pn", "lid"}
Steps == {"idle", "deciding", "fetching", "resolving", "moving", "building", "loading", "storing"}
\* done: in migratedPNSessionsCache or, for a while, in emptyPNMigrationCache.
Caches == {"none", "migrating", "done"}

worker == <<sendLock, pc, addr, bundle, local>>
history == <<used, reused, disturbed>>
vars == <<session, chains, known, migration, recreated, worker, faults, history>>

TypeOK ==
    /\ session \in [Addresses -> Session \cup {Nil}] /\ chains \in 0..MaxChains
    /\ known \in BOOLEAN /\ migration \in Caches
    /\ sendLock \in Senders \cup {Nil}
    /\ \A w \in Senders : pc[w] # "idle" <=> sendLock = w
    /\ recreated \subseteq Addresses
    /\ pc \in [Workers -> Steps] /\ addr \in [Workers -> Addresses]
    /\ bundle \in [Workers -> BOOLEAN]
    /\ local \in [Workers -> Session \cup {Nil}]
    /\ \A w \in Workers : pc[w] = "storing" <=> local[w] # Nil
    /\ faults \in 0..MaxFaults

Init ==
    /\ session \in {[a \in Addresses |-> Nil],
                    [a \in Addresses |-> IF a = "pn" THEN [chain |-> 1, next |-> 0] ELSE Nil]}
    /\ chains = 1 /\ known = FALSE /\ migration = "none" /\ sendLock = Nil /\ recreated = {}
    /\ pc = [w \in Workers |-> "idle"] /\ addr = [w \in Workers |-> "pn"]
    /\ bundle = [w \in Workers |-> FALSE] /\ local = [w \in Workers |-> Nil]
    /\ faults = 0
    /\ used = {} /\ reused = FALSE /\ disturbed = FALSE

Goto(w, step) == pc' = [pc EXCEPT ![w] = step]
Fault == faults < MaxFaults /\ faults' = faults + 1

\* A worker is done, with or without success.
Finish(w) ==
    /\ Goto(w, "idle")
    /\ addr' = [addr EXCEPT ![w] = "pn"] /\ bundle' = [bundle EXCEPT ![w] = FALSE]
    /\ local' = [local EXCEPT ![w] = Nil]
    /\ sendLock' = IF sendLock = w THEN Nil ELSE sendLock

Fresh == [chain |-> chains + 1, next |-> 0]
NewChain == chains < MaxChains /\ chains' = chains + 1

\* A write to the table while others are between their load and their store.
Write(w, rows) ==
    /\ session' = rows
    /\ disturbed' = (disturbed \/ \E v \in Workers \ {w} :
                                     pc[v] = "storing" /\ ~({v, w} \subseteq Senders))

-----------------------------------------------------------------------------
(* Who wants a session                                                     *)

\* The model has room for w beside the workers that are busy.
Joins(w) == \E group \in Together : {u \in Workers : u = w \/ pc[u] # "idle"} \subseteq group

\* Mutant: SendMessage without its lock.
SendMessageUnlocked(w, a) ==
    /\ w \in Senders /\ pc[w] = "idle" /\ Joins(w)
    /\ sendLock' = w
    /\ addr' = [addr EXCEPT ![w] = a]
    /\ Goto(w, "resolving")
    /\ UNCHANGED <<session, chains, known, migration, recreated, bundle, local, faults, history>>

\* SendMessage to a device by its phone number or its LID.
SendMessage(w, a) ==
    /\ w \in Senders /\ pc[w] = "idle" /\ Joins(w)
    /\ sendLock = Nil /\ sendLock' = w
    /\ addr' = [addr EXCEPT ![w] = a]
    /\ Goto(w, "resolving")
    /\ UNCHANGED <<session, chains, known, migration, recreated, bundle, local, faults, history>>

\* SendMessage encrypts for the inline bot before it takes the lock.
SendToInlineBot(w, a) ==
    /\ w \in InlineCalls /\ pc[w] = "idle" /\ Joins(w)
    /\ addr' = [addr EXCEPT ![w] = a]
    /\ Goto(w, "resolving")
    /\ UNCHANGED <<session, chains, known, migration, recreated, sendLock, bundle, local, faults, history>>

\* A retry receipt of the device, with or without a prekey bundle.
handleRetryReceipt(w, a, hasKeys) ==
    /\ w \in Retriers /\ pc[w] = "idle" /\ Joins(w)
    /\ addr' = [addr EXCEPT ![w] = a] /\ bundle' = [bundle EXCEPT ![w] = hasKeys]
    /\ Goto(w, IF hasKeys THEN "resolving" ELSE "deciding")
    /\ UNCHANGED <<session, chains, known, migration, recreated, sendLock, local, faults, history>>

\* shouldRecreateSession, for the address of the receipt; many: retryCount >= 2.  A
\* failing ContainsSession answers no.
shouldRecreateSession(w, many) ==
    LET a == addr[w]
        recreate == session[a] = Nil \/ (many /\ a \notin recreated) IN
    /\ pc[w] = "deciding"
    /\ \/ /\ recreated' = IF recreate THEN recreated \cup {a} ELSE recreated
          /\ Goto(w, IF recreate THEN "fetching" ELSE "resolving")
          /\ UNCHANGED faults
       \/ Fault /\ Goto(w, "resolving") /\ UNCHANGED recreated
    /\ UNCHANGED <<session, chains, known, migration, sendLock, addr, bundle, local, history>>

\* The mapping is learnt from elsewhere.
LearnLID ==
    /\ ~known /\ known' = TRUE
    /\ UNCHANGED <<session, chains, migration, recreated, worker, faults, history>>

-----------------------------------------------------------------------------
(* MigratePNToLID                                                          *)

Migrated(w) == Goto(w, IF bundle[w] THEN "building" ELSE "loading")

\* Done before, found empty a moment ago, or being done by another worker: go on.
StartMigration(w) ==
    IF migration = "none" THEN migration' = "migrating" /\ Goto(w, "moving")
                          ELSE Migrated(w) /\ UNCHANGED migration

\* GetLIDForPN, GetManyLIDsForPNs: a phone number whose LID is known is encrypted for
\* under the LID, once its session has been moved there.  When the lookup fails
\* SendMessage returns, and a retry goes on with the phone number.
ResolveLID(w) ==
    /\ pc[w] = "resolving"
    /\ \/ /\ addr[w] = "pn" /\ known
          /\ addr' = [addr EXCEPT ![w] = "lid"] /\ StartMigration(w)
          /\ UNCHANGED <<sendLock, bundle, local, faults>>
       \/ /\ addr[w] = "lid" \/ ~known
          /\ Migrated(w)
          /\ UNCHANGED <<sendLock, addr, bundle, local, migration, faults>>
       \/ /\ addr[w] = "pn" /\ w \in Encrypters /\ Fault
          /\ Finish(w) /\ UNCHANGED migration
       \/ /\ addr[w] = "pn" /\ w \in Retriers /\ Fault
          /\ Migrated(w)
          /\ UNCHANGED <<sendLock, addr, bundle, local, migration>>
    /\ UNCHANGED <<session, chains, known, recreated, history>>

\* decryptMessages: the LID of a phone number comes with the message or is resolved;
\* a message from the LID itself moves nothing.
decryptMessages(w, a) ==
    /\ w \in Decrypters /\ pc[w] = "idle" /\ Joins(w)
    /\ addr' = [addr EXCEPT ![w] = "lid"]
    /\ \/ a = "pn" /\ known' = TRUE /\ StartMigration(w)
       \/ a = "lid" /\ Migrated(w) /\ UNCHANGED <<known, migration>>
    /\ UNCHANGED <<session, chains, recreated, sendLock, bundle, local, faults, history>>

\* Mutant: a failed migration is never taken off the list.
MoveForgets(w) ==
    /\ pc[w] = "moving" /\ session["pn"] # Nil
    /\ \/ /\ Write(w, [a \in Addresses |-> IF a = "lid" THEN session["pn"] ELSE Nil])
          /\ migration' = "done" /\ UNCHANGED faults
       \/ /\ Fault /\ UNCHANGED <<migration, session, disturbed>>
    /\ Migrated(w)
    /\ UNCHANGED <<chains, known, recreated, sendLock, addr, bundle, local, used, reused>>

\* The query for rows and the transaction, in which the row of the phone number
\* replaces the one of the LID.
MoveSessions(w) ==
    /\ pc[w] = "moving" /\ session["pn"] # Nil
    /\ \/ /\ Write(w, [a \in Addresses |-> IF a = "lid" THEN session["pn"] ELSE Nil])
          /\ migration' = "done" /\ UNCHANGED faults
       \/ /\ Fault /\ migration' = "none" /\ UNCHANGED <<session, disturbed>>
    /\ Migrated(w)
    /\ UNCHANGED <<chains, known, recreated, sendLock, addr, bundle, local, used, reused>>

\* The phone number has no session: it has no rows at all, or the transaction, run
\* for its identity or sender keys or because the check failed, moves none.
MoveNoSession(w) ==
    /\ pc[w] = "moving" /\ session["pn"] = Nil
    /\ \/ migration' = "done" /\ UNCHANGED faults
       \/ Fault /\ migration' = "none"
    /\ Migrated(w)
    /\ UNCHANGED <<session, chains, known, recreated, sendLock, addr, bundle, local, history>>

\* The server says that the peer has a new identity: the sessions of the address it
\* names go, and those of the other one if it is known; either deletion may fail.
deleteIdentityChangeState(gone) ==
    /\ \E a \in gone : session[a] # Nil
    /\ known \/ Cardinality(gone) = 1
    /\ Fault
    /\ Write(Nil, [a \in Addresses |-> IF a \in gone THEN Nil ELSE session[a]])
    /\ UNCHANGED <<chains, known, migration, recreated, worker, used, reused>>

\* emptyPNMigrationTTL ends, or the bounded cache evicts the entry.
CacheExpires ==
    /\ migration = "done"
    /\ migration' = "none"
    /\ UNCHANGED <<session, chains, known, recreated, worker, faults, history>>

-----------------------------------------------------------------------------
(* Load, use, store                                                        *)

\* WithCachedSessions of SendMessage, LoadSession of the others; both may fail.
LoadSession(w) ==
    /\ pc[w] = "loading"
    /\ \/ /\ session[addr[w]] # Nil
          /\ w \in Decrypters \/ session[addr[w]].next < MaxKeys
          /\ local' = [local EXCEPT ![w] = session[addr[w]]]
          /\ Goto(w, "storing")
          /\ UNCHANGED <<sendLock, addr, bundle, faults>>
       \/ Fault /\ Finish(w)
    /\ UNCHANGED <<session, chains, known, migration, recreated, history>>

\* No session: SendMessage fetches a bundle, a retry fails with ErrNoSession, and a
\* decryption starts a session if the message is a prekey message.
NoSession(w) ==
    /\ pc[w] = "loading" /\ session[addr[w]] = Nil
    /\ \/ /\ w \in Encrypters /\ Goto(w, "fetching")
          /\ UNCHANGED <<chains, sendLock, addr, bundle, local>>
       \/ /\ w \in Decrypters /\ NewChain
          /\ local' = [local EXCEPT ![w] = Fresh] /\ Goto(w, "storing")
          /\ UNCHANGED <<sendLock, addr, bundle>>
       \/ w \notin Encrypters /\ Finish(w) /\ UNCHANGED chains
    /\ UNCHANGED <<session, known, migration, recreated, faults, history>>

\* fetchPreKeys.  Without a bundle SendMessage leaves the device out, and the retry
\* fails.  SendMessage builds the session in its cache.
fetchPreKeys(w) ==
    /\ pc[w] = "fetching"
    /\ \/ /\ w \in Encrypters /\ NewChain
          /\ local' = [local EXCEPT ![w] = Fresh] /\ Goto(w, "storing")
          /\ UNCHANGED <<sendLock, addr, bundle>>
       \/ /\ w \in Retriers
          /\ bundle' = [bundle EXCEPT ![w] = TRUE] /\ Goto(w, "resolving")
          /\ UNCHANGED <<chains, sendLock, addr, local>>
       \/ Finish(w) /\ UNCHANGED chains
    /\ UNCHANGED <<session, known, migration, recreated, faults, history>>

\* ProcessBundle of a retry: a new session is stored, and loaded again to encrypt.
\* It fails, perhaps after clearUntrustedIdentity has deleted the old session.
ProcessBundle(w) ==
    /\ pc[w] = "building"
    /\ \/ /\ NewChain /\ Write(w, [session EXCEPT ![addr[w]] = Fresh])
          /\ bundle' = [bundle EXCEPT ![w] = FALSE]
          /\ Goto(w, "loading")
          /\ UNCHANGED <<sendLock, addr, local, faults>>
       \/ /\ Fault /\ Finish(w) /\ UNCHANGED chains
          /\ \/ UNCHANGED <<session, disturbed>>
             \/ Write(w, [session EXCEPT ![addr[w]] = Nil])
    /\ UNCHANGED <<known, migration, recreated, used, reused>>

\* Mutant: the ciphertext goes out although its session could not be stored.
SendsUnstored(w) ==
    LET key == local[w] IN
    /\ pc[w] = "storing" /\ w \notin Decrypters
    /\ \/ Write(w, [session EXCEPT ![addr[w]] = [key EXCEPT !.next = @ + 1]]) /\ UNCHANGED faults
       \/ Fault /\ UNCHANGED <<session, disturbed>>
    /\ used' = used \cup {key} /\ reused' = (reused \/ key \in used)
    /\ Finish(w)
    /\ UNCHANGED <<chains, known, migration, recreated>>

\* Encrypt and store (StoreSession, PutCachedSessions): the message is sent only
\* when the session has been stored.
EncryptAndStore(w) ==
    LET key == local[w] IN
    /\ pc[w] = "storing" /\ w \notin Decrypters
    /\ \/ /\ Write(w, [session EXCEPT ![addr[w]] = [key EXCEPT !.next = @ + 1]])
          /\ used' = used \cup {key} /\ reused' = (reused \/ key \in used)
          /\ UNCHANGED faults
       \/ Fault /\ UNCHANGED <<session, history>>
    /\ Finish(w)
    /\ UNCHANGED <<chains, known, migration, recreated>>

\* Decrypt and store: the message may bring a new ratchet key, and the transaction
\* may be rolled back.
DecryptAndStore(w) ==
    /\ pc[w] = "storing" /\ w \in Decrypters
    /\ \/ /\ Write(w, [session EXCEPT ![addr[w]] = local[w]]) /\ UNCHANGED <<chains, faults>>
       \/ /\ NewChain /\ Write(w, [session EXCEPT ![addr[w]] = Fresh]) /\ UNCHANGED faults
       \/ Fault /\ UNCHANGED <<session, chains, disturbed>>
    /\ Finish(w)
    /\ UNCHANGED <<known, migration, recreated, used, reused>>

-----------------------------------------------------------------------------
HourPasses ==
    /\ recreated # {} /\ recreated' = {}
    /\ UNCHANGED <<session, chains, known, migration, worker, faults, history>>

Crash ==
    /\ Fault
    /\ migration' = "none" /\ recreated' = {} /\ sendLock' = Nil
    /\ pc' = [w \in Workers |-> "idle"] /\ addr' = [w \in Workers |-> "pn"]
    /\ bundle' = [w \in Workers |-> FALSE] /\ local' = [w \in Workers |-> Nil]
    /\ UNCHANGED <<session, chains, known, history>>

Next ==
    \/ \E w \in Workers :
          \/ \E a \in Addresses : SendMessage(w, a) \/ SendToInlineBot(w, a) \/ decryptMessages(w, a)
          \/ \E a \in Addresses, hasKeys \in BOOLEAN : handleRetryReceipt(w, a, hasKeys)
          \/ \E many \in BOOLEAN : shouldRecreateSession(w, many)
          \/ ResolveLID(w) \/ MoveSessions(w) \/ MoveNoSession(w)
          \/ LoadSession(w) \/ NoSession(w) \/ fetchPreKeys(w) \/ ProcessBundle(w)
          \/ EncryptAndStore(w) \/ DecryptAndStore(w)
    \/ \E gone \in SUBSET Addresses : deleteIdentityChangeState(gone)
    \/ LearnLID \/ CacheExpires \/ HourPasses \/ Crash

Spec == Init /\ [][Next]_vars

-----------------------------------------------------------------------------
(* Properties                                                              *)

\* No two messages are ever sent under one message key unless somebody's load and
\* store were disturbed: a retry, a decryption, a migration, a deletion or a call for
\* an inline bot wrote between them, or a call for an inline bot was written under.
\* So two calls of SendMessage do not do it once they hold messageSendLock, and
\* neither does a store that failed, a crash, a recreated or a migrated session.
SendsUseFreshKeys == reused => disturbed

\* A phone number is marked as being migrated exactly while one worker migrates it:
\* no way out of MigratePNToLID leaves it marked, which would stop every later one.
MigratingHasOwner ==
    Cardinality({w \in Workers : pc[w] = "moving"}) = IF migration = "migrating" THEN 1 ELSE 0

\* No message key encrypts two messages ("everything will explode if you send a
\* message to the same user twice in parallel").
FreshKeys == ~reused
=============================================================================
