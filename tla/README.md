# Verification of hypermeow

hypermeow is a Go client library for the WhatsApp multi-device protocol: one
`Client` keeps a websocket to the server, encrypts and decrypts messages with
Signal sessions that live in a store, and turns stanzas into events for the
application. This directory holds TLA+ models of its parts that are hard to
test, the TLC configurations that check them and TLAPS proofs about them.
`PROJECT.json` lists, for every definition that models code, the lines it
models; line numbers below refer to the same commit.

## 1. The system

| component | source | state | operations | talks to |
|---|---|---|---|---|
| Connection lifecycle | `client.go`, `connectionevents.go`, `keepalive.go`, `connection_lifecycle.go` | `socket`, `socketLock`, `expectedDisconnect`, `forceAutoReconnect`, `handlerQueueWait`, `isLoggedIn` | Connect, Disconnect, ResetConnection, Logout, autoReconnect, onDisconnect, finishDisconnect, keepalive, stream errors and connect failures | socket layer (callbacks), handler queue, response waiters, store |
| Handler queue | `client.go` | one bounded channel and one loop per connection | enqueueNode, handlerQueueLoop, handleNode | consumer goroutine, every stanza handler |
| Socket layer | `socket/`, `handshake.go` | websocket, reassembly buffer, Noise counters, `destroyed` | Connect, Close, SendFrame, readPump, consumeFrames, Stop | connection lifecycle |
| Requests and waiters | `request.go`, `send.go`, `newsletter.go`, `remote_signal.go` | `responseWaiters` and its one-slot channels | sendIQ, retryFrame, waitResponse, receiveResponse, cancelResponse, clearResponseWaiters | consumer, every API that asks the server |
| Receiving messages | `message.go`, `receipt.go`, `cache.go` | the current stanza, retry counters, delayed phone requests | handleEncryptedMessage, decryptMessages, handleDecryptedMessage, receipts | Signal store, event buffer, event handlers |
| Decrypted event buffer | `store/sqlstore/store.go`, `message.go` | rows (ciphertext hash, plaintext or NULL) | Get, Put, Clear, DeleteOld | decryption transaction |
| Retry receipts, sent | `retry.go`, `cache.go` | `messageRetries` | sendRetryReceipt, delayedRequestMessageFromPhone | receiving |
| Retry receipts, answered | `retry.go` | recent messages, incoming counters, session recreation history | handleRetryReceipt | sending, sessions |
| Sending | `send.go`, `sendfb.go`, `broadcast.go` | device and group caches, sender-key distribution | SendMessage, fan-out, participant hash | prekeys, sessions, waiters |
| Prekeys | `prekeys.go`, `store/sqlstore/store.go`, `remote_signal.go` | prekey rows and their uploaded flag | uploadPreKeys, getServerPreKeyCount, MarkPreKeysAsUploaded | waiters, store |
| App state | `appstate.go`, `appstate/` | version, LTHash and mutation MACs per collection, keys, requested keys | FetchAppState, SendAppState, key shares, recovery | waiters, store, event handlers |
| Signal stores, LID map | `store/` | sessions, identities, the write-back session cache, LID and phone indexes | load and save, MigratePNToLID, Delete | receiving, sending |
| Pairing | `pair.go`, `pair-code.go`, `pair-passkey.go`, `qrchan.go` | QR channel, linking cache | QR rotation, pair codes, finishing a pairing | connection lifecycle |
| Media | `download.go`, `upload.go`, `mediaconn.go` | cached media connection | host and retry loops, refresh | HTTP |
| Binary codec | `binary/` | none | encode, decode | every stanza |
| Notifications, groups, users, privacy, tokens | one file each | small caches | one request or one event each | waiters |

What is hard here. Every public method runs on the application's goroutine while
the frame consumer, the handler loop, keepalive, disconnect callbacks and
reconnects run on others. Locks are held for parts of an operation only:
a socket is read under a lock and used after it, a waiter is taken out of its
map under a lock and sent to afterwards. The server repeats what was not
acknowledged, the process may end between using up a message key and telling
the application, and acks overtake retry receipts. `PROJECT.json` lists these
hazards at their lines with the properties that cover them.

What makes each component correct, as far as it is stated so far:

* connection: no websocket is leaked, handlers of two connections do not
  overlap unless one had to be left behind, an overflowing queue leads to a reset, a lost connection to a
  reconnect, and Disconnect stays in force;
* requests: a waiting request can always be woken and never waits on a socket
  that is gone;
* receiving: an acknowledged message has been accepted by the application, and an
  accepted one is not dispatched again;
* app state: the stored version, its LTHash and the mutation MACs describe the
  same point of the server's log, so that valid patches are accepted, patches
  sent are valid, and what a version contains reaches the caches;
* sockets: frames arrive whole and in order, and what is sealed is written in the
  order of its counters;
* prekeys: a key that a peer can get or has got is in the store with its material;
* sessions: no message key encrypts two messages, and a session that has moved is
  found where it moved to;
* LID map: the cache answers what the table says, in both directions;
* answering retries: a recent message can be sent again, after a restart too, and
  only so often.

## 2. Modules

| module | models | composed with |
|---|---|---|
| `Connection` | connection lifecycle, handler queue, the socket layer's closing | - |
| `ConnectionProofs` | theorems about `Connection` and `Sockets` | extends both |
| `RequestWaiters` | requests, their channels and what they see of the connection | abstracts `Connection` |
| `RequestProofs` | theorems about `RequestWaiters` | extends `RequestWaiters` |
| `MessageReceive` | receiving, the event buffer, retry receipts and acks | takes from `Connection` that handlers may overlap |
| `MessageReceiveProofs` | theorems about `MessageReceive` | extends `MessageReceive` |
| `AppState` | one app state collection: fetching, sending, recovery, keys | - |
| `AppStateProofs` | theorems about `AppState` | extends `AppState` |
| `LIDStore` | what callers of `store.LIDStore` may rely on (abstract) | - |
| `LIDMap` | `CachedLIDMap`: the table, its two caches and their lock | implements `LIDStore` |
| `LIDMapProofs` | theorems about `LIDMap`, the refinement among them | extends `LIDMap` |
| `Sockets` | `FrameSocket` and `NoiseSocket` after the handshake | the part of the socket layer `Connection` leaves out |
| `PreKeys` | one-time prekeys, local and remote | - |
| `PreKeysProofs` | theorems about `PreKeys` | extends `PreKeys` |
| `SenderRetry` | recent messages, the retry store, handlers of retry receipts | leaves the session to `Sessions` |
| `SenderRetryProofs` | theorems about `SenderRetry` | extends `SenderRetry` |
| `Sessions` | the session with one device: sends, retries, decryption, migration | - |
| `SessionsProofs` | theorems about `Sessions` | extends `Sessions` |
| `MC*` | model values and instance definitions | extend their module |

### Connection

A connection is the number of the websocket dialed; 0 is nil. `op` is the writer
in `socketLock`: `unlockedConnect` keeps the lock while it drains, dials and
shakes hands, `Disconnect` while it waits for the handler loop. Anything that
takes the lock for an instant is one action with the guard `~Locked`; the CAT
refresh holds the read lock. `fs`, `hook` and `stopped` are the websocket, its
disconnect handler and `NoiseSocket.destroyed`. `Close` schedules a callback if
a handler is set, `onDisconnect` runs it, and the `finishDisconnect` goroutine
waits for the retired loop. `job` holds the goroutines that reconnect: the
automatic one, the restart after stream error 515 and keepalive's forced one.
`inflight`, `queue`, `loop` and `handler` are the path of a stanza from the
consumer over the bounded channel to a handler. Stanza kinds are those whose
handlers change the connection; all others are `plain`.

`deleted` stands for both `Store.Deleted` and `Store.ID == nil`, which
`Device.Delete` sets together when the database does not refuse (`StoreDelete`);
`Paired` is `cli.paired`, without which a success is ignored and nothing reconnects.
`ctxDone` is the end of the context that Connect was called with (`CancelContext`):
it cancels every connection's context, ends `finishDisconnect`'s wait and the sleep
of `autoReconnect`. A handler has a slot: `front` is the one its loop waits for,
`background` one the loop gave up after five minutes, which runs on
(`LoopGivesUp`). `overrun` is history: a five-second wait has expired. Time is left
out: a timer can fire whenever its `select` could take it.

### RequestWaiters

A request goes through `Steps`, the places between two blocking calls. It makes
at most two attempts and each owns a one-slot channel. `TakeWaiter` and
`DeliverResponse` are the two halves of `receiveResponse`: the first under
`responseWaitersLock`, the second after it. `using` is the socket a request read
under `socketLock` and uses later. The connection is reduced to `socket`,
`open`, `dropping` (callbacks to run) and the ids written on it. `lost` is
history: a response discarded because its connection's context had ended.

### MessageReceive

A stanza is a message and an attempt (0 is the original, n the answer to the
n-th retry receipt); a ciphertext is one `<enc>` child of it. `consumed` is what
the Signal store knows of used message keys, `buffer` and `cleared` the rows of
the event buffer: these survive `Crash`. `pc`, `cur`, `child`, `failed` and `todo`
are functions of the handler: the locals of each that is running and what it sends
itself (SynchronousAck). `goroutines` is a bag of goroutines with what each still
sends. `Reconnect` does not wait for handlers: a reconnect waits five seconds for
them (`client.go:826`), and not at all for one that was given up (`client.go:1096`),
so a handler of the lost connection may be at work beside one of the next. A
decryption may fail whenever it is tried, and is then not answered if the context
was cancelled, which has nothing to do with the connection (`FailsUnlessCancelled`).
Which configuration the client has (`config`) is chosen in `Init`, so one run covers
several. History: `handled` and `times` are what the application accepted and how
often a child was dispatched, `unclear` the children whose plaintext could not be
cleared, `overlapped` that two handlers were at work at once, and `twice` the stanzas
that were delivered again while a handler was still at them.

External parts, marked so in the map: the server, which holds a stanza until a
receipt, ack or nack and delivers it again on the next connection, and keeps it
14 days (the age at which `DeleteOldBufferedHashes` deletes); the sender, which
answers retry receipts.

### AppState

`log` is the server's sequence of patches, each with the key and the hash it
signs; `version`, `hash` and `macs` are the two tables of the store. A worker is
a goroutine with one operation: a sync (`mode` fetch), the conflict retry of a
send, or a recovery. Its `pc` is the next call that blocks or touches the store;
`storeMACs` is three of them (`PutAppStateVersion`,
`DeleteAppStateMutationMACs`, `PutAppStateMutationMACs`) since the code has no
transaction around them. `lock` is `appStateSyncLock`: `fetchAppState` holds it,
`sendAppState` and `handleAppStateRecovery` do not. A patch is validated in one step
except that its queries, one per mutation, may be torn by somebody who stores
without the lock (`TornRead`): then validation may go either way, and what is stored
if it succeeds is still the hash that was signed.

The value MAC of mutation k of patch v is the pair `<<v, k>>`. An LTHash is a
function that counts how often each value MAC was added minus how often it was
removed: the code's 128 bytes are a sum over the same values, so up to
collisions two hashes are equal when their functions are. A signature over a
hash is the hash itself, since every device has the key. `cache` is what
`dispatchAppState` last got for an index. `disturbed` is history: `storeMACs` was
interrupted, or stored on top of a state that somebody else had replaced; a
reset ends it. Index MACs are keyed in the code (`encode.go:357`), so after a key
rotation an index has a second row; the model has one row per index, as if all keys
of an account gave it the same MAC. `EncodePatch` reads its previous MACs in one
step. `ProcessRecovery` stores what the phone sent without checking it
(`recovery.go:88`); the model takes the phone to send the snapshot of a version of
the log, which is an assumption about the phone. External: the server, which orders patches by version and cannot
read them, and the other devices, whose patches sign the right hash as long as
the log is valid.

### LIDStore and LIDMap

`LIDStore` is the promise: a one-to-one table, calls that store all of their
pairs or none, and answers that are true at a moment of the call. Two gaps are
part of its state, because the code has them: `forgotten` sources, which a lookup
may not find, and sources in `doubt` after a store that failed.

In `LIDMap` `db` is the table as committed and `tx` as the running transaction
sees it; `pnToLID`, `lidToPN` and `filled` are the caches, with `Absent` for a
missing key and `Nobody` for a cached `""`. A lookup is one step under the read
lock (`Lookup`), and if that did not answer everything, a query under the write
lock, whose rows are cached one by one (`Query`, `ScanRow`, `CacheMiss`).
`FillCache` and `PutManyLIDMappings` hold the write lock in the same way.
Evictions take any entry, as ranging over a Go map does. `unlockedPutLIDMapping`
changes the caches inside the transaction, so `Rollback` leaves them ahead of the
table: that is where `doubt` comes from. `forgotten` comes from evicting while
`cacheFilled` is set. The refinement mapping is `table <- db`.

### Sockets

A byte of the server's stream is its frame and its place in it, so a frame that
was put together wrongly is visible as such. `processData` is one round of the
code's loop; `frameComplete` leaves the pump on the unbuffered channel until the
consumer takes the frame. On the other side `SendFrame` seals and counts under
`writeLock`, the goroutine writes (`WriteFrame`) or fails, and the sender returns
after it (`SendReturns`) or when its context ends (`SendAbandoned`), which is how
a later frame can overtake an earlier one. `closing` is the pump's `go fs.Close`.
The specification is `SocketsSpec`, and `FrameSocket.Close` and `NoiseSocket.Stop`
are `CloseFrameSocket` and `StopNoiseSocket`: `ConnectionProofs` extends this module
beside `Connection`, which has a `Close`, a `Stop` and a `Spec` of its own.

### PreKeys

A key is an id and a serial number that stands for its material: `getNextPreKeyID`
takes one more than the largest id in the table, so ids come back after the
removal of used keys, and material never does. `pc` is where a goroutine is in
`uploadPreKeys`, entered from `handleConnectSuccess` or from a notification, whose
number may be stale. `GetOrGenPreKeys` is two steps, the query of the keys not
uploaded yet and the numbering of new ones: `preKeyLock` keeps `GenOnePreKey` out of
them, but not the removal of a used key. A key for a retry receipt (`singles`) is
marked as it is made, waits in `receipt`, and reaches a peer only if the receipt is
sent and arrives (`SendRetryReceipt`); the remote store may also mark one whose
answer is lost (`GenOneUnmarked`). `published` are the keys that reached the server
in an upload.
`remote` chooses between the SQL store and `remotePreKeyStore`, whose prepared
batch (`pending`) is durable and whose acknowledgement may have to be repeated.
`server` and `given` are the keys the server has and those in a peer's hands.
External: the server, which replaces a key with the same id and hands one out
once, and the remote store, modelled from the calls and comments in
`remote_signal.go`.

### SenderRetry

`AddOutgoingEvent` and `addRecentMessage` are the two halves of the code's
`addRecentMessage`: the table first, then the ring and its map under
`recentMessagesLock`. Handlers acquire a permit, look the message up, count the
request in a map that is bounded and cleared every hour, prepare and send. A row
of the table ages to `old` and is deleted by the next message, since
`lastRetryStoreClear` is never set. `Parallel` is the capacity of `retrySema`; the
code's default is no semaphore (`client.go:505-509`), which is any `Parallel` of at
least the number of handlers.

### Sessions

A session is its sending chain and the next key of it. Senders hold
`messageSendLock` from the lookup of the LID to the store of the session, retries
and decryptions do not, and neither do `InlineCalls`: a call of `SendMessage` with
`InlineBotJID` encrypts for the bot (`send.go:304`) before it takes the lock
(`send.go:389`), so with a bot as the device its two parts are a worker of each kind. `migration` is the state of one phone number in the
caches of `MigratePNToLID`: a worker that finds it `migrating` goes on without
waiting. `MoveSessions` is the query and the transaction in one step. `disturbed` is
history: a retry, a decryption, a migration, a deletion or an inline call wrote the
session between another worker's load and store, or an inline call was written under. External: the Signal library between `LoadSession` and
`StoreSession`, which starts a new chain for a bundle or a new ratchet key.

## 3. Runs

| run | instance | checks | size |
|---|---|---|---|
| `connection_safety` | 2 websockets, 2 background goroutines, queue of 1, one stanza out of success, 515, logged out and CAT, handlers that may be given up, all application calls, keepalive failure | `TypeOK`, `NoLeakedSocket`, `SerialHandlers` | 4.7 million states |
| `connection_recovery` | 2 websockets, 2 plain stanzas, queue of 1, handlers that may be given up, a context that may be cancelled, under fairness | `OverflowIsAnswered`, `DropIsRecovered` | 0.15 million states |
| `requests` | one info query and one message, or one info query and one newsletter view (which has no timeout), over 2 connections, under fairness | `TypeOK`, `RegisteredIsReady`, `NoLostWakeup`, `NoWaitOnDeadSocket`, `ClosedConnectionReleases` | 0.37 million states |
| `messages` | six inboxes, two handlers, five configurations, one crash, one lost connection, a retry limit of 2 | `TypeOK`, `ReceiptMeansHandled`, `AtMostOnce`, `AcceptedOnce` | 2.4 million states |
| `app_state` | 2 goroutines, 2 operations, 2 patches out of four kinds, 2 indexes, 2 keys of which one arrives later, one fault | `TypeOK`, `StoredHashIsSigned`, `MACsFollowVersion`, `NoFalseMismatch` | 1 million states |
| `lid_map` | 2 phone numbers, 2 LIDs, 2 goroutines, caches of 1 entry | `TypeOK`, `MapsAgree`, `CacheExact`, `ImplementsStore` | 0.13 million states |
| `sockets` | frames of up to 2 bytes behind lengths of 2, cut anywhere, 2 senders, under fairness | `SocketsTypeOK`, `FramesAreExact`, `CountersAreFresh`, `InStepWithServer`, `FramesAreDelivered`, `PumpEnds` | 1 million states |
| `prekeys` | 2 goroutines that upload, at most 3 keys, 2 faults, both stores | `TypeOK`, `OfferedKeysWork`, `MarkedWasUploaded`, `ConfirmedStaysConfirmed` | 5.9 million states |
| `sender_retry` | 3 messages, a ring of 2, 2 requests, 3 handlers, 2 permits, 4 receipts, a counter with 1 entry, one fault | `TypeOK`, `RecentAreKept`, `SentSurviveRestart`, `ResendsBounded`, `PermitsAreHeld` | 3.1 million states |
| `sessions` | two at a time of 2 sends, 1 retry and 1 decryption, or a send beside 2 inline calls; 2 chains, 2 keys each, one fault | `TypeOK`, `SendsUseFreshKeys`, `MigratingHasOwner` | 3.9 million states |
| `panic` | one message | `NoPanic`, violated | |
| `parallel` | 2 sends, 1 retry, 1 decryption at once | `FreshKeys`, violated | |

Every property of a passing run has a mutant in `PROJECT.json`: a definition
changed the way a bug would change it (a dropped wait, a leaked socket, an
inverted compare-and-swap, a map emptied without a wakeup, a plaintext buffered
outside the transaction), for which TLC finds the property violated.

What the passing runs show. `NoLeakedSocket`: retirement by Disconnect, by
ResetConnection and by the callback never leaves a websocket open that nobody
holds, although `Stop` acts only once. `SerialHandlers`: `unlockedConnect` waits
for the retired loop even when the old socket was retired by somebody else; two
connections' handlers overlap only after an expired wait, or beside a handler that
its loop gave up after five minutes when nothing else of that connection is left. `OverflowIsAnswered`: the flag that
silences further overflows is never left over from an earlier connection.
`DropIsRecovered`: the chain callback, drain, reconnect never stops halfway, if the
stanza handlers return; they call the application, the loop waits for them without a
timeout once its connection is gone (`client.go:1090`), and `finishDisconnect` waits
for the loop, so one handler that never returns stops the reconnect.
`NoLostWakeup`, `NoWaitOnDeadSocket` and `ClosedConnectionReleases`: the order
register, read the socket, write (and for a retry: read, register, write) leaves
no gap in which a disconnect is missed, with the exception named in the
property. `ReceiptMeansHandled`: with the event buffer, or for newsletters with
SynchronousAck, no crash or redelivery makes the client acknowledge a message
the application did not accept. `AtMostOnce` and `AcceptedOnce`: redelivery does
not dispatch again what the application accepted, with the buffer even when other
stanzas are handled at the same time. They do not speak of a stanza that is
delivered again while a handler is still at it (`twice`): there both handlers may
read the buffered plaintext and dispatch it. Children that cannot be parsed are
counted as settled (`Undecodable`): a later child of the stanza can make the client
acknowledge it (`message.go:505`). `StoredHashIsSigned`: version and hash are written together,
and only after the signature was checked, so even unlocked writers never mix
them. `MACsFollowVersion` and `NoFalseMismatch`: the bookkeeping of previous
values (in the patch, then in the store; a REMOVE that takes back a SET) agrees
with what the log says, for every order of set, remove and set again; they hold
while `storeMACs` is neither interrupted nor overtaken, and the exceptions are
real: a crash between its statements leaves MACs behind the version until the
next full sync.

`MapsAgree`, `CacheExact` and `ImplementsStore`: replacing a pair, evicting in
either direction and filling leave both maps saying what the table says; wrong
answers come only from the two gaps. The gaps are real: after a rollback the maps
hold a pair the table does not have until the process ends or the pair is
replaced, and in a filled cache that evicts, a row that exists is reported as
missing, although the repository's `README.md:22` "keeps PostgreSQL authoritative
after bounded cache eviction" (`TableIsAuthoritative` states it and fails).
`FramesAreExact` and `FramesAreDelivered`: no cut of the stream loses, repeats or
delays a frame. `CountersAreFresh` and `InStepWithServer`: a counter is never used
twice, and the server's count differs only after a frame that was abandoned, too
large or not written; then the connection is lost, which the client notices by the
server closing it. `PumpEnds`: after a close both goroutines end, or the pump keeps
one frame for ever (a leaked goroutine per such close). `OfferedKeysWork`: reuse of
ids, an interrupted batch or a second upload never put a key on offer that the
store does not have; the exception is a key uploaded again because its first
upload was not recorded, which a peer may have used already. `MarkedWasUploaded`:
marking by id up to the last of the batch never marks a key that was made for an
upload and has not been in one, although used keys go between the statements and
their ids come back.
`ConfirmedStaysConfirmed`: the remote acknowledgement makes up for lost answers,
except across the end of the process. `RecentAreKept`, `SentSurviveRestart`,
`ResendsBounded`, `PermitsAreHeld`: the ring keeps exactly the latest messages, the
table keeps what was sent for a week, and no interleaving of handlers answers too
often or loses a permit. `SendsUseFreshKeys`: `messageSendLock` and storing before
sending are enough against every fault and crash among calls that hold the lock, and
only somebody without it who meets a load and a store breaks it: a retry, a
decryption, a migration, a deletion, or a call for an inline bot. `MigratingHasOwner`: no failure leaves a migration marked as
running.

What the violated runs show; each is a finding with the line it contradicts.

* `panic`: `receiveResponse` sends to a channel that `cancelResponse` closed
  after it was taken out of the map.
* `parallel`: the answer to a retry receipt is encrypted between the load and the
  store of a send to the same device, without `messageSendLock`: two messages
  under one key. Two calls with `InlineBotJID` do the same to the session of the bot.

### Known disagreements without a run

These properties are in the modules and are violated; they were runs of their own
before the modules above took their place. To see one, use the property in a cfg
of its own with the instance named.

* `StreamErrorsBeforeReconnect` (`Connection`, `<conflict type="replaced">` as the
  stanza): `client.go:698` says eligibility is evaluated "after the retired queue
  has processed stream errors". A stream error that the consumer is still
  unmarshalling when its websocket closes is queued after the drain or dropped,
  so `finishDisconnect` decides without it.
* `DisconnectSticks` (`Connection`, Connect and Disconnect only): `autoReconnect`
  has passed its check and waits for `socketLock`; it connects after Disconnect
  has returned (`client.go:753`).
* `DisconnectIsReported` (`RequestWaiters`, one request without a timeout, under
  `FairSpec`): a response discarded by `case <-ctx.Done()` (`request.go:86`) has
  already lost its waiter, so the disconnect does not reach the request, against
  `errors.go:312`.
* `AskedBeforeGivingUp` (`MessageReceive`, one text with two children): ack and
  retry receipt are two goroutines (`message.go:482`); the first arrives, the
  connection ends and nobody asks again, against `types/events/events.go:313`.
* `SentPatchesAreValid` (`AppState`, 2 goroutines, one key, no faults): a send
  between the statements of a sync's `storeMACs` (`appstate.go:622`) signs the new
  version with an old MAC, and every device refuses the patch.
* `CacheFollowsVersion` (`AppState`, one goroutine, one key missing): a list whose
  second patch needs a missing key stores the version of the first and drops its
  mutations (`appstate.go:168`).
* `TableIsAuthoritative` (`LIDMap`, the instance of `lid_map`): see above.

### Bounds

Two connections are enough for every property about a connection and its
successor: the code compares sockets by identity and keeps one retired queue at a
time. A queue of one overflows with the second stanza. Two requests make one
disturb the other (`Loads` says which pairs are made); each has two attempts
because the code retries once.

In `messages` one crash and one drop each meet every step of the handler; the
inboxes cover a stanza with two children, a newsletter, an unavailable message,
one without children, an undecodable newsletter, an unparsable stanza, and unknown
types and versions. SynchronousAck and the buffer take both values; the delayed
request to the phone, made only without SynchronousAck, is on in one
configuration. The sixth inbox is two messages with one child each that two
handlers may be at once (`Beside`): every overlap of a lost connection's handler
with one of the next. Only the text's decryption fails (`Fallible`): the others
would fail in the same way. The theorems need neither bound. `RetryLimit` is 2
instead of 5: the count takes every role (first, later, at the limit).

In `app_state` two patches make a second value replace a first, within a patch and
across patches, and two operations interleave at every statement. In `lid_map`
caches of one entry overflow with the second pair, in either direction; an
instance with three phone numbers and caches of two (1.3 million states) has
passed too, and the theorems hold for every size.

In `sockets` a length of two bytes can be cut inside, a frame may be empty, and a
websocket message may hold the end of one frame and the whole of another. In
`prekeys` three keys are enough for an id to come back while the first key with it
is in a peer's hands.

In `sender_retry` three messages wrap a ring of two, a limit of 2 lets a request
be answered, then refused, and with two permits two handlers count and send at
once while the third waits; as many permits as handlers, the code's default, is
covered by the theorems. In `sessions` one new chain and two keys in each let a
stale session be stored over a newer one, and a fault is a failing statement, a
crash or a new identity of the peer. `Together` names the workers that are at work
at the same time: a reuse takes two, and the theorems hold for any number.
`CHECK_DEADLOCK` is off because the instances stop when the bounds on connections,
messages and crashes are used up.

### Fairness

Weak or strong fairness is assumed of goroutines of the library only: Go runs
every runnable goroutine, and its mutexes hand over to a waiter that has waited
long enough, which is why steps that need `socketLock` have strong fairness.
Timers fire, so a wait with a timeout ends. Nothing is assumed of the
application, the server, the network or contexts: no answer, no reconnect by the
network, no cancelled context. Stanza handlers call the application's event handlers
and wait for them, so they have no fairness either: `DropIsRecovered` says in its
premise, `HandlersReturn`, that the handlers a loop waits for and the CAT refresh
come to an end. In `Sockets` the pump, the consumer and the pump's
`Close` run, and a read of a websocket that has been closed fails; the server need
not send, and a frame need not be written. The runs for safety use `Spec`.

## 4. Proofs

`RequestProofs` proves about `RequestWaiters`, for any set of requests and ids,
any assignment of ids and kinds and any number of connections:

* `TypeCorrect`: `Spec => []TypeOK`;
* `RegisteredChannelsAreReady`: `Spec => []RegisteredIsReady`;
* `NoWakeupIsLost`: `Spec => []NoLostWakeup`;
* `NobodyWaitsOnADeadSocket`: `Spec => []NoWaitOnDeadSocket`.

The only assumption is `RequestAssumption`: the constants have their types and
`NoChan` is not a channel. The argument is one inductive invariant `IInv`.
`RegisteredIsReady` alone is not inductive: `waitResponse` puts a channel into
the map that must be known to be new. So `WaiterInv` adds that the channels of
attempts not yet made are untouched (`FreshChans`), that a channel a consumer has
taken is no longer in the map, and that a channel in the map belongs to a request
that is still active under that id. With these every disconnect finds only open
and empty channels, hence closes none and loses none. `ActiveIsWakeable`
strengthens `NoLostWakeup` from waiting requests to all registered ones, because
the disconnect may come before the request waits. `NoWaitOnDeadSocket` needs
`OpenIsSocket`: only the client's socket is open. Each action has one step per
conjunct it can disturb; the facts about `cancelResponse`, `waitResponse` and
`clearResponseWaiters` are lemmas of their own.

`AppStateProofs` proves the type invariant (`TypeCorrect`) and the three safety
invariants of `AppState`, for any goroutines, indexes, patches of up to two
mutations, keys and length of the log, from `AppStateAssumption` and
`ValueAssumption`. `StoredHashSigned`: `StoredHashIsSigned` alone is not inductive: what
`PutAppStateVersion` writes was computed steps earlier, while other goroutines
stored and the log grew. `AboutToStore` says that a checked hash waiting to be
stored is signed, `InLog` that operations only name versions that exist, so that
appending to the log changes none of it (`LogGrows`). One lemma per kind of
change (`MoveOnly`, `ForgetVersion`, `StoreSigned`, `ReturnOnly`, `LogGrows`)
carries the actions.

`MACsFollow` and `NoFalseAlarm` rest on a second invariant, `JInv`. While nobody was
disturbed its part `MACInv` says what the rows are before, in the middle of and
after the three statements of `storeMACs`: a snapshot finds none; a patch finds those
of the version below, then those it does not remove. `CarryInv` gives what a
statement relies on from steps before: an operation's hash goes with its version, a
snapshot comes first and on an empty state, and the item being stored is still the
head of the list. The steps need what the log says an index is worth, so the first
lemmas are about `LatestIn`: there is exactly one last mutation (`LastExists`, by
well-founded descent, `LastUnique`), a patch that does not mention an index leaves its
value (`LatestUntouched`), and otherwise its last mutation in the patch decides
(`LatestTouched`). `PatchStores` and `SnapshotStores` turn this into rows;
`PatchHash` shows the arithmetic of `updateHash`: a value is taken off the hash exactly
once, by the first mutation of its index, or by the second if it came with the first.

`LIDMapProofs` proves about `LIDMap`, for any finite sets of phone numbers and LIDs,
any goroutines and any limit of the caches, from `LIDMapAssumption`:

* `TypeCorrect`: `Spec => []TypeOK`, the bound on both maps included;
* `MapsAreInverse`: `Spec => []MapsAgree`;
* `CacheIsExact`: `Spec => []CacheExact`;
* `Refinement`: `Spec => ImplementsStore`, that is `LIDMap` implements `LIDStore`.

The inductive invariant adds to the three properties that the table is one to one,
as committed (`OneToOne(db)`) and as the transaction sees it, and what the holder
of the lock still has to do: the rows in `todo` are rows of the table, and a source
still missing that has a row finds it there (`ScanInv`); a filling cache holds
exactly the rows scanned so far if all rows fit (`FillInv`); and `tx` differs from
`db` only by the pairs in `mine` (`PutInv`).
`OneToOne` is what makes a cached pair exclude every other pair of its two sources;
without it `CacheExact` is not preserved by `cacheMappingLocked`. What eviction and
replacement do to the maps is stated once, in lemmas about `Victims`,
`EvictedReverse` and `cacheMappingLocked`, and used by scanning, filling and
storing alike. For the refinement a lookup's step maps to `Answer`, `Commit` to
`Store` with the transaction's pairs, `Rollback` to `Fail`, `FillCache` and
`Restart` to `Refill`, and the rest to `Answer` with nothing told.

`SessionsProofs` proves about `Sessions`, for any senders, retries and decryptions
and any bounds on chains, keys and faults, from `SessionsAssumption`:

* `TypeCorrect`: `Spec => []TypeOK`, the owner of `messageSendLock` included;
* `MigrationHasOwner`: `Spec => []MigratingHasOwner`;
* `OnlyDisturbanceReuses`: `Spec => []SendsUseFreshKeys`.

Inline calls are workers like the others, of any number. The run has two sends and two chains; the theorems show that no larger number of
either changes the result. `MigratingHasOwner` counts workers, so the invariant
says it without counting (`OneMigrates`: somebody moves exactly if the mark is set,
and no two do). `SendsUseFreshKeys` says nothing about the keys themselves. What
carries it is `InOrder`, which holds while nobody has been disturbed: every key used
in a chain comes before the next key of a session in that chain, the two rows are
never in one chain (a migration moves a row, it does not copy it), and what a
worker has loaded is still the row of its address or is in a chain that neither a
row nor a message has seen (`Current`). `ChainsStarted` makes a new chain such a
one. A write that leaves `disturbed` false finds nobody else between load and store
(`Quiet`): two senders never are, because of the lock in `TypeOK`, which speaks of
senders and not of inline calls, and anybody else would be disturbed. So a store only has to keep the order of the keys, which it
does because it stores the loaded session with the next number. Writes and
non-writes are each one lemma (`Written`, `Unwritten`), and each action is a step
that walks on, gives up, takes a session or writes.

`ConnectionProofs` proves about `Connection`, for any number of websockets, stanzas
and background goroutines and any length of the queue, from
`ConnectionAssumption`:

* `TypeCorrect`: `Spec => []TypeOK`;
* `OpenIsOwned`: `Spec => []NoLeakedSocket`;
* `HandlersAreSerial`: `Spec => []SerialHandlers`;
* `OverflowAnswered`: `Spec => []OverflowIsAnswered`.

The runs have two websockets; the theorems say that a third or a hundredth
reconnect brings nothing new. The invariant has three parts. `SocketInv` says who
owns a websocket: those not dialed yet are untouched, one that was stopped or has a
callback to run is closed, and while the lock is held for connecting there is no
`cli.socket`. Without it a second retirement, which `Stop` ignores, could find an
open websocket. `LoopInv` says that a loop runs only if `handlerQueueWait` names
it, unless a wait ran out, and that a handler of the front has its loop busy or
draining: so whatever is at work of an older connection is a handler that was given
up, which is `SerialHandlers`. `FlagInv` says that nothing overflows before
the loop was started and that `unlockedConnect` begins with `forceAutoReconnect`
cleared, which is what `OverflowIsAnswered` needs at the end of a connect.

Its second half proves about `Sockets`, for any senders, any number and sizes of
frames, any length of a frame's length and of a websocket message, from
`SocketsAssumption`:

* `SocketsTypes`: `SocketsSpec => []SocketsTypeOK`;
* `FramesExact`: `SocketsSpec => []FramesAreExact`;
* `FreshCounters`: `SocketsSpec => []CountersAreFresh`;
* `InStep`: `SocketsSpec => []InStepWithServer`.

`SocketsAssumption` says that `Nil` is no sender, number or sequence of bytes and
that `MaxFrames`, the frames sealed, is at most `CounterRange`, the values of the
counter: 2^32 in the code, which wraps without a check.

The invariant of the reading half, `ReadInv`, ties everything the pump holds to one
place of the stream: `Cut` frames are done, `Place` bytes have been looked at, and
`partial` and `incoming` are exactly the bytes between the end of frame `Cut`
(or of the length after it) and `Place`, with `msg` the bytes from there to
`pos`. Every branch of `processData` then moves `Place` and joins or cuts pieces
of the stream, which two lemmas do once: pieces that meet make one piece
(`StreamConcat`), and a part of a piece is a piece (`StreamPart`). That the first
bytes are a length, and whose, follows from `Cut` (`LengthFacts`). The stream is
laid out by a recursive function (`Upto`); that it has a solution, is a sequence of
naturals and grows is shown by least counterexample (`EndsExist`, `EndsGrow`), since
the induction theorems cannot be used. The lemmas take the sizes as a parameter, so
that they say the same of both states of a step.

The invariant of the writing half, `WriteInv`, says that frame n has counter n - 1,
that the holder of `writeLock` waits for the frame sealed last, and that a frame
whose goroutine has not run belongs to that holder or was abandoned. So when a frame
is written, every frame sealed before it is on the wire, has failed or was abandoned:
`InStepWithServer` takes the first place of the wire that is out of step, and finds
the frame that should be there among those.

`MessageReceiveProofs` proves about `MessageReceive`, for any messages, children,
configuration, retry limit and number of crashes, from `ReceiveAssumption` and
`NoStanzaAssumption`:

* `TypeCorrect`: `Spec => []TypeOK`;
* `ReceiptsArePromises`: `Spec => []ReceiptMeansHandled`;
* `DispatchedAtMostOnce`: `Spec => []AtMostOnce`;
* `AcceptedStaysDone`: `Spec => AcceptedOnce`, an action property.

They hold for any number of handlers side by side. The invariant has a part about
what the handlers share (`Shared`) and one that each of them keeps (`At(h)`); a step
of one handler leaves `At` of the others alone because, outside `twice`, no two are
at the same stanza. `ReceiptMeansHandled` speaks of receipts the server has; the
invariant speaks of every receipt on its way too, in any goroutine (`PromiseInv`) and
in a handler's own list (`PromiseAt`), and of the children in front of the one a
handler is at, which are settled (`ProgressAt`). `StoreInv` carries a promise across
a crash: with the buffer a message key that is used up has a row, and a cleared row
belongs to a child that the handlers accepted. `AcceptInv` says that an accepted
child is cleared, or is the one its handler is about to clear, or one of the
exceptions that `AcceptedOnce` names. `CountInv` does the same for `times` without
the buffer: what was dispatched has used up its key. `PlaceAt` says what a handler's
locals are at each place. Goroutines are a bag, so the lemmas `BagPlus` and
`BagMinus` say what adding and removing one does to the set of its members.

`SenderRetryProofs` proves about `SenderRetry`, for any messages, requests and
handlers and any size of the ring, the counter and the semaphore, from
`SenderRetryAssumption`:

* `TypeCorrect`: `Spec => []TypeOK`, the bound on the counter's map included;
* `RingKeepsTheLast`: `Spec => []RecentAreKept`;
* `SentAreStored`: `Spec => []SentSurviveRestart`;
* `AnswersAreLimited`: `Spec => []ResendsBounded`;
* `NoPermitIsLost`: `Spec => []PermitsAreHeld`.

Ring, table and handlers share no variable but the message being added, so each
has an invariant of its own. `RingInv` says in which slot the k-th oldest message
is; that the map is exactly the ring follows from it and from the ring having no
message twice. `StoreInv` adds the message that is in the table and not yet in the
ring. For the limit it is not enough to count what was sent: the invariant counts
what has passed the limit (`Passed`, sent or in a handler on the way to sending),
and bounds it in the running window by what the window has counted, since a
handler of an old window may still send in a new one.

`PreKeysProofs` proves about `PreKeys`, for any number of goroutines, keys and
faults and any counts, from `PreKeysAssumption`:

* `TypeCorrect`: `Spec => []TypeOK`, the uniqueness of ids and the owner of
  `uploadPreKeysLock` included;
* `OffersWork`: `Spec => []OfferedKeysWork`;
* `MarkedKeysWereUploaded`: `Spec => []MarkedWasUploaded`;
* `ConfirmedOnce`: `Spec => ConfirmedStaysConfirmed`, an action property.

Ids come back and serial numbers do not. `KeyInv` says that everything known is
older than the next serial number, so a new key is in nobody's hands, and that no
id is above `serial`. `OfferInv` adds to the two properties that a key is not with
the server and a peer at once unless it was uploaded twice: that is why using it up
cannot take it from under an offer. `MarkedWasUploaded` needs `BatchCovers`:
`MarkPreKeysAsUploaded` marks by id, up to the last of the batch, so at any moment
of the upload every unmarked row below that id is in the batch or published. It holds after the query because `Lowest` is closed downwards,
and is all there is whenever new keys are added to it (`LowestFacts`), from the query
to the numbering because rows only go meanwhile, and later because no row made for an
upload comes in, even under ids of the batch. `SingleInv` keeps the keys made for a
receipt apart from those of a batch. `AckInv` says that a confirmed
key is pending only while its acknowledgement is still to be made or repeated.

Only model-checked: liveness (`ClosedConnectionReleases`, `DropIsRecovered`,
`FramesAreDelivered`, `PumpEnds`), which is out of the prover's reach. Every
invariant and every action property of a passing run is a theorem.

## 5. What is not modelled

* Times: backoff lengths, the five-second and five-minute limits and the ages of
  cache entries; a timer may fire at any moment.
* Panics of event handlers, which the code recovers and counts as success;
  panics of stanza handlers.
* In receiving: `msmsg`, armadillo, shadow and remote decryption, the
  `DisabledFeatures.Signal` path, and what `handleDecryptedMessage` does with
  protocol messages before the event (history sync, key shares, sender keys).
* In app state: what `dispatchAppState` does for each kind of mutation, external
  blobs, the limits of the key request map, and event handlers that run while
  `appStateSyncLock` is held. A mutation is signed with the key of its patch.
* Proxies, HTTP clients, TLS, the cryptography of Signal and Noise, protobuf.
* The contents of events, stanza wording and logging.
* In sockets: dialing and the handshake's frames (`Connection` has the points where
  they fail), websocket messages that are not binary, which the pump skips, and the
  wrap of the 32-bit counters, which no connection lives to see.
* In receiving: the order in which a handler that was given up and the next one
  reach the database within one action; every action is one call to it.
* In prekeys: the 24-bit limit of ids (the table refuses the insert), signed
  prekeys, shadow clients, and concurrent writers of one SQL store in two processes.
* In answering retries: `handleRetryReceiptRemote`, sender keys in the answer, the
  deferred ack, and messages whose payload no longer parses.
* In sessions: identities and sender keys, the AutoTrustIdentity retry apart from
  what it deletes, more than one device, and stateless prekey messages. The entry
  that `shouldRecreateSession` makes for the address of the receipt stays when the
  fetch that follows fails (`retry.go:189`): no second try within the hour.
* About 107,000 of the repository's 140,000 lines of Go are generated protobuf
  code, and most of the rest builds one request or parses one response; neither has
  behaviour for a model. The map covers the stateful core, not these.
* Components without a module, as listed in `PROJECT.json`.

## 6. Plan

In order of importance; each entry names its module, its property and what it
would compose or refine.

1. `AppState`, the rest: a row per key and index, the handler of `AppStateSyncError` that syncs again
   while the lock is held, and that a key share leads to a sync.
2. `SendMessage`: fan-out over a device list that may be stale, sender-key
   distribution and the participant hash.
3. An abstract specification of the connection as requests see it, with
   `Connection` shown to implement it, which joins `Connection` and
   `RequestWaiters`.
4. `Sessions`: that no newer session is lost to a migration (`store.go:632`), which
   costs a retry receipt and no key.
5. `Pairing`, `MediaConn`, `HistorySync`: QR rotation and passkeys, host retry,
   download and notification order.
