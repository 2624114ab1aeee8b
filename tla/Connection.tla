----------------------------- MODULE Connection -----------------------------
(***************************************************************************)
(* The connection lifecycle of Client: who may open, replace and retire    *)
(* cli.socket, and how the goroutines around one websocket (the frame      *)
(* consumer, the handler queue loop, the disconnect callback, keepalive,   *)
(* automatic reconnection, the restart after stream error 515) interact.   *)
(*                                                                         *)
(* A connection is a number: the n-th websocket dialed.  0 stands for nil. *)
(* socketLock is the variable op: a writer that keeps the lock over a      *)
(* blocking call (unlockedConnect, unlockedDisconnect) is an operation in  *)
(* progress; everything that takes the lock for an instant is one action   *)
(* guarded by Locked.  Time is left out: a timer may fire whenever its     *)
(* select could choose it.                                                 *)
(***************************************************************************)
EXTENDS Naturals, Sequences, FiniteSets

CONSTANTS
    App,                        \* the application goroutine
    Jobs,                       \* slots for background goroutines that reconnect
    MaxConns,                   \* bound: websockets dialed
    MaxNodes,                   \* bound: stanzas the server sends
    QueueSize,                  \* handlerQueueSize
    Stanzas,                    \* the kinds of stanza the server sends in this instance
    AppCalls,                   \* the Client methods the application calls
    EnableAutoReconnect,
    InitialAutoReconnect,
    DisableLoginAutoReconnect,
    SilentConns,                \* connections whose keepalives can fail for too long
    Paired,                     \* the device has an identity: cli.paired, Store.ID # nil at the start
    HookMayRefuse,              \* an AutoReconnectHook is set and can return false
    HandlersMayStall            \* a handler can outlast the loop's five minutes

Conns == 1..MaxConns
StreamErrors == {"restart", "removed", "replaced", "unavailable", "cat"}
ConnectFailures == {"failure", "loggedout", "failure503", "failureCat"}
AllStanzas == StreamErrors \cup ConnectFailures \cup {"success", "plain"}

ASSUME ConnectionAssumption ==
    /\ MaxConns \in Nat /\ MaxNodes \in Nat /\ QueueSize \in Nat \ {0}
    /\ App \notin Jobs /\ IsFiniteSet(Jobs)
    /\ Stanzas \subseteq AllStanzas /\ SilentConns \subseteq Conns
    /\ AppCalls \subseteq {"Connect", "Disconnect", "ResetConnection", "Logout", "Cancel"}
    /\ {EnableAutoReconnect, InitialAutoReconnect, DisableLoginAutoReconnect,
        Paired, HookMayRefuse, HandlersMayStall} \subseteq BOOLEAN

VARIABLES
    op,             \* the writer inside socketLock: [pc, by]; pc = "free" when unlocked
    socket,         \* cli.socket
    queueWait,      \* cli.handlerQueueWait, named by its connection
    expected,       \* cli.expectedDisconnect
    force,          \* cli.forceAutoReconnect
    loggedIn,       \* cli.isLoggedIn
    deleted,        \* cli.Store.Deleted (and Store.ID == nil)
    app,            \* what the application is doing
    job,            \* the background goroutine in each slot
    resets,         \* goroutines spawned by enqueueNode to run ResetConnection
    dialed,         \* websockets dialed so far
    fs,             \* FrameSocket of a connection: "none", "open" or "closed"
    hook,           \* fs.OnDisconnect is set
    stopped,        \* NoiseSocket.destroyed
    callbacks,      \* scheduled onDisconnect goroutines: [conn, remote]
    finishing,      \* running finishDisconnect goroutines: [conn, remote, wait]
    inflight,       \* the frame consumeFrames is handing to handleFrame
    queue,          \* the handler queue of a connection
    loop,           \* handlerQueueLoop: "off", "idle", "busy", "drain", "closed"
    handler,        \* the running node handlers of a connection, by slot
    sent,           \* stanzas sent by the server so far
    ctxDone,        \* the context of Connect and of every event is cancelled
    overrun         \* history: a wait for a retired handler loop has timed out

client == <<socket, queueWait, expected, force, loggedIn, deleted>>
threads == <<op, app, job, resets>>
sockets == <<dialed, fs, hook, stopped, callbacks, finishing>>
handlers == <<inflight, queue, loop, handler, sent>>
vars == <<client, threads, sockets, handlers, ctxDone, overrun>>

Free == [pc |-> "free", by |-> App]
Nothing == [node |-> "none", pc |-> "none"]
Slots == {"front", "background"}

\* Nobody holds socketLock, for writing or for reading (the CAT refresh reads).
Refreshing == {c \in Conns : \E s \in Slots : handler[c][s].pc = "refresh"}
Locked == op.pc # "free" \/ Refreshing # {}

\* connCtx.Err() # nil: FrameSocket.Close cancels the context it hands out,
\* which is derived from the one Connect was called with.
Cancelled(c) == fs[c] = "closed" \/ ctxDone

\* IsConnected: there is a socket and its websocket is open.
IsConnected == socket \in {c \in Conns : fs[c] = "open"}

\* A goroutine slot to run f: go f() needs one, which bounds the model.
IdleJobs == {j \in Jobs : job[j] = "idle"}
Spawn(j, pc) == job' = [job EXCEPT ![j] = pc]

TypeOK ==
    /\ op \in [pc : {"free", "drain", "dial", "handshake", "finish", "leave"},
               by : Jobs \cup {App}]
    /\ socket \in 0..MaxConns /\ queueWait \in 0..MaxConns /\ dialed \in 0..MaxConns
    /\ {expected, force, loggedIn, deleted} \subseteq BOOLEAN
    /\ app \in {"ready", "connect", "disconnect", "logout", "delete", "off"}
    /\ job \in [Jobs -> {"idle", "start", "sleep", "reconnect",
                         "restartDrop", "restartDial", "keepDrop", "keepReset"}]
    /\ resets \in Nat
    /\ fs \in [Conns -> {"none", "open", "closed"}]
    /\ hook \in [Conns -> BOOLEAN] /\ stopped \in [Conns -> BOOLEAN]
    /\ callbacks \subseteq [conn : Conns, remote : BOOLEAN]
    /\ finishing \subseteq [conn : Conns, remote : BOOLEAN, wait : 0..MaxConns]
    /\ inflight \in [Conns -> AllStanzas \cup {"none"}]
    /\ queue \in [Conns -> Seq(AllStanzas)]
    /\ loop \in [Conns -> {"off", "idle", "busy", "drain", "closed"}]
    /\ handler \in [Conns -> [Slots -> [node : AllStanzas \cup {"none"},
                                        pc : {"none", "run", "delete", "rlock", "refresh"}]]]
    /\ sent \in 0..MaxNodes
    /\ {ctxDone, overrun} \subseteq BOOLEAN

Init ==
    /\ op = Free
    /\ socket = 0 /\ queueWait = 0
    /\ expected = FALSE /\ force = FALSE /\ loggedIn = FALSE /\ deleted = FALSE
    /\ app = "ready" /\ job = [j \in Jobs |-> "idle"] /\ resets = 0
    /\ dialed = 0
    /\ fs = [c \in Conns |-> "none"]
    /\ hook = [c \in Conns |-> FALSE] /\ stopped = [c \in Conns |-> FALSE]
    /\ callbacks = {} /\ finishing = {}
    /\ inflight = [c \in Conns |-> "none"] /\ queue = [c \in Conns |-> <<>>]
    /\ loop = [c \in Conns |-> "off"]
    /\ handler = [c \in Conns |-> [s \in Slots |-> Nothing]]
    /\ sent = 0 /\ ctxDone = FALSE /\ overrun = FALSE

-----------------------------------------------------------------------------
(* FrameSocket and NoiseSocket                                             *)

\* FrameSocket.Close on an open socket.  The disconnect handler, when one is
\* set, starts in a goroutine of its own.  On a closed socket Close returns.
Close(c, remote, handlerSet) ==
    /\ fs' = IF fs[c] = "open" THEN [fs EXCEPT ![c] = "closed"] ELSE fs
    /\ callbacks' = IF fs[c] = "open" /\ handlerSet
                    THEN callbacks \cup {[conn |-> c, remote |-> remote]}
                    ELSE callbacks

\* NoiseSocket.Stop(true, allowOnDisconnect): only the first Stop has an effect.
Stop(c, allowOnDisconnect) ==
    IF stopped[c]
    THEN UNCHANGED <<fs, callbacks, hook, stopped>>
    ELSE /\ stopped' = [stopped EXCEPT ![c] = TRUE]
         /\ hook' = [hook EXCEPT ![c] = @ /\ allowOnDisconnect]
         /\ Close(c, FALSE, hook'[c])

\* The server or the network closes the websocket: readPump's Read fails and
\* its deferred function runs Close(0).
RemoteClose(c) ==
    /\ fs[c] = "open"
    /\ Close(c, TRUE, hook[c])
    /\ UNCHANGED <<client, threads, handlers, dialed, hook, stopped, finishing>>

-----------------------------------------------------------------------------
(* unlockedDisconnect and unlockedConnect, under socketLock                *)

expectDisconnect == force' = FALSE /\ expected' = TRUE
resetExpectedDisconnect == force' = FALSE /\ expected' = FALSE

\* The first half of unlockedDisconnect: stop the socket and forget it.
RetireSocket ==
    /\ socket' = 0
    /\ IF socket = 0 THEN UNCHANGED <<fs, callbacks, hook, stopped>>
                     ELSE Stop(socket, FALSE)

\* What the goroutine that called connect does with its result.  Automatic
\* reconnection goes back to sleep after an error, unless the disconnect is
\* expected or the hook refuses; ConnectContext may hand over to it.
ConnectReturns(by, result) ==
    /\ op' = Free
    /\ IF by = App
       THEN /\ app' = "ready"
            /\ IF result = "retryable" /\ InitialAutoReconnect /\ EnableAutoReconnect
               THEN \E j \in IdleJobs : Spawn(j, "start")
               ELSE UNCHANGED job
       ELSE /\ UNCHANGED app
            /\ \/ /\ job[by] = "reconnect" /\ result \notin {"ok", "already"} /\ ~expected
                  /\ Spawn(by, "sleep")
               \/ /\ job[by] = "reconnect" /\ result \notin {"ok", "already"} => expected \/ HookMayRefuse
                  /\ Spawn(by, "idle")

\* unlockedConnect up to its first blocking call.  Returning at once and
\* waiting for the retired handler loop are the alternatives; otherwise the
\* expected-disconnect flag is cleared and dialing starts.
unlockedConnect(by) ==
    /\ ~Locked
    /\ \/ /\ deleted \/ IsConnected
          /\ ConnectReturns(by, IF deleted THEN "deleted" ELSE "already")
          /\ UNCHANGED <<client, fs, callbacks, hook, stopped>>
       \/ /\ ~deleted /\ ~IsConnected
          /\ RetireSocket
          /\ IF queueWait # 0
             THEN op' = [pc |-> "drain", by |-> by] /\ UNCHANGED <<expected, force>>
             ELSE op' = [pc |-> "dial", by |-> by] /\ resetExpectedDisconnect
          /\ app' = IF by = App THEN "connect" ELSE app
          /\ UNCHANGED <<job, queueWait, loggedIn, deleted>>
    /\ UNCHANGED <<handlers, resets, dialed, finishing>>

\* Mutant: the wait for the retired handler loop is dropped.
QueueNotWaited == UNCHANGED <<queueWait, overrun>>

\* The wait at the end of unlockedDisconnect, for connect and for Disconnect:
\* the loop has ended, or five seconds have passed.
QueueWaited ==
    \/ queueWait = 0 /\ UNCHANGED <<queueWait, overrun>>
    \/ \E c \in Conns :
          /\ c = queueWait /\ loop[c] = "closed"
          /\ queueWait' = 0 /\ UNCHANGED overrun
    \/ \E c \in Conns :
          /\ c = queueWait /\ loop[c] # "closed"
          /\ overrun' = TRUE /\ UNCHANGED queueWait

DrainThenDial ==
    /\ op.pc = "drain"
    /\ QueueWaited
    /\ resetExpectedDisconnect
    /\ op' = [op EXCEPT !.pc = "dial"]
    /\ UNCHANGED <<sockets, handlers, app, job, resets, socket, loggedIn, deleted>>

\* FrameSocket.Connect.  A failed dial never opened the socket.
Dial ==
    /\ op.pc = "dial"
    /\ \/ /\ dialed < MaxConns /\ ~ctxDone
          /\ dialed' = dialed + 1
          /\ fs' = [fs EXCEPT ![dialed'] = "open"]
          /\ op' = [op EXCEPT !.pc = "handshake"]
          /\ UNCHANGED <<client, app, job>>
       \/ /\ \E result \in {"retryable", "fatal"} : ConnectReturns(op.by, result)
          /\ UNCHANGED <<client, dialed, fs>>
    /\ UNCHANGED <<handlers, resets, hook, stopped, callbacks, finishing>>

\* Mutant: a failed handshake leaves the websocket open.
HandshakeLeaks ==
    /\ op.pc = "handshake"
    /\ \/ /\ fs[dialed] = "open"
          /\ op' = [op EXCEPT !.pc = "finish"]
          /\ UNCHANGED <<app, job>>
       \/ \E result \in {"retryable", "fatal"} : ConnectReturns(op.by, result)
    /\ UNCHANGED <<client, fs, callbacks, handlers, resets, dialed, hook, stopped, finishing>>

\* doHandshake up to its last SendFrame.  It fails when the socket is closed,
\* on a timeout and on a bad server hello; unlockedConnect then closes the
\* socket, which has no disconnect handler yet.
Handshake ==
    /\ op.pc = "handshake"
    /\ \/ /\ fs[dialed] = "open"
          /\ op' = [op EXCEPT !.pc = "finish"]
          /\ UNCHANGED <<client, app, job, fs, callbacks>>
       \/ /\ Close(dialed, TRUE, hook[dialed])
          /\ \E result \in {"retryable", "fatal"} : ConnectReturns(op.by, result)
          /\ UNCHANGED client
    /\ UNCHANGED <<handlers, resets, dialed, hook, stopped, finishing>>

newNoiseSocket(c) == hook' = [hook EXCEPT ![c] = TRUE]

\* The rest of doHandshake and of unlockedConnect: newNoiseSocket installs the
\* disconnect handler and starts the consumer, whatever happened to the socket
\* since the last SendFrame; then the loops start.
FinishConnect ==
    /\ op.pc = "finish"
    /\ socket' = dialed /\ queueWait' = dialed
    /\ newNoiseSocket(dialed)
    /\ loop' = [loop EXCEPT ![dialed] = "idle"]
    /\ UNCHANGED <<expected, force, loggedIn, deleted>>
    /\ ConnectReturns(op.by, "ok")
    /\ UNCHANGED <<resets, dialed, fs, stopped, callbacks, finishing,
                   inflight, queue, handler, sent>>

\* Disconnect: expectDisconnect, then unlockedDisconnect.
Disconnect(by) ==
    /\ ~Locked
    /\ expectDisconnect
    /\ RetireSocket
    /\ op' = [pc |-> "leave", by |-> by]
    /\ UNCHANGED <<handlers, job, resets, dialed, finishing, queueWait, loggedIn, deleted>>

DisconnectReturns ==
    /\ op.pc = "leave"
    /\ QueueWaited
    /\ op' = Free
    /\ IF op.by = App
       THEN app' = (IF app = "logout" THEN "delete" ELSE "off") /\ UNCHANGED job
       ELSE Spawn(op.by, IF job[op.by] = "restartDrop" THEN "restartDial" ELSE "keepReset")
            /\ UNCHANGED app
    /\ UNCHANGED <<sockets, handlers, resets, socket, expected, force, loggedIn, deleted>>

\* ResetConnection, called by the application or by the goroutine that
\* enqueueNode starts when the handler queue is full.
ResetConnection ==
    /\ ~Locked
    /\ force' = TRUE
    /\ IF socket = 0 THEN UNCHANGED <<fs, callbacks, hook, stopped>> ELSE Stop(socket, TRUE)
    /\ UNCHANGED <<handlers, op, app, job, dialed, finishing,
                   socket, queueWait, expected, loggedIn, deleted>>

-----------------------------------------------------------------------------
(* The disconnect callback and automatic reconnection                      *)

onDisconnect(cb) ==
    /\ cb \in callbacks /\ ~Locked
    /\ callbacks' = callbacks \ {cb}
    /\ stopped' = [stopped EXCEPT ![cb.conn] = TRUE]
    /\ hook' = IF stopped[cb.conn] THEN hook ELSE [hook EXCEPT ![cb.conn] = FALSE]
    /\ IF socket = cb.conn
       THEN /\ socket' = 0
            /\ finishing' = finishing \cup
                   {[conn |-> cb.conn, remote |-> cb.remote, wait |-> queueWait]}
       ELSE UNCHANGED <<socket, finishing>>
    /\ UNCHANGED <<threads, handlers, queueWait, expected, force, loggedIn, deleted, dialed, fs>>

\* Mutant: a websocket closed by the server is not a reason to reconnect.
WillReconnectForced(f) == ~expected /\ force

\* finishDisconnect decides whether to reconnect once the retired handler loop
\* is done, and only if nobody reconnected or disconnected in the meantime.
WillReconnect(f) == ~expected /\ (force \/ f.remote)

FinishWaited(f) ==
    /\ ~Locked
    /\ \A c \in Conns : c = f.wait => loop[c] = "closed"
    /\ IF socket # 0 \/ queueWait # f.wait
       THEN UNCHANGED <<force, job>>
       ELSE /\ force' = (force /\ expected)
            /\ IF WillReconnect(f)
               THEN \E j \in IdleJobs : Spawn(j, "start")
               ELSE UNCHANGED job

\* The wait for the loop ends with it or with the context.
finishDisconnect(f) ==
    /\ f \in finishing
    /\ finishing' = finishing \ {f}
    /\ \/ FinishWaited(f)
       \/ ctxDone /\ f.wait # 0 /\ UNCHANGED <<force, job>>
    /\ UNCHANGED <<handlers, op, app, resets, socket, queueWait, expected, loggedIn, deleted,
                   dialed, fs, hook, stopped, callbacks>>

\* autoReconnect: the check before the loop, the sleep that an expected
\* disconnect or the end of the context cuts short, and the call of connect.
AutoReconnectStart(j) ==
    /\ job[j] = "start"
    /\ Spawn(j, IF EnableAutoReconnect /\ Paired /\ ~deleted THEN "sleep" ELSE "idle")
    /\ UNCHANGED <<client, sockets, handlers, op, app, resets>>

AutoReconnectWake(j) ==
    /\ job[j] = "sleep"
    /\ Spawn(j, IF expected \/ ctxDone THEN "idle" ELSE "reconnect")
    /\ UNCHANGED <<client, sockets, handlers, op, app, resets>>

AutoReconnectConnect(j) == job[j] = "reconnect" /\ unlockedConnect(j)

\* The goroutine of stream error 515: Disconnect, then connect.
RestartDisconnect(j) ==
    job[j] = "restartDrop" /\ Disconnect(j) /\ UNCHANGED app
RestartConnect(j) == job[j] = "restartDial" /\ unlockedConnect(j)

\* keepAliveLoop of an open connection after KeepAliveMaxFailTime without an
\* answer: Disconnect, resetExpectedDisconnect, go autoReconnect.
KeepAliveFails(c) ==
    /\ c \in SilentConns /\ EnableAutoReconnect
    /\ hook[c] /\ ~Cancelled(c)
    /\ \E j \in IdleJobs : Spawn(j, "keepDrop")
    /\ \A j \in Jobs : job[j] \notin {"keepDrop", "keepReset"}
    /\ UNCHANGED <<client, sockets, handlers, op, app, resets>>

KeepAliveDisconnect(j) ==
    job[j] = "keepDrop" /\ Disconnect(j) /\ UNCHANGED app

KeepAliveReset(j) ==
    /\ job[j] = "keepReset"
    /\ resetExpectedDisconnect
    /\ Spawn(j, "start")
    /\ UNCHANGED <<sockets, handlers, op, app, resets, socket, queueWait, loggedIn, deleted>>

-----------------------------------------------------------------------------
(* The application                                                         *)

\* The application makes a call.  It is "off" after its last call disconnected.
Calls(method) == app \in {"ready", "off"} /\ method \in AppCalls

AppConnect == Calls("Connect") /\ unlockedConnect(App)

AppDisconnect ==
    /\ Calls("Disconnect")
    /\ Disconnect(App) /\ app' = "disconnect"

AppReset ==
    /\ Calls("ResetConnection")
    /\ ResetConnection /\ UNCHANGED resets

\* Logout after the server has answered its request: Disconnect, Store.Delete.
AppLogout ==
    /\ Calls("Logout")
    /\ loggedIn /\ Paired /\ ~deleted
    /\ Disconnect(App) /\ app' = "logout"

\* Store.Delete: the device is deleted, or the database refuses.
StoreDelete == deleted' \in {TRUE, deleted}

LogoutDelete ==
    /\ app = "delete"
    /\ StoreDelete /\ app' = "off"
    /\ UNCHANGED <<sockets, handlers, op, job, resets,
                   socket, queueWait, expected, force, loggedIn>>

\* The application cancels the context it connected with.
CancelContext ==
    /\ "Cancel" \in AppCalls /\ ~ctxDone
    /\ ctxDone' = TRUE
    /\ UNCHANGED <<client, threads, sockets, handlers, overrun>>

-----------------------------------------------------------------------------
(* Frames, the handler queue and its loop                                  *)

\* consumeFrames runs until the connection's context or the socket ends.
Consuming(c) == fs[c] = "open" /\ loop[c] # "off" /\ ~stopped[c]

\* readPump and consumeFrames hand one frame to handleFrame.
ReceiveFrame(c) ==
    /\ Consuming(c)
    /\ inflight[c] = "none" /\ sent < MaxNodes
    /\ \E node \in Stanzas : inflight' = [inflight EXCEPT ![c] = node]
    /\ sent' = sent + 1
    /\ UNCHANGED <<client, threads, sockets, queue, loop, handler>>

\* Mutant: the test of the compare-and-swap on forceAutoReconnect is inverted.
EnqueueNodeInverted(c) ==
    /\ inflight[c] # "none"
    /\ inflight' = [inflight EXCEPT ![c] = "none"]
    /\ \/ /\ Len(queue[c]) < QueueSize
          /\ queue' = [queue EXCEPT ![c] = Append(@, inflight[c])]
          /\ UNCHANGED <<force, resets>>
       \/ Cancelled(c) /\ UNCHANGED <<queue, force, resets>>
       \/ /\ Len(queue[c]) = QueueSize /\ ~Cancelled(c)
          /\ force' = TRUE
          /\ resets' = IF force THEN resets + 1 ELSE resets
          /\ UNCHANGED queue
    /\ UNCHANGED <<sockets, op, app, job, socket, queueWait, expected, loggedIn, deleted,
                   loop, handler, sent>>

\* enqueueNode: queue the stanza, drop it when the connection is cancelled, or
\* start one ResetConnection when the queue is full.
EnqueueNode(c) ==
    /\ inflight[c] # "none"
    /\ inflight' = [inflight EXCEPT ![c] = "none"]
    /\ \/ /\ Len(queue[c]) < QueueSize
          /\ queue' = [queue EXCEPT ![c] = Append(@, inflight[c])]
          /\ UNCHANGED <<force, resets>>
       \/ Cancelled(c) /\ UNCHANGED <<queue, force, resets>>
       \/ /\ Len(queue[c]) = QueueSize /\ ~Cancelled(c)
          /\ force' = TRUE
          /\ resets' = IF force THEN resets ELSE resets + 1
          /\ UNCHANGED queue
    /\ UNCHANGED <<sockets, op, app, job, socket, queueWait, expected, loggedIn, deleted,
                   loop, handler, sent>>

\* Mutant: the reset goroutine runs though no overflow started one.
OverflowResetUnasked == ResetConnection /\ resets' = resets - 1

OverflowReset == resets > 0 /\ ResetConnection /\ resets' = resets - 1

\* handlerQueueLoop takes a stanza.  On a live connection a handler goroutine
\* starts; after cancellation only a stream error is still handled, and the
\* loop drains the rest of the queue the same way before it closes.
LoopTake(c) ==
    /\ loop[c] \in {"idle", "drain"} /\ handler[c]["front"] = Nothing
    /\ queue[c] # <<>>
    /\ queue' = [queue EXCEPT ![c] = Tail(@)]
    /\ loop' = [loop EXCEPT ![c] = IF loop[c] = "drain" \/ Cancelled(c) THEN "drain" ELSE "busy"]
    /\ handler' = IF loop'[c] = "drain" /\ Head(queue[c]) \notin StreamErrors
                  THEN handler
                  ELSE [handler EXCEPT ![c]["front"] = [node |-> Head(queue[c]), pc |-> "run"]]
    /\ UNCHANGED <<client, threads, sockets, inflight, sent>>

\* The handler returned (doneChan), the connection was cancelled while idle,
\* or the queue has been drained.
LoopStep(c) ==
    /\ handler[c]["front"] = Nothing
    /\ \/ loop[c] = "busy" /\ loop' = [loop EXCEPT ![c] = "idle"]
       \/ loop[c] \in {"idle", "busy"} /\ Cancelled(c) /\ loop' = [loop EXCEPT ![c] = "drain"]
       \/ loop[c] = "drain" /\ queue[c] = <<>> /\ loop' = [loop EXCEPT ![c] = "closed"]
    /\ UNCHANGED <<client, threads, sockets, inflight, queue, handler, sent>>

\* After ten ticks the loop goes on and the handler keeps running behind it.
LoopGivesUp(c) ==
    /\ HandlersMayStall
    /\ loop[c] = "busy" /\ ~Cancelled(c)
    /\ handler[c]["front"] # Nothing /\ handler[c]["background"] = Nothing
    /\ handler' = [handler EXCEPT ![c] = [front |-> Nothing, background |-> @["front"]]]
    /\ loop' = [loop EXCEPT ![c] = "idle"]
    /\ UNCHANGED <<client, threads, sockets, inflight, queue, sent>>

-----------------------------------------------------------------------------
(* Node handlers                                                           *)

Running(c, s, pc) == handler[c][s].pc = pc
Goes(c, s, pc) == handler' = [handler EXCEPT ![c][s] =
                                  IF pc = "none" THEN Nothing ELSE [@ EXCEPT !.pc = pc]]

\* handleConnectSuccess, which ignores the stanza on a device that is not paired.
handleConnectSuccess(c, s) ==
    /\ Running(c, s, "run") /\ handler[c][s].node = "success"
    /\ loggedIn' = (loggedIn \/ Paired)
    /\ Goes(c, s, "none")
    /\ UNCHANGED <<threads, sockets, socket, queueWait, expected, force, deleted,
                   inflight, queue, loop, sent>>

\* handleStreamError
handleStreamError(c, s) ==
    LET node == handler[c][s].node IN
    /\ Running(c, s, "run") /\ node \in StreamErrors
    /\ loggedIn' = FALSE
    /\ IF node \in {"removed", "replaced"} THEN expectDisconnect ELSE UNCHANGED <<expected, force>>
    /\ IF node = "restart" /\ ~DisableLoginAutoReconnect
       THEN \E j \in IdleJobs : Spawn(j, "restartDrop")
       ELSE UNCHANGED job
    /\ Goes(c, s, CASE node = "removed" -> "delete" [] node = "cat" -> "rlock" [] OTHER -> "none")
    /\ UNCHANGED <<sockets, op, app, resets, socket, queueWait, deleted,
                   inflight, queue, loop, sent>>

\* handleConnectFailure: by default no reconnection; 503 and CAT failures do
\* reconnect, the latter after a refresh.
handleConnectFailure(c, s) ==
    LET node == handler[c][s].node IN
    /\ Running(c, s, "run") /\ node \in ConnectFailures
    /\ IF node \in {"failure", "loggedout"} THEN expectDisconnect ELSE UNCHANGED <<expected, force>>
    /\ Goes(c, s, CASE node = "loggedout" -> "delete" [] node = "failureCat" -> "rlock"
                    [] OTHER -> "none")
    /\ UNCHANGED <<threads, sockets, socket, queueWait, loggedIn, deleted,
                   inflight, queue, loop, sent>>

\* Any other handler; what it does to messages is modelled elsewhere.
HandleOther(c, s) ==
    /\ Running(c, s, "run") /\ handler[c][s].node = "plain"
    /\ Goes(c, s, "none")
    /\ UNCHANGED <<client, threads, sockets, inflight, queue, loop, sent>>

\* Store.Delete at the end of the device_removed and logged-out handlers.
DeleteStore(c, s) ==
    /\ Running(c, s, "delete")
    /\ StoreDelete
    /\ Goes(c, s, "none")
    /\ UNCHANGED <<threads, sockets, socket, queueWait, expected, force, loggedIn,
                   inflight, queue, loop, sent>>

\* RefreshCAT runs under the read lock; its failure forbids reconnection.
RLockForRefresh(c, s) ==
    /\ Running(c, s, "rlock") /\ op.pc = "free"
    /\ Goes(c, s, "refresh")
    /\ UNCHANGED <<client, threads, sockets, inflight, queue, loop, sent>>

RefreshCAT(c, s) ==
    /\ Running(c, s, "refresh")
    /\ UNCHANGED <<expected, force>> \/ expectDisconnect
    /\ Goes(c, s, "none")
    /\ UNCHANGED <<threads, sockets, socket, queueWait, loggedIn, deleted,
                   inflight, queue, loop, sent>>

-----------------------------------------------------------------------------
Application == AppConnect \/ AppDisconnect \/ AppReset \/ AppLogout

Server == \E c \in Conns : RemoteClose(c) \/ ReceiveFrame(c)

Stalls == \E c \in Conns : KeepAliveFails(c) \/ LoopGivesUp(c)

LockHolder ==
    \/ (DrainThenDial \/ DisconnectReturns) /\ UNCHANGED ctxDone
    \/ (Dial \/ Handshake \/ FinishConnect) /\ UNCHANGED <<ctxDone, overrun>>

AppGoroutines == (OverflowReset \/ LogoutDelete) /\ UNCHANGED <<ctxDone, overrun>>

Retirement(c) ==
    /\ UNCHANGED <<ctxDone, overrun>>
    /\ \/ \E cb \in callbacks : cb.conn = c /\ onDisconnect(cb)
       \/ \E f \in finishing : f.conn = c /\ finishDisconnect(f)

Background(j) ==
    /\ UNCHANGED <<ctxDone, overrun>>
    /\ \/ AutoReconnectStart(j) \/ AutoReconnectWake(j) \/ AutoReconnectConnect(j)
       \/ RestartDisconnect(j) \/ RestartConnect(j)
       \/ KeepAliveDisconnect(j) \/ KeepAliveReset(j)

QueueLoop(c) == (EnqueueNode(c) \/ LoopTake(c) \/ LoopStep(c)) /\ UNCHANGED <<ctxDone, overrun>>

NodeHandler(c) ==
    /\ UNCHANGED <<ctxDone, overrun>>
    /\ \E s \in Slots :
        \/ handleConnectSuccess(c, s) \/ handleStreamError(c, s) \/ handleConnectFailure(c, s)
        \/ HandleOther(c, s) \/ DeleteStore(c, s) \/ RLockForRefresh(c, s) \/ RefreshCAT(c, s)

Next ==
    \/ (Application \/ Server \/ Stalls) /\ UNCHANGED <<ctxDone, overrun>>
    \/ CancelContext \/ LockHolder \/ AppGoroutines
    \/ \E j \in Jobs : Background(j)
    \/ \E c \in Conns : Retirement(c) \/ QueueLoop(c) \/ NodeHandler(c)

Spec == Init /\ [][Next]_vars

\* Go schedules every runnable goroutine and its mutexes do not starve a
\* waiter, so what a goroutine of the library can do infinitely often it does.
\* The application, the server and the network owe nothing, and neither does a
\* node handler: it calls the application's event handlers and waits for them.
Fairness ==
    /\ WF_vars(LockHolder) /\ SF_vars(AppGoroutines)
    /\ \A j \in Jobs : SF_vars(Background(j))
    /\ \A c \in Conns : SF_vars(Retirement(c)) /\ WF_vars(QueueLoop(c))

FairSpec == Spec /\ Fairness

-----------------------------------------------------------------------------
(* Properties                                                              *)

\* No websocket outlives its owner: an open websocket is the one the client
\* holds or the one unlockedConnect is setting up.  Stop acts only once and
\* onDisconnect also stops, so a second retirement could skip the close.
NoLeakedSocket ==
    \A c \in Conns : fs[c] = "open" =>
        socket = c \/ (op.pc \in {"handshake", "finish"} /\ c = dialed)

\* Something of connection c is at work: its loop or one of its handlers, the
\* ones the loop has given up included.
AtWork(c) == loop[c] \in {"idle", "busy", "drain"} \/ \E s \in Slots : handler[c][s] # Nothing

\* All that is left of connection c is a handler its loop gave up on after five
\* minutes and never waits for again.
OnlyGivenUp(c) == loop[c] = "closed" /\ handler[c]["front"] = Nothing

\* Handlers of two connections run side by side for two reasons only: the five
\* second wait of unlockedDisconnect ran out, or the older connection's loop has
\* ended and left a handler behind that it had given up after five minutes.
\* Otherwise a new connection starts its loop after the retired loop, and the
\* handler it was running, have ended.
SerialHandlers ==
    \A c, d \in Conns : c < d /\ AtWork(c) /\ AtWork(d) => overrun \/ OnlyGivenUp(c)

\* A full handler queue is never swallowed: while a running connection has
\* forceAutoReconnect set (which silences later overflows), the goroutine that
\* will reset it is on its way.
OverflowIsAnswered ==
    force /\ socket # 0 => (stopped[socket] \/ resets > 0)

\* The client is connecting again, has nothing to reconnect or must not.
Recovering ==
    \/ expected \/ deleted \/ ctxDone \/ IsConnected
    \/ op.pc \in {"drain", "dial", "handshake", "finish"}
    \/ \E j \in Jobs : job[j] \in {"start", "sleep", "reconnect", "restartDrop", "restartDial"}

\* No handler that a loop waits for, and none that holds socketLock, runs for ever.
HandlersReturn ==
    /\ \A c \in Conns : []<>(handler[c]["front"] = Nothing)
    /\ []<>(Refreshing = {})

\* When the client's websocket is closed, by the server or by ResetConnection,
\* and FrameSocket.Close found a disconnect handler to run, the client lets go
\* of the dead socket and reconnects unless the disconnect is expected or the
\* context is done.  It needs the handlers to return: neither the loop of the
\* dead connection nor finishDisconnect waits for them with a timeout.
DropScheduled == \E cb \in callbacks : cb.conn = socket

DropIsRecovered == HandlersReturn => (DropScheduled ~> (Recovering /\ ~DropScheduled))

\* finishDisconnect decides after the retired queue has processed its stream
\* errors: none that the consumer had received is left over.
StreamErrorsBeforeReconnect ==
    [][\A f \in finishing \ finishing' :
          job' # job => /\ inflight[f.conn] \notin StreamErrors
                        /\ \A i \in 1..Len(queue[f.conn]) : queue[f.conn][i] \notin StreamErrors]_vars

\* Disconnect disconnects: until the application calls Connect again there is
\* no socket.
DisconnectSticks == app = "off" => socket = 0
=============================================================================
