--------------------------- MODULE RequestWaiters ---------------------------
(***************************************************************************)
(* Requests that wait for a response: the responseWaiters map and its one  *)
(* slot channels, sendIQ, SendMessage, SendPrebuiltStanza, the single      *)
(* retry after a disconnect (retryFrame), the consumer that delivers       *)
(* responses, and the disconnects that release every waiter.               *)
(*                                                                         *)
(* The connection is reduced to what a request sees of it: cli.socket,     *)
(* whether the websocket behind it is open, and the disconnect callbacks   *)
(* still to run (module Connection has the rest).  A request makes at most *)
(* two attempts, so it owns two channels.                                  *)
(***************************************************************************)
EXTENDS Naturals, FiniteSets

CONSTANTS
    Requests,
    Ids,
    IdOf,        \* the stanza id of each request
    Kind,        \* "iq" (sendIQ), "message" (SendMessage, SendPrebuiltStanza) or
                 \* "view" (NewsletterMarkViewed, which waits without a timeout)
    NoRetry,     \* info queries with NoRetry set
    NoChan,
    MaxConns,    \* bound: connections made
    Loads        \* bound: the sets of requests made in one behaviour

Conns == 1..MaxConns
Chans == Requests \X {1, 2}

ASSUME RequestAssumption ==
    /\ IdOf \in [Requests -> Ids]
    /\ Kind \in [Requests -> {"iq", "message", "view"}]
    /\ NoRetry \subseteq Requests
    /\ NoChan \notin Chans
    /\ MaxConns \in Nat

VARIABLES
    waiters,     \* cli.responseWaiters
    buf,         \* the slot of a channel: "empty", "answer", "end" or "auth"
    closed,      \* the channels that have been closed
    pc,          \* where a request is
    using,       \* the socket a request picked; 0 before that
    socket,      \* cli.socket
    open,        \* the connections whose websocket is open
    dialed,      \* connections made so far
    dropping,    \* connections with an onDisconnect goroutine to run
    asked,       \* the ids each connection has carried to the server, unanswered
    consumer,    \* the waiter receiveResponse has taken, per connection
    lost,        \* history: the channels whose response was discarded
    panicked     \* a closed channel was sent to or closed again

chans == <<waiters, buf, closed, panicked>>
conn == <<socket, open, dialed, dropping>>
vars == <<chans, conn, pc, using, asked, consumer, lost>>

\* Locations between two blocking calls of one request.
Steps == {"start", "registered", "sending", "awaiting",
          "reconnecting", "reconnected", "reregister", "resending", "reawaiting", "done"}

Attempt(step) == IF step \in {"resending", "reawaiting"} THEN 2 ELSE 1
Chan(r) == <<r, Attempt(pc[r])>>

TypeOK ==
    /\ waiters \in [Ids -> Chans \cup {NoChan}]
    /\ buf \in [Chans -> {"empty", "answer", "end", "auth"}]
    /\ closed \subseteq Chans
    /\ pc \in [Requests -> Steps]
    /\ using \in [Requests -> 0..MaxConns]
    /\ socket \in 0..MaxConns /\ dialed \in 0..MaxConns
    /\ open \subseteq Conns /\ dropping \subseteq Conns
    /\ asked \in [Conns -> SUBSET Ids]
    /\ consumer \in [Conns -> Chans \cup {NoChan}]
    /\ lost \subseteq Chans
    /\ panicked \in BOOLEAN

Init ==
    /\ waiters = [i \in Ids |-> NoChan]
    /\ buf = [ch \in Chans |-> "empty"] /\ closed = {}
    /\ pc = [r \in Requests |-> "start"] /\ using = [r \in Requests |-> 0]
    /\ socket = 0 /\ open = {} /\ dialed = 0 /\ dropping = {}
    /\ asked = [c \in Conns |-> {}] /\ consumer = [c \in Conns |-> NoChan]
    /\ lost = {} /\ panicked = FALSE

-----------------------------------------------------------------------------
(* responseWaiters                                                         *)

Goto(r, step) == pc' = [pc EXCEPT ![r] = step]

\* waitResponse: a fresh channel replaces whatever the id was mapped to.
waitResponse(r, n) ==
    /\ waiters' = [waiters EXCEPT ![IdOf[r]] = <<r, n>>]
    /\ UNCHANGED <<buf, closed, panicked>>

\* cancelResponse closes the caller's channel and deletes by id.
cancelResponse(r) ==
    /\ closed' = closed \cup {Chan(r)}
    /\ panicked' = (panicked \/ Chan(r) \in closed)
    /\ waiters' = [waiters EXCEPT ![IdOf[r]] = NoChan]
    /\ UNCHANGED buf

\* clearResponseWaiters: the node goes to every registered channel with room;
\* a full one is closed instead.
Registered == {ch \in Chans : \E i \in Ids : waiters[i] = ch}

\* Mutants: the map is emptied without telling anyone; ids without a waiter
\* are closed too.
forgetResponseWaiters(node) ==
    waiters' = [i \in Ids |-> NoChan] /\ UNCHANGED <<buf, closed, panicked>>

closeEveryWaiter(node) ==
    /\ buf' = [ch \in Chans |-> IF ch \in Registered THEN node ELSE buf[ch]]
    /\ closed' = closed \cup {waiters[i] : i \in Ids}
    /\ waiters' = [i \in Ids |-> NoChan]
    /\ UNCHANGED panicked

clearResponseWaiters(node) ==
    LET full == {ch \in Registered : buf[ch] # "empty"} IN
    /\ buf' = [ch \in Chans |-> IF ch \in Registered \ full THEN node ELSE buf[ch]]
    /\ closed' = closed \cup full
    /\ panicked' = (panicked \/ Registered \cap closed # {})
    /\ waiters' = [i \in Ids |-> NoChan]

-----------------------------------------------------------------------------
(* A request                                                               *)

Register(r) ==
    /\ pc[r] = "start"
    /\ \E load \in Loads : {q \in Requests : q = r \/ pc[q] # "start"} \subseteq load
    /\ waitResponse(r, 1)
    /\ Goto(r, "registered")
    /\ UNCHANGED <<conn, using, asked, consumer, lost>>

\* sendNodeAndGetData reads cli.socket; without one the request fails.
PickSocket(r) ==
    /\ pc[r] = "registered"
    /\ \/ /\ socket # 0
          /\ using' = [using EXCEPT ![r] = socket]
          /\ Goto(r, "sending")
          /\ UNCHANGED chans
       \/ /\ socket = 0
          /\ cancelResponse(r) /\ Goto(r, "done")
          /\ UNCHANGED using
    /\ UNCHANGED <<conn, asked, consumer, lost>>

\* NoiseSocket.SendFrame writes on the socket that was picked; its error, or a
\* context that ends while the write goes on in its goroutine, cancels the waiter.
Written(r) == asked' = [asked EXCEPT ![using[r]] = @ \cup {IdOf[r]}]

SendFrame(r) ==
    /\ pc[r] \in {"sending", "resending"}
    /\ \/ /\ using[r] \in open
          /\ Written(r)
          /\ Goto(r, IF pc[r] = "sending" THEN "awaiting" ELSE "reawaiting")
          /\ UNCHANGED chans
       \/ /\ using[r] \in open
          /\ Written(r)
          /\ cancelResponse(r) /\ Goto(r, "done")
       \/ /\ cancelResponse(r) /\ Goto(r, "done")
          /\ UNCHANGED asked
    /\ UNCHANGED <<conn, using, consumer, lost>>

\* The select that waits for the response: a disconnect is retried once, unless
\* it was an authentication error or the request does not want it.
Receive(r) ==
    /\ pc[r] = "awaiting" /\ buf[Chan(r)] # "empty"
    /\ buf' = [buf EXCEPT ![Chan(r)] = "empty"]
    /\ Goto(r, IF buf[Chan(r)] = "end" /\ r \notin NoRetry /\ Kind[r] # "view"
               THEN "reconnecting" ELSE "done")
    /\ UNCHANGED <<conn, waiters, closed, panicked, using, asked, consumer, lost>>

\* The timeout and the end of the context: sendIQ leaves its waiter behind,
\* sending a message cancels it.
GiveUp(r) ==
    /\ pc[r] = "awaiting" /\ Kind[r] # "view"
    /\ IF Kind[r] = "message" THEN cancelResponse(r) ELSE UNCHANGED chans
    /\ Goto(r, "done")
    /\ UNCHANGED <<conn, using, asked, consumer, lost>>

\* retryFrame: WaitForConnection succeeds on an open socket or times out; then
\* the socket is read again, which may be gone, or another one.
WaitForConnection(r) ==
    /\ pc[r] = "reconnecting"
    /\ \/ socket \in open /\ Goto(r, "reconnected")
       \/ Goto(r, "done")
    /\ UNCHANGED <<chans, conn, using, asked, consumer, lost>>

RepickSocket(r) ==
    /\ pc[r] = "reconnected"
    /\ using' = [using EXCEPT ![r] = socket]
    /\ Goto(r, IF socket = 0 THEN "done" ELSE "reregister")
    /\ UNCHANGED <<chans, conn, asked, consumer, lost>>

Reregister(r) ==
    /\ pc[r] = "reregister"
    /\ waitResponse(r, 2)
    /\ Goto(r, "resending")
    /\ UNCHANGED <<conn, using, asked, consumer, lost>>

\* The second wait: whatever arrives ends the request.
ReceiveRetry(r) ==
    /\ pc[r] = "reawaiting" /\ buf[Chan(r)] # "empty"
    /\ buf' = [buf EXCEPT ![Chan(r)] = "empty"]
    /\ Goto(r, "done")
    /\ UNCHANGED <<conn, waiters, closed, panicked, using, asked, consumer, lost>>

\* Only sendIQ passes retryFrame a timeout.
RetryTimesOut(r) ==
    /\ pc[r] = "reawaiting" /\ Kind[r] = "iq"
    /\ Goto(r, "done")
    /\ UNCHANGED <<chans, conn, using, asked, consumer, lost>>

RetryContextEnds(r) ==
    /\ pc[r] = "reawaiting"
    /\ Goto(r, "done")
    /\ UNCHANGED <<chans, conn, using, asked, consumer, lost>>

-----------------------------------------------------------------------------
(* The consumer of a connection: receiveResponse takes the waiter out of    *)
(* the map under the lock and sends to it after unlocking.  A frame that     *)
(* was already received is handled even if the connection closes.           *)

\* Mutant: the waiter stays in the map.
TakeWaiterKeeps(c) ==
    /\ consumer[c] = NoChan
    /\ \E i \in asked[c] :
          /\ asked' = [asked EXCEPT ![c] = @ \ {i}]
          /\ consumer' = [consumer EXCEPT ![c] = waiters[i]]
    /\ UNCHANGED <<conn, chans, pc, using, lost>>

TakeWaiter(c) ==
    /\ consumer[c] = NoChan
    /\ \E i \in asked[c] :
          /\ asked' = [asked EXCEPT ![c] = @ \ {i}]
          /\ consumer' = [consumer EXCEPT ![c] = waiters[i]]
          /\ waiters' = [waiters EXCEPT ![i] = NoChan]
    /\ UNCHANGED <<conn, buf, closed, panicked, pc, using, lost>>

\* The select of receiveResponse: once the connection's context has ended it
\* may also discard the response.
DeliverResponse(c) ==
    LET ch == consumer[c] IN
    /\ ch # NoChan
    /\ \/ ch \in closed /\ panicked' = TRUE /\ UNCHANGED <<buf, lost>>
       \/ /\ ch \notin closed /\ buf[ch] = "empty"
          /\ buf' = [buf EXCEPT ![ch] = "answer"] /\ UNCHANGED <<panicked, lost>>
       \/ c \notin open /\ lost' = lost \cup {ch} /\ UNCHANGED <<buf, panicked>>
    /\ consumer' = [consumer EXCEPT ![c] = NoChan]
    /\ UNCHANGED <<conn, waiters, closed, pc, using, asked>>

-----------------------------------------------------------------------------
(* The connection                                                          *)

Connect ==
    /\ socket \notin open /\ dialed < MaxConns
    /\ dialed' = dialed + 1
    /\ socket' = dialed' /\ open' = open \cup {dialed'}
    /\ IF socket # 0 THEN clearResponseWaiters("end") ELSE UNCHANGED chans
    /\ UNCHANGED <<dropping, pc, using, asked, consumer, lost>>

\* FrameSocket.Close after the server or the network closed the websocket.
RemoteClose(c) ==
    /\ c \in open
    /\ open' = open \ {c} /\ dropping' = dropping \cup {c}
    /\ UNCHANGED <<chans, socket, dialed, pc, using, asked, consumer, lost>>

\* Mutant: the waiters are not released.
onDisconnectQuietly(c) ==
    /\ c \in dropping
    /\ dropping' = dropping \ {c}
    /\ socket' = IF socket = c THEN 0 ELSE socket
    /\ UNCHANGED <<chans, open, dialed, pc, using, asked, consumer, lost>>

onDisconnect(c) ==
    /\ c \in dropping
    /\ dropping' = dropping \ {c}
    /\ IF socket = c THEN socket' = 0 /\ clearResponseWaiters("end")
                     ELSE UNCHANGED <<socket, chans>>
    /\ UNCHANGED <<open, dialed, pc, using, asked, consumer, lost>>

\* Mutant: the waiters are not released.
unlockedDisconnectQuietly ==
    /\ socket # 0
    /\ open' = open \ {socket} /\ socket' = 0
    /\ UNCHANGED <<chans, dialed, dropping, pc, using, asked, consumer, lost>>

\* Disconnect, and the part of unlockedConnect that replaces a dead socket.
unlockedDisconnect ==
    /\ socket # 0
    /\ open' = open \ {socket} /\ socket' = 0
    /\ clearResponseWaiters("end")
    /\ UNCHANGED <<dialed, dropping, pc, using, asked, consumer, lost>>

ResetConnection ==
    /\ socket # 0
    /\ open' = open \ {socket}
    /\ dropping' = dropping \cup (open \cap {socket})
    /\ clearResponseWaiters("end")
    /\ UNCHANGED <<socket, dialed, pc, using, asked, consumer, lost>>

\* handleStreamError releases the waiters while the socket is still there.
handleStreamError ==
    /\ dialed > 0
    /\ \E node \in {"end", "auth"} : clearResponseWaiters(node)
    /\ UNCHANGED <<conn, pc, using, asked, consumer, lost>>

-----------------------------------------------------------------------------
Request(r) ==
    \/ Register(r) \/ PickSocket(r) \/ SendFrame(r)
    \/ Receive(r) \/ GiveUp(r) \/ WaitForConnection(r) \/ RepickSocket(r)
    \/ Reregister(r) \/ ReceiveRetry(r) \/ RetryTimesOut(r) \/ RetryContextEnds(r)

Consumer(c) == TakeWaiter(c) \/ DeliverResponse(c)

Next ==
    \/ \E r \in Requests : Request(r)
    \/ \E c \in Conns : Consumer(c) \/ RemoteClose(c) \/ onDisconnect(c)
    \/ Connect \/ unlockedDisconnect \/ ResetConnection \/ handleStreamError

Spec == Init /\ [][Next]_vars

\* Goroutines run and timers fire; contexts, the server and the network owe
\* nothing, so neither RetryContextEnds nor an answer is promised.
Runs(r) ==
    \/ Register(r) \/ PickSocket(r) \/ SendFrame(r)
    \/ Receive(r) \/ GiveUp(r) \/ WaitForConnection(r) \/ RepickSocket(r)
    \/ Reregister(r) \/ ReceiveRetry(r) \/ RetryTimesOut(r)

Fairness ==
    /\ \A r \in Requests : WF_vars(Runs(r))
    /\ \A c \in Conns : WF_vars(DeliverResponse(c)) /\ WF_vars(onDisconnect(c))

FairSpec == Spec /\ Fairness

-----------------------------------------------------------------------------
(* Properties                                                              *)

\* A channel in responseWaiters is open and empty: a response, a disconnect
\* and a cancellation each take it out of the map before anyone else can use
\* it.  So clearResponseWaiters never closes a channel, a waiting request never
\* reads from a closed one, and nobody closes a channel twice.
RegisteredIsReady ==
    \A i \in Ids : waiters[i] # NoChan =>
        waiters[i] \notin closed /\ buf[waiters[i]] = "empty"

\* No lost wakeup: a request that waits, and whose id nobody else uses, can
\* still be woken.  Its channel is in the map, or holds a node, or a consumer
\* has taken it and is about to send.  There is one way to lose it: the consumer
\* discards a response because the connection has just closed.
Waiting(r) == pc[r] \in {"awaiting", "reawaiting"}
Unique(r) == \A q \in Requests : IdOf[q] = IdOf[r] => q = r

NoLostWakeup ==
    \A r \in Requests : Waiting(r) /\ Unique(r) =>
        \/ waiters[IdOf[r]] = Chan(r)
        \/ buf[Chan(r)] # "empty"
        \/ \E c \in Conns : consumer[c] = Chan(r)
        \/ Chan(r) \in lost

\* Nobody waits on a dead connection: while a request is registered and has
\* been sent, its socket is still the client's, and if the websocket is closed
\* the callback that will release the request is scheduled.  The retry picks
\* its socket before it registers, so a disconnect can come in between.
NoWaitOnDeadSocket ==
    \A r \in Requests : Waiting(r) /\ waiters[IdOf[r]] = Chan(r) =>
        /\ using[r] = socket
        /\ socket \in open \/ socket \in dropping

\* When the connection of a waiting request closes, the request moves on, even
\* one that has no timeout (NewsletterMarkViewed, a message sent again), unless
\* its response was discarded.
ClosedConnectionReleases ==
    \A r \in Requests, step \in {"awaiting", "reawaiting"} :
        (pc[r] = step /\ using[r] \notin open) ~> (pc[r] # step \/ Chan(r) \in lost)

\* A disconnect reaches every request: "DisconnectedError is returned if the
\* websocket disconnects before an info query or other request gets a
\* response" (errors.go).
DisconnectIsReported ==
    \A r \in Requests, step \in {"awaiting", "reawaiting"} :
        (pc[r] = step /\ using[r] \notin open) ~> (pc[r] # step)

\* A response is never sent to a closed channel, which would panic.
NoPanic == ~panicked
=============================================================================
