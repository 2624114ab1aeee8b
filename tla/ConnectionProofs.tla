-------------------------- MODULE ConnectionProofs --------------------------
(***************************************************************************)
(* Proofs about a connection, its lifecycle (Connection) and its bytes     *)
(* (Sockets, in the second half).                                          *)
(*                                                                         *)
(* Ownership of a websocket passes from the writer inside socketLock to    *)
(* cli.socket and nowhere else (SocketInv), a handler loop runs only while *)
(* handlerQueueWait names it (LoopInv), and forceAutoReconnect is down     *)
(* whenever a new socket is installed (FlagInv).  Together with the types  *)
(* they are inductive.                                                     *)
(*                                                                         *)
(* Below a connection, what the read pump holds is always the piece of the *)
(* server's stream after the last frame it cut (ReadInv), and a frame that *)
(* awaits its goroutine without the lock's holder waiting for it has been  *)
(* given up (WriteInv).                                                    *)
(***************************************************************************)
EXTENDS Connection, Sockets, FiniteSetTheorems, SequenceTheorems,
        WellFoundedInduction, NaturalsInduction, TLAPS

PCs == {"none", "run", "delete", "rlock", "refresh"}
HandlerOf == [node : AllStanzas \cup {"none"}, pc : PCs]

ClientType ==
    /\ socket \in 0..MaxConns /\ queueWait \in 0..MaxConns
    /\ expected \in BOOLEAN /\ force \in BOOLEAN
    /\ loggedIn \in BOOLEAN /\ deleted \in BOOLEAN

ThreadType ==
    /\ op \in [pc : {"free", "drain", "dial", "handshake", "finish", "leave"},
               by : Jobs \cup {App}]
    /\ app \in {"ready", "connect", "disconnect", "logout", "delete", "off"}
    /\ job \in [Jobs -> {"idle", "start", "sleep", "reconnect",
                         "restartDrop", "restartDial", "keepDrop", "keepReset"}]
    /\ resets \in Nat

SocketType ==
    /\ dialed \in 0..MaxConns
    /\ fs \in [Conns -> {"none", "open", "closed"}]
    /\ hook \in [Conns -> BOOLEAN] /\ stopped \in [Conns -> BOOLEAN]
    /\ callbacks \subseteq [conn : Conns, remote : BOOLEAN]
    /\ finishing \subseteq [conn : Conns, remote : BOOLEAN, wait : 0..MaxConns]

HandlerType ==
    /\ inflight \in [Conns -> AllStanzas \cup {"none"}]
    /\ queue \in [Conns -> Seq(AllStanzas)]
    /\ loop \in [Conns -> {"off", "idle", "busy", "drain", "closed"}]
    /\ handler \in [Conns -> [Slots -> HandlerOf]]
    /\ sent \in 0..MaxNodes

Types == ClientType /\ ThreadType /\ SocketType /\ HandlerType /\ ctxDone \in BOOLEAN /\ overrun \in BOOLEAN

\* A websocket is owned by the writer inside socketLock, then by cli.socket; a
\* NoiseSocket that was stopped, and one whose disconnect callback is on its
\* way, has been closed.
SocketInv ==
    /\ \A c \in Conns : fs[c] = "none" <=> c > dialed
    /\ \A c \in Conns : stopped[c] => fs[c] = "closed"
    /\ \A cb \in callbacks : fs[cb.conn] = "closed"
    /\ op.pc # "free" => socket = 0
    /\ socket <= dialed
    /\ op.pc \in {"handshake", "finish"} => dialed > 0
    /\ NoLeakedSocket

Setting == op.pc \in {"handshake", "finish"}
Dialing == op.pc \in {"dial", "handshake", "finish"}
Alive(c) == loop[c] \in {"idle", "busy", "drain"}

\* Unless a wait has run out, the loop that runs is the one handlerQueueWait names,
\* and none runs while a connection is being set up.
LoopInv ==
    /\ \A c \in Conns : loop[c] # "off" => c <= dialed /\ (Setting => c # dialed)
    /\ \A c \in Conns : handler[c]["front"] # Nothing => loop[c] \in {"busy", "drain"}
    /\ ~overrun => \A c \in Conns : Alive(c) => c = queueWait
    /\ ~overrun => \A c, d \in Conns : c < d /\ loop[d] # "off" => ~Alive(c)
    /\ \A c \in Conns : \A s \in Slots : handler[c][s] # Nothing => loop[c] # "off"
    /\ ~overrun /\ Dialing => queueWait = 0

\* A frame belongs to a connection whose loop was started, so nothing can overflow,
\* and nothing else can ask for a reset, while a connection is being set up.
FlagInv ==
    /\ \A c \in Conns : inflight[c] # "none" => loop[c] # "off"
    /\ Dialing => ~force
    /\ OverflowIsAnswered

IInv == Types /\ SocketInv /\ LoopInv /\ FlagInv

-----------------------------------------------------------------------------
(* Operators the actions share                                             *)

\* The conjunction of the typed parts is the type invariant.
LEMMA TypesAreTypeOK == Types => TypeOK
  BY DEF Types, TypeOK, ClientType, ThreadType, SocketType, HandlerType, HandlerOf, PCs

\* A dialed websocket has ended and may have scheduled its callback.
Closed(c) ==
    /\ fs' = [fs EXCEPT ![c] = "closed"]
    /\ callbacks' \subseteq callbacks \cup [conn : {c}, remote : BOOLEAN]
    /\ hook' \in [Conns -> BOOLEAN]

\* FrameSocket.Close ends a websocket that was dialed.
LEMMA CloseFacts ==
    ASSUME SocketType, SocketInv, NEW c \in Conns, c <= dialed,
           NEW remote \in BOOLEAN, NEW set \in BOOLEAN, Close(c, remote, set)
    PROVE  /\ fs' = [fs EXCEPT ![c] = "closed"]
           /\ callbacks' \subseteq callbacks \cup [conn : {c}, remote : BOOLEAN]
  <1>1. c \in Nat /\ dialed \in Nat /\ ~(c > dialed)
    BY ConnectionAssumption DEF Conns, SocketType
  <1>2. fs[c] # "none"
    BY <1>1 DEF SocketInv
  <1>3. fs[c] \in {"open", "closed"}
    BY <1>2 DEF SocketType
  <1>4. fs' = [fs EXCEPT ![c] = "closed"]
    BY <1>3 DEF Close, SocketType
  <1>5. callbacks' \subseteq callbacks \cup {[conn |-> c, remote |-> remote]}
    BY DEF Close
  <1>6. [conn |-> c, remote |-> remote] \in [conn : {c}, remote : BOOLEAN]
    OBVIOUS
  <1> QED BY <1>4, <1>5, <1>6

\* NoiseSocket.Stop leaves a stopped NoiseSocket and a closed websocket, the first
\* time and every other time.
LEMMA StopFacts ==
    ASSUME SocketType, SocketInv, NEW c \in Conns, c <= dialed,
           NEW allow \in BOOLEAN, Stop(c, allow)
    PROVE  Closed(c) /\ stopped' = [stopped EXCEPT ![c] = TRUE]
  <1>1. CASE stopped[c]
    <2>1. fs[c] = "closed"
      BY <1>1 DEF SocketInv
    <2> QED BY <1>1, <2>1 DEF Stop, Closed, SocketType
  <1>2. CASE ~stopped[c]
    <2>1. hook' = [hook EXCEPT ![c] = @ /\ allow] /\ stopped' = [stopped EXCEPT ![c] = TRUE]
          /\ Close(c, FALSE, hook'[c])
      BY <1>2 DEF Stop
    <2>2. hook' \in [Conns -> BOOLEAN] /\ hook'[c] \in BOOLEAN
      BY <2>1 DEF SocketType
    <2>3. FALSE \in BOOLEAN
      OBVIOUS
    <2> QED BY <2>1, <2>2, <2>3, CloseFacts DEF Closed
  <1> QED BY <1>1, <1>2

\* The socket the client holds was dialed.
LEMMA HeldWasDialed ==
    ASSUME ClientType, SocketType, SocketInv, socket # 0
    PROVE  socket \in Conns /\ socket <= dialed
  BY ConnectionAssumption DEF ClientType, SocketType, SocketInv, Conns

\* unlockedDisconnect: the client holds no socket and the one it held is closed.
LEMMA RetireFacts ==
    ASSUME ClientType, SocketType, SocketInv, RetireSocket
    PROVE  /\ socket' = 0
           /\ \/ socket = 0 /\ UNCHANGED <<fs, callbacks, hook, stopped>>
              \/ /\ socket \in Conns /\ socket <= dialed
                 /\ Closed(socket) /\ stopped' = [stopped EXCEPT ![socket] = TRUE]
  <1>1. CASE socket = 0
    BY <1>1 DEF RetireSocket
  <1>2. CASE socket # 0
    <2>1. socket \in Conns /\ socket <= dialed
      BY <1>2, HeldWasDialed
    <2>2. socket' = 0 /\ Stop(socket, FALSE)
      BY <1>2 DEF RetireSocket
    <2> QED BY <2>1, <2>2, StopFacts
  <1> QED BY <1>1, <1>2

\* The end of connect releases the lock and leaves well-typed goroutines.
LEMMA ReturnFacts ==
    ASSUME ThreadType, NEW by \in Jobs \cup {App}, NEW result, ConnectReturns(by, result),
           UNCHANGED resets
    PROVE  ThreadType' /\ op' = Free
  <1>1. op' = Free /\ op' \in [pc : {"free", "drain", "dial", "handshake", "finish", "leave"},
                                by : Jobs \cup {App}]
    BY DEF ConnectReturns, Free
  <1>2. CASE by = App
    <2>1. \/ UNCHANGED job
          \/ \E j \in Jobs : job' = [job EXCEPT ![j] = "start"]
      BY <1>2 DEF ConnectReturns, IdleJobs, Spawn
    <2> QED BY <1>1, <1>2, <2>1 DEF ConnectReturns, ThreadType
  <1>3. CASE by # App
    BY <1>1, <1>3 DEF ConnectReturns, ThreadType, Spawn
  <1> QED BY <1>2, <1>3

\* A node handler goes on or ends.
LEMMA GoesFacts ==
    ASSUME HandlerType, NEW c \in Conns, NEW s \in Slots, NEW pc \in PCs, Goes(c, s, pc)
    PROVE  /\ handler' \in [Conns -> [Slots -> HandlerOf]]
           /\ \A d \in Conns : \A t \in Slots :
                 handler'[d][t] # Nothing => (d = c /\ t = s) \/ handler[d][t] # Nothing
  <1>1. Nothing \in HandlerOf
    BY DEF Nothing, HandlerOf, PCs
  <1>2. handler[c][s] \in HandlerOf /\ handler[c] \in [Slots -> HandlerOf]
    BY DEF HandlerType
  <1>3. [handler[c][s] EXCEPT !.pc = pc] \in HandlerOf
    BY <1>2 DEF HandlerOf
  <1>4. PICK h \in HandlerOf : handler' = [handler EXCEPT ![c][s] = h]
    BY <1>1, <1>3 DEF Goes
  <1>5. handler' \in [Conns -> [Slots -> HandlerOf]]
    BY <1>2, <1>4 DEF HandlerType
  <1>6. ASSUME NEW d \in Conns, NEW t \in Slots, handler'[d][t] # Nothing,
               ~(d = c /\ t = s), handler[d][t] = Nothing
        PROVE  FALSE
    BY <1>4, <1>6 DEF HandlerType
  <1> QED BY <1>5, <1>6

-----------------------------------------------------------------------------
(* Types                                                                   *)

\* The steps of the handlers of a connection.
HandlerSteps(c) ==
    \E s \in Slots :
        \/ handleConnectSuccess(c, s) \/ handleStreamError(c, s) \/ handleConnectFailure(c, s)
        \/ HandleOther(c, s) \/ DeleteStore(c, s) \/ RLockForRefresh(c, s) \/ RefreshCAT(c, s)

\* A step of a node handler is typed; it leaves the sockets and the loop alone, and
\* its handler was running.
LEMMA HandlerStepFacts ==
    ASSUME Types, NEW c \in Conns, HandlerSteps(c), UNCHANGED <<ctxDone, overrun>>
    PROVE  /\ Types'
           /\ UNCHANGED <<op, socket, queueWait, sockets, resets, inflight, queue, loop, sent>>
           /\ force' => force
           /\ \A d \in Conns : \A t \in Slots : handler'[d][t] # Nothing => handler[d][t] # Nothing
  <1>1. PICK s \in Slots :
           \/ handleConnectSuccess(c, s) \/ handleStreamError(c, s) \/ handleConnectFailure(c, s)
           \/ HandleOther(c, s) \/ DeleteStore(c, s) \/ RLockForRefresh(c, s) \/ RefreshCAT(c, s)
    BY DEF HandlerSteps
  <1>2. \E pc \in PCs : Goes(c, s, pc)
    BY <1>1 DEF handleConnectSuccess, handleStreamError, handleConnectFailure, HandleOther,
                DeleteStore, RLockForRefresh, RefreshCAT, PCs
  <1>3. handler[c][s].pc # "none"
    BY <1>1 DEF handleConnectSuccess, handleStreamError, handleConnectFailure, HandleOther,
                DeleteStore, RLockForRefresh, RefreshCAT, Running
  <1>4. handler[c][s] # Nothing
    BY <1>3 DEF Nothing
  <1>5. UNCHANGED <<op, socket, queueWait, sockets, resets, inflight, queue, loop, sent, app>>
    BY <1>1 DEF handleConnectSuccess, handleStreamError, handleConnectFailure, HandleOther,
                DeleteStore, RLockForRefresh, RefreshCAT, client, threads
  <1>6. \/ UNCHANGED <<expected, force>> \/ expectDisconnect
    BY <1>1 DEF handleConnectSuccess, handleStreamError, handleConnectFailure, HandleOther,
                DeleteStore, RLockForRefresh, RefreshCAT, client
  <1>7. loggedIn' \in BOOLEAN /\ deleted' \in BOOLEAN
    BY <1>1, ConnectionAssumption DEF StoreDelete, handleConnectSuccess, handleStreamError, handleConnectFailure, HandleOther,
                DeleteStore, RLockForRefresh, RefreshCAT, client, Types, ClientType
  <1>8. job' = job \/ \E j \in Jobs : job' = [job EXCEPT ![j] = "restartDrop"]
    BY <1>1 DEF handleConnectSuccess, handleStreamError, handleConnectFailure, HandleOther,
                DeleteStore, RLockForRefresh, RefreshCAT, threads, IdleJobs, Spawn
  <1>9. /\ handler' \in [Conns -> [Slots -> HandlerOf]]
        /\ \A d \in Conns : \A t \in Slots : handler'[d][t] # Nothing => handler[d][t] # Nothing
    BY <1>2, <1>4, GoesFacts DEF Types
  <1>10. ClientType'
    BY <1>5, <1>6, <1>7 DEF ClientType, Types, expectDisconnect
  <1>11. ThreadType'
    BY <1>5, <1>8 DEF ThreadType, Types
  <1>12. SocketType'
    BY <1>5 DEF SocketType, Types, sockets
  <1>13. HandlerType'
    BY <1>5, <1>9 DEF HandlerType, Types
  <1>14. force' => force
    BY <1>6 DEF expectDisconnect
  <1> QED BY <1>5, <1>9, <1>10, <1>11, <1>12, <1>13, <1>14 DEF Types

\* The handler queue and its loop.
LEMMA QueueTypes ==
    ASSUME Types, NEW c \in Conns, UNCHANGED <<ctxDone, overrun>>,
           ReceiveFrame(c) \/ EnqueueNode(c) \/ LoopTake(c) \/ LoopStep(c) \/ LoopGivesUp(c)
    PROVE  Types'
  <1>1. CASE ReceiveFrame(c)
    <2>1. \E node \in AllStanzas : inflight' = [inflight EXCEPT ![c] = node]
      BY <1>1, ConnectionAssumption DEF ReceiveFrame
    <2>2. sent' \in 0..MaxNodes
      BY <1>1, ConnectionAssumption DEF ReceiveFrame, Types, HandlerType
    <2>3. HandlerType'
      BY <1>1, <2>1, <2>2 DEF ReceiveFrame, Types, HandlerType
    <2> QED BY <1>1, <2>3 DEF ReceiveFrame, Types, ClientType, ThreadType, SocketType,
                              client, threads, sockets
  <1>2. CASE EnqueueNode(c)
    <2>1. inflight[c] \in AllStanzas
      BY <1>2 DEF EnqueueNode, Types, HandlerType
    <2>2. queue' = queue \/ queue' = [queue EXCEPT ![c] = Append(@, inflight[c])]
      BY <1>2 DEF EnqueueNode
    <2>3. queue' \in [Conns -> Seq(AllStanzas)]
      <3>1. queue \in [Conns -> Seq(AllStanzas)]
        BY DEF Types, HandlerType
      <3>2. Append(queue[c], inflight[c]) \in Seq(AllStanzas)
        BY <2>1, <3>1
      <3> QED BY <2>2, <3>1, <3>2
    <2>4. inflight' \in [Conns -> AllStanzas \cup {"none"}]
      BY <1>2 DEF EnqueueNode, Types, HandlerType
    <2>5. HandlerType'
      BY <1>2, <2>3, <2>4 DEF EnqueueNode, Types, HandlerType
    <2>6. force' \in BOOLEAN /\ resets' \in Nat
      <3>1. force' = force \/ force' = TRUE
        BY <1>2 DEF EnqueueNode
      <3>2. resets' = resets \/ resets' = resets + 1
        BY <1>2 DEF EnqueueNode
      <3>3. force' \in BOOLEAN
        BY <3>1 DEF Types, ClientType
      <3>4. resets' \in Nat
        BY <3>2 DEF Types, ThreadType
      <3> QED BY <3>3, <3>4
    <2> QED BY <1>2, <2>5, <2>6 DEF EnqueueNode, Types, ClientType, ThreadType, SocketType, sockets
  <1>3. CASE LoopTake(c)
    <2>1. queue[c] \in Seq(AllStanzas) /\ queue[c] # <<>>
      BY <1>3 DEF LoopTake, Types, HandlerType
    <2>2. Head(queue[c]) \in AllStanzas /\ Tail(queue[c]) \in Seq(AllStanzas)
      BY <2>1
    <2>3. queue' \in [Conns -> Seq(AllStanzas)]
      BY <1>3, <2>2 DEF LoopTake, Types, HandlerType
    <2>4. [node |-> Head(queue[c]), pc |-> "run"] \in HandlerOf
      BY <2>2 DEF HandlerOf, PCs
    <2>5. handler' = handler \/ handler' = [handler EXCEPT ![c]["front"] =
                                               [node |-> Head(queue[c]), pc |-> "run"]]
      BY <1>3 DEF LoopTake
    <2>6. handler' \in [Conns -> [Slots -> HandlerOf]]
      <3>1. handler \in [Conns -> [Slots -> HandlerOf]] /\ "front" \in Slots
        BY DEF Types, HandlerType, Slots
      <3> QED BY <2>4, <2>5, <3>1
    <2>7. HandlerType'
      BY <1>3, <2>3, <2>6 DEF LoopTake, Types, HandlerType
    <2> QED BY <1>3, <2>7 DEF LoopTake, Types, ClientType, ThreadType, SocketType,
                              client, threads, sockets
  <1>4. CASE LoopStep(c)
    <2>1. HandlerType'
      BY <1>4 DEF LoopStep, Types, HandlerType
    <2> QED BY <1>4, <2>1 DEF LoopStep, Types, ClientType, ThreadType, SocketType,
                              client, threads, sockets
  <1>5. CASE LoopGivesUp(c)
    <2>1. handler[c]["front"] \in HandlerOf /\ Nothing \in HandlerOf
      BY DEF Types, HandlerType, Slots, Nothing, HandlerOf, PCs
    <2>2. [front |-> Nothing, background |-> handler[c]["front"]] \in [Slots -> HandlerOf]
      BY <2>1 DEF Slots
    <2>3. handler' \in [Conns -> [Slots -> HandlerOf]]
      BY <1>5, <2>2 DEF LoopGivesUp, Types, HandlerType
    <2>4. HandlerType'
      BY <1>5, <2>3 DEF LoopGivesUp, Types, HandlerType
    <2> QED BY <1>5, <2>4 DEF LoopGivesUp, Types, ClientType, ThreadType, SocketType,
                              client, threads, sockets
  <1> QED BY <1>1, <1>2, <1>3, <1>4, <1>5

\* What an action may do to the sockets keeps their types.
LEMMA ClosedTypes ==
    ASSUME SocketType, NEW c \in Conns, Closed(c), UNCHANGED <<dialed, finishing>>,
           stopped' = stopped \/ stopped' = [stopped EXCEPT ![c] = TRUE]
    PROVE  SocketType'
  <1>1. [conn : {c}, remote : BOOLEAN] \subseteq [conn : Conns, remote : BOOLEAN]
    OBVIOUS
  <1>2. callbacks' \subseteq [conn : Conns, remote : BOOLEAN]
    BY <1>1 DEF Closed, SocketType
  <1> QED BY <1>2 DEF Closed, SocketType

\* unlockedDisconnect keeps the types of the sockets.
LEMMA RetireTypes ==
    ASSUME ClientType, SocketType, SocketInv, RetireSocket, UNCHANGED <<dialed, finishing>>
    PROVE  SocketType'
  <1>1. CASE socket = 0 /\ UNCHANGED <<fs, callbacks, hook, stopped>>
    BY <1>1 DEF SocketType
  <1>2. CASE /\ socket \in Conns /\ socket <= dialed
             /\ Closed(socket) /\ stopped' = [stopped EXCEPT ![socket] = TRUE]
    BY <1>2, ClosedTypes
  <1> QED BY <1>1, <1>2, RetireFacts

\* connect, up to its first blocking call.
LEMMA ConnectTypes ==
    ASSUME Types, SocketInv, NEW by \in Jobs \cup {App}, unlockedConnect(by), UNCHANGED <<ctxDone, overrun>>
    PROVE  Types'
  <1>1. CASE /\ deleted \/ IsConnected
             /\ ConnectReturns(by, IF deleted THEN "deleted" ELSE "already")
             /\ UNCHANGED <<client, fs, callbacks, hook, stopped>>
    <2>1. ThreadType'
      BY <1>1, ReturnFacts DEF unlockedConnect, Types
    <2> QED BY <1>1, <2>1 DEF unlockedConnect, Types, ClientType, SocketType, HandlerType,
                              client, handlers
  <1>2. CASE /\ ~deleted /\ ~IsConnected
             /\ RetireSocket
             /\ IF queueWait # 0
                THEN op' = [pc |-> "drain", by |-> by] /\ UNCHANGED <<expected, force>>
                ELSE op' = [pc |-> "dial", by |-> by] /\ resetExpectedDisconnect
             /\ app' = IF by = App THEN "connect" ELSE app
             /\ UNCHANGED <<job, queueWait, loggedIn, deleted>>
    <2>1. SocketType'
      BY <1>2, RetireTypes DEF unlockedConnect, Types
    <2>2. ThreadType'
      BY <1>2 DEF unlockedConnect, Types, ThreadType
    <2>3. ClientType'
      <3>1. socket' \in 0..MaxConns
        BY <1>2, ConnectionAssumption DEF RetireSocket
      <3>2. expected' \in BOOLEAN /\ force' \in BOOLEAN
        BY <1>2 DEF Types, ClientType, resetExpectedDisconnect
      <3> QED BY <1>2, <3>1, <3>2 DEF Types, ClientType
    <2> QED BY <2>1, <2>2, <2>3 DEF unlockedConnect, Types, HandlerType, handlers
  <1> QED BY <1>1, <1>2 DEF unlockedConnect

\* Disconnect, up to its wait.
LEMMA DisconnectTypes ==
    ASSUME Types, SocketInv, NEW by \in Jobs \cup {App}, Disconnect(by), UNCHANGED <<ctxDone, overrun>>,
           app' \in {app, "disconnect", "logout"}
    PROVE  Types'
  <1>1. SocketType'
    BY RetireTypes DEF Disconnect, Types
  <1>2. ThreadType'
    BY DEF Disconnect, Types, ThreadType
  <1>3. ClientType'
    <2>1. socket' \in 0..MaxConns
      BY ConnectionAssumption DEF Disconnect, RetireSocket
    <2>2. expected' \in BOOLEAN /\ force' \in BOOLEAN
      BY DEF Disconnect, expectDisconnect
    <2> QED BY <2>1, <2>2 DEF Disconnect, Types, ClientType
  <1> QED BY <1>1, <1>2, <1>3 DEF Disconnect, Types, HandlerType, handlers

\* ResetConnection.
LEMMA ResetTypes ==
    ASSUME Types, SocketInv, ResetConnection, resets' \in Nat, UNCHANGED <<ctxDone, overrun>>
    PROVE  Types'
  <1>1. SocketType'
    <2>1. CASE socket = 0
      BY <2>1 DEF ResetConnection, Types, SocketType
    <2>2. CASE socket # 0
      <3>1. socket \in Conns /\ socket <= dialed
        BY <2>2, HeldWasDialed DEF Types
      <3>2. Stop(socket, TRUE)
        BY <2>2 DEF ResetConnection
      <3>3. Closed(socket) /\ stopped' = [stopped EXCEPT ![socket] = TRUE]
        BY <3>1, <3>2, StopFacts DEF Types
      <3> QED BY <3>1, <3>3, ClosedTypes DEF ResetConnection, Types
    <2> QED BY <2>1, <2>2
  <1>2. ThreadType'
    BY DEF ResetConnection, Types, ThreadType
  <1>3. ClientType'
    BY DEF ResetConnection, Types, ClientType
  <1> QED BY <1>1, <1>2, <1>3 DEF ResetConnection, Types, HandlerType, handlers

\* The wait for the retired loop.
LEMMA WaitFacts ==
    ASSUME Types, QueueWaited
    PROVE  /\ queueWait' \in 0..MaxConns /\ overrun' \in BOOLEAN
           /\ ~overrun' => ~overrun /\ queueWait' = 0
           /\ ~overrun' => \A c \in Conns : Alive(c) => c # queueWait
  <1>1. 0 \in 0..MaxConns /\ 0 \notin Conns
    BY ConnectionAssumption DEF Conns
  <1>2. queueWait \in 0..MaxConns /\ overrun \in BOOLEAN
    BY DEF Types, ClientType
  <1>3. CASE queueWait = 0 /\ UNCHANGED <<queueWait, overrun>>
    BY <1>1, <1>2, <1>3
  <1>4. CASE \E c \in Conns : /\ c = queueWait /\ loop[c] = "closed"
                              /\ queueWait' = 0 /\ UNCHANGED overrun
    BY <1>1, <1>2, <1>4 DEF Alive
  <1>5. CASE \E c \in Conns : /\ c = queueWait /\ loop[c] # "closed"
                              /\ overrun' = TRUE /\ UNCHANGED queueWait
    BY <1>2, <1>5
  <1> QED BY <1>3, <1>4, <1>5 DEF QueueWaited

\* The writer inside socketLock.
LEMMA LockTypes ==
    ASSUME Types, SocketInv,
           \/ (DrainThenDial \/ DisconnectReturns) /\ UNCHANGED ctxDone
           \/ (Dial \/ Handshake \/ FinishConnect) /\ UNCHANGED <<ctxDone, overrun>>
    PROVE  Types'
  <1>0. op \in [pc : {"free", "drain", "dial", "handshake", "finish", "leave"},
                by : Jobs \cup {App}] /\ op.by \in Jobs \cup {App}
    BY DEF Types, ThreadType
  <1>1. CASE DrainThenDial /\ UNCHANGED ctxDone
    <2>1. ThreadType'
      BY <1>1 DEF DrainThenDial, Types, ThreadType
    <2>2. ClientType' /\ overrun' \in BOOLEAN
      BY <1>1, WaitFacts DEF DrainThenDial, Types, ClientType, resetExpectedDisconnect
    <2> QED BY <1>1, <2>1, <2>2 DEF DrainThenDial, Types, SocketType, HandlerType, sockets, handlers
  <1>2. CASE DisconnectReturns /\ UNCHANGED ctxDone
    <2>1. ThreadType'
      BY <1>0, <1>2 DEF DisconnectReturns, Types, ThreadType, Free, Spawn
    <2>2. ClientType' /\ overrun' \in BOOLEAN
      BY <1>2, WaitFacts DEF DisconnectReturns, Types, ClientType
    <2> QED BY <1>2, <2>1, <2>2 DEF DisconnectReturns, Types, SocketType, HandlerType, sockets, handlers
  <1>3. CASE Dial /\ UNCHANGED <<ctxDone, overrun>>
    <2>1. CASE /\ dialed < MaxConns /\ ~ctxDone
               /\ dialed' = dialed + 1
               /\ fs' = [fs EXCEPT ![dialed'] = "open"]
               /\ op' = [op EXCEPT !.pc = "handshake"]
               /\ UNCHANGED <<client, app, job>>
      <3>1. dialed' \in 0..MaxConns
        BY <2>1, ConnectionAssumption DEF Types, SocketType
      <3>2. SocketType'
        BY <1>3, <2>1, <3>1 DEF Dial, Types, SocketType
      <3>3. ThreadType'
        BY <1>3, <2>1 DEF Dial, Types, ThreadType
      <3> QED BY <1>3, <2>1, <3>2, <3>3 DEF Dial, Types, ClientType, HandlerType, client, handlers
    <2>2. CASE /\ \E result \in {"retryable", "fatal"} : ConnectReturns(op.by, result)
               /\ UNCHANGED <<client, dialed, fs>>
      <3>1. ThreadType'
        BY <1>0, <1>3, <2>2, ReturnFacts DEF Dial, Types
      <3> QED BY <1>3, <2>2, <3>1 DEF Dial, Types, ClientType, SocketType, HandlerType, client, handlers
    <2> QED BY <1>3, <2>1, <2>2 DEF Dial
  <1>4. CASE Handshake /\ UNCHANGED <<ctxDone, overrun>>
    <2>1. CASE /\ fs[dialed] = "open"
               /\ op' = [op EXCEPT !.pc = "finish"]
               /\ UNCHANGED <<client, app, job, fs, callbacks>>
      <3>1. ThreadType'
        BY <1>4, <2>1 DEF Handshake, Types, ThreadType
      <3> QED BY <1>4, <2>1, <3>1 DEF Handshake, Types, ClientType, SocketType, HandlerType, client, handlers
    <2>2. CASE /\ Close(dialed, TRUE, hook[dialed])
               /\ \E result \in {"retryable", "fatal"} : ConnectReturns(op.by, result)
               /\ UNCHANGED client
      <3>1. ThreadType'
        BY <1>0, <1>4, <2>2, ReturnFacts DEF Handshake, Types
      <3>2. dialed \in Conns /\ dialed <= dialed
        BY <1>4, ConnectionAssumption DEF Handshake, SocketInv, Types, SocketType, Conns
      <3>3. hook[dialed] \in BOOLEAN /\ TRUE \in BOOLEAN
        BY <3>2 DEF Types, SocketType
      <3>4. Closed(dialed)
        BY <1>4, <2>2, <3>2, <3>3, CloseFacts DEF Handshake, Closed, Types, SocketType
      <3>5. SocketType'
        BY <1>4, <3>2, <3>4, ClosedTypes DEF Handshake, Types
      <3> QED BY <1>4, <2>2, <3>1, <3>5 DEF Handshake, Types, ClientType, HandlerType, client, handlers
    <2> QED BY <1>4, <2>1, <2>2 DEF Handshake
  <1>5. CASE FinishConnect /\ UNCHANGED <<ctxDone, overrun>>
    <2>1. ThreadType'
      BY <1>0, <1>5, ReturnFacts DEF FinishConnect, Types
    <2> QED BY <1>5, <2>1 DEF FinishConnect, Types, ClientType, SocketType, HandlerType, newNoiseSocket
  <1> QED BY <1>1, <1>2, <1>3, <1>4, <1>5

-----------------------------------------------------------------------------
(* What leaves an invariant alone                                          *)

\* Steps that touch no websocket, callback or owner.
LEMMA SocketFrame ==
    ASSUME SocketInv, UNCHANGED <<op, socket, dialed, fs, stopped, callbacks>>
    PROVE  SocketInv'
  BY DEF SocketInv, NoLeakedSocket

\* Steps that start no loop and no handler, and do not move the lock's owner.
LEMMA LoopFrame ==
    ASSUME LoopInv, UNCHANGED <<op, dialed, loop, queueWait, overrun>>,
           \A d \in Conns : \A t \in Slots : handler'[d][t] # Nothing => handler[d][t] # Nothing
    PROVE  LoopInv'
  BY DEF LoopInv, Alive, Setting, Dialing, Slots

\* Steps that do not raise the flag, install a socket or receive a frame.
LEMMA FlagFrame ==
    ASSUME FlagInv, UNCHANGED <<op, socket, stopped, resets, inflight, loop>>, force' => force
    PROVE  FlagInv'
  BY DEF FlagInv, OverflowIsAnswered, Dialing

\* The end of a websocket that was dialed.
LEMMA SocketClosed ==
    ASSUME Types, SocketInv, NEW c \in Conns, c <= dialed, Closed(c), UNCHANGED dialed,
           stopped' = stopped \/ stopped' = [stopped EXCEPT ![c] = TRUE]
    PROVE  /\ \A d \in Conns : fs'[d] = "none" <=> d > dialed'
           /\ \A d \in Conns : stopped'[d] => fs'[d] = "closed"
           /\ \A cb \in callbacks' : fs'[cb.conn] = "closed"
           /\ \A d \in Conns : fs'[d] = "open" => fs[d] = "open" /\ d # c
  <1>1. \A d \in Conns : fs'[d] = IF d = c THEN "closed" ELSE fs[d]
    BY DEF Closed, Types, SocketType
  <1>2. c \in Nat /\ dialed \in Nat
    BY ConnectionAssumption DEF Conns, Types, SocketType
  <1>3. \A cb \in callbacks' : (cb \in callbacks /\ cb.conn \in Conns) \/ cb.conn = c
    BY DEF Closed, Types, SocketType
  <1>4. \A d \in Conns : fs'[d] = "none" <=> d > dialed'
    BY <1>1, <1>2 DEF SocketInv
  <1>5. \A d \in Conns : stopped'[d] => fs'[d] = "closed"
    BY <1>1 DEF SocketInv, Types, SocketType
  <1>6. \A cb \in callbacks' : fs'[cb.conn] = "closed"
    BY <1>1, <1>3 DEF SocketInv
  <1> QED BY <1>1, <1>4, <1>5, <1>6

\* unlockedDisconnect leaves no open websocket: the lock was free, so the only open
\* one was the client's.
LEMMA SocketRetired ==
    ASSUME Types, SocketInv, RetireSocket, UNCHANGED dialed, op.pc = "free",
           op'.pc \in {"drain", "dial", "leave"}
    PROVE  SocketInv'
  <1>1. socket' = 0 /\ socket' <= dialed'
    BY ConnectionAssumption DEF RetireSocket, Types, SocketType
  <1>2. CASE socket = 0 /\ UNCHANGED <<fs, callbacks, hook, stopped>>
    BY <1>1, <1>2 DEF SocketInv, NoLeakedSocket
  <1>3. CASE /\ socket \in Conns /\ socket <= dialed
             /\ Closed(socket) /\ stopped' = [stopped EXCEPT ![socket] = TRUE]
    <2>1. /\ \A d \in Conns : fs'[d] = "none" <=> d > dialed'
          /\ \A d \in Conns : stopped'[d] => fs'[d] = "closed"
          /\ \A cb \in callbacks' : fs'[cb.conn] = "closed"
          /\ \A d \in Conns : fs'[d] = "open" => fs[d] = "open" /\ d # socket
      BY <1>3, SocketClosed
    <2>2. \A d \in Conns : fs'[d] # "open"
      BY <2>1 DEF SocketInv, NoLeakedSocket
    <2> QED BY <1>1, <2>1, <2>2 DEF SocketInv, NoLeakedSocket
  <1> QED BY <1>2, <1>3, RetireFacts DEF Types

\* Nobody is inside socketLock when an operation enters it.
LEMMA NotLocked == ASSUME ~Locked, Types PROVE op.pc = "free"
  BY DEF Locked

-----------------------------------------------------------------------------
(* Each operation preserves the invariants                                 *)

\* connect, by any goroutine, up to its first blocking call.
LEMMA unlockedConnectStep ==
    ASSUME IInv, NEW by \in Jobs \cup {App}, unlockedConnect(by), UNCHANGED <<ctxDone, overrun>>
    PROVE  IInv'
  <1>1. Types'
    BY ConnectTypes DEF IInv
  <1>2. op.pc = "free"
    BY NotLocked DEF unlockedConnect, IInv
  <1>3. CASE /\ deleted \/ IsConnected
             /\ ConnectReturns(by, IF deleted THEN "deleted" ELSE "already")
             /\ UNCHANGED <<client, fs, callbacks, hook, stopped>>
    <2>1. op'.pc = "free"
      BY <1>3 DEF ConnectReturns, Free
    <2>2. SocketInv'
      BY <1>2, <1>3, <2>1 DEF IInv, SocketInv, NoLeakedSocket, unlockedConnect, client
    <2>3. LoopInv'
      BY <1>2, <1>3, <2>1 DEF IInv, LoopInv, Alive, Setting, Dialing, unlockedConnect, client, handlers
    <2>4. FlagInv'
      BY <1>2, <1>3, <2>1 DEF IInv, FlagInv, OverflowIsAnswered, Dialing, unlockedConnect, client, handlers
    <2> QED BY <1>1, <2>2, <2>3, <2>4 DEF IInv
  <1>4. CASE /\ ~deleted /\ ~IsConnected
             /\ RetireSocket
             /\ IF queueWait # 0
                THEN op' = [pc |-> "drain", by |-> by] /\ UNCHANGED <<expected, force>>
                ELSE op' = [pc |-> "dial", by |-> by] /\ resetExpectedDisconnect
             /\ app' = IF by = App THEN "connect" ELSE app
             /\ UNCHANGED <<job, queueWait, loggedIn, deleted>>
    <2>1. op'.pc \in {"drain", "dial"} /\ (op'.pc = "dial" => queueWait = 0 /\ force' = FALSE)
      BY <1>4 DEF resetExpectedDisconnect
    <2>2. SocketInv'
      BY <1>2, <1>4, <2>1, SocketRetired DEF IInv, unlockedConnect
    <2>3. LoopInv'
      BY <1>4, <2>1 DEF IInv, LoopInv, Alive, Setting, Dialing, unlockedConnect, handlers
    <2>4. FlagInv'
      BY <1>4, <2>1 DEF IInv, FlagInv, OverflowIsAnswered, Dialing, unlockedConnect, handlers, RetireSocket
    <2> QED BY <1>1, <2>2, <2>3, <2>4 DEF IInv
  <1> QED BY <1>3, <1>4 DEF unlockedConnect

\* Disconnect, by any goroutine, up to its wait.
LEMMA DisconnectStep ==
    ASSUME IInv, NEW by \in Jobs \cup {App}, Disconnect(by), UNCHANGED <<ctxDone, overrun>>,
           app' \in {app, "disconnect", "logout"}
    PROVE  IInv'
  <1>1. Types'
    BY DisconnectTypes DEF IInv
  <1>2. op.pc = "free"
    BY NotLocked DEF Disconnect, IInv
  <1>3. op'.pc = "leave" /\ socket' = 0
    BY DEF Disconnect, RetireSocket
  <1>4. SocketInv'
    BY <1>2, <1>3, SocketRetired DEF IInv, Disconnect
  <1>5. LoopInv'
    BY <1>2, <1>3 DEF IInv, LoopInv, Alive, Setting, Dialing, Disconnect, handlers
  <1>6. FlagInv'
    BY <1>3 DEF IInv, FlagInv, OverflowIsAnswered, Dialing, Disconnect, handlers
  <1> QED BY <1>1, <1>4, <1>5, <1>6 DEF IInv

\* ResetConnection stops the socket the client holds, so the flag it raises has its
\* answer at once.
LEMMA ResetConnectionStep ==
    ASSUME IInv, ResetConnection, resets' \in Nat, UNCHANGED <<ctxDone, overrun>>
    PROVE  IInv'
  <1>1. Types'
    BY ResetTypes DEF IInv
  <1>2. op.pc = "free"
    BY NotLocked DEF ResetConnection, IInv
  <1>3. LoopInv'
    BY LoopFrame DEF IInv, ResetConnection, handlers
  <1>4. CASE socket = 0
    <2>1. SocketInv'
      BY <1>4, SocketFrame DEF IInv, ResetConnection
    <2>2. FlagInv'
      BY <1>2, <1>4 DEF IInv, FlagInv, OverflowIsAnswered, Dialing, ResetConnection, handlers
    <2> QED BY <1>1, <1>3, <2>1, <2>2 DEF IInv
  <1>5. CASE socket # 0
    <2>1. socket \in Conns /\ socket <= dialed
      BY <1>5, HeldWasDialed DEF IInv, Types
    <2>2. Stop(socket, TRUE)
      BY <1>5 DEF ResetConnection
    <2>3. Closed(socket) /\ stopped' = [stopped EXCEPT ![socket] = TRUE]
      BY <2>1, <2>2, StopFacts DEF IInv, Types
    <2>4. /\ \A d \in Conns : fs'[d] = "none" <=> d > dialed'
          /\ \A d \in Conns : stopped'[d] => fs'[d] = "closed"
          /\ \A cb \in callbacks' : fs'[cb.conn] = "closed"
          /\ \A d \in Conns : fs'[d] = "open" => fs[d] = "open" /\ d # socket
      BY <2>1, <2>3, SocketClosed DEF IInv, ResetConnection
    <2>5. SocketInv'
      BY <2>4 DEF IInv, SocketInv, NoLeakedSocket, ResetConnection
    <2>6. stopped'[socket']
      BY <2>1, <2>3 DEF ResetConnection, IInv, Types, SocketType
    <2>7. FlagInv'
      BY <1>2, <2>6 DEF IInv, FlagInv, OverflowIsAnswered, Dialing, ResetConnection, handlers
    <2> QED BY <1>1, <1>3, <2>5, <2>7 DEF IInv
  <1> QED BY <1>4, <1>5

\* The waits that end connect's draining and Disconnect: a loop that still runs is
\* an overrun.
LEMMA WaitStep ==
    ASSUME IInv, DrainThenDial \/ DisconnectReturns, UNCHANGED ctxDone
    PROVE  IInv'
  <1>1. Types'
    BY LockTypes DEF IInv
  <1>2. /\ ~overrun' => ~overrun /\ queueWait' = 0
        /\ ~overrun' => \A c \in Conns : Alive(c) => c # queueWait
    BY WaitFacts DEF IInv, DrainThenDial, DisconnectReturns
  <1>3. op.pc \in {"drain", "leave"} /\ op'.pc \in {"dial", "free"}
    BY DEF DrainThenDial, DisconnectReturns, Free, IInv, Types, ThreadType
  <1>4. UNCHANGED <<sockets, handlers, socket, resets>> /\ socket = 0
    BY <1>3 DEF DrainThenDial, DisconnectReturns, IInv, SocketInv
  <1>5. op'.pc = "dial" => ~force'
    BY DEF DrainThenDial, DisconnectReturns, Free, resetExpectedDisconnect
  <1>6. SocketInv'
    BY <1>3, <1>4 DEF IInv, SocketInv, NoLeakedSocket, sockets
  <1>7. LoopInv'
    BY <1>2, <1>3, <1>4 DEF IInv, LoopInv, Alive, Setting, Dialing, sockets, handlers
  <1>8. FlagInv'
    BY <1>3, <1>4, <1>5 DEF IInv, FlagInv, OverflowIsAnswered, Dialing, handlers
  <1> QED BY <1>1, <1>6, <1>7, <1>8 DEF IInv

\* A dial that fails, or that opens the next websocket for the holder of the lock.
LEMMA DialStep ==
    ASSUME IInv, Dial, UNCHANGED <<ctxDone, overrun>>
    PROVE  IInv'
  <1>1. Types'
    BY LockTypes DEF IInv
  <1>2. op.pc = "dial" /\ socket = 0 /\ dialed \in Nat /\ Conns \subseteq Nat
    BY ConnectionAssumption DEF Dial, IInv, SocketInv, Types, SocketType, Conns
  <1>3. CASE /\ dialed < MaxConns /\ ~ctxDone
             /\ dialed' = dialed + 1
             /\ fs' = [fs EXCEPT ![dialed'] = "open"]
             /\ op' = [op EXCEPT !.pc = "handshake"]
             /\ UNCHANGED <<client, app, job>>
    <2>1. op'.pc = "handshake"
      BY <1>3 DEF IInv, Types, ThreadType
    <2>2. dialed' \in Conns
      BY <1>2, <1>3, ConnectionAssumption DEF Conns
    <2>3. \A d \in Conns : fs'[d] = IF d = dialed' THEN "open" ELSE fs[d]
      BY <1>3 DEF IInv, Types, SocketType
    <2>4. fs[dialed'] = "none"
      BY <1>2, <1>3, <2>2 DEF IInv, SocketInv
    <2>5. \A d \in Conns : fs[d] # "open"
      BY <1>2 DEF IInv, SocketInv, NoLeakedSocket, Conns
    <2>6. \A d \in Conns : fs'[d] = "none" <=> d > dialed'
      BY <1>2, <1>3, <2>3 DEF IInv, SocketInv
    <2>7. \A d \in Conns : stopped'[d] => fs'[d] = "closed"
      BY <2>3, <2>4 DEF IInv, SocketInv, Dial
    <2>8. \A cb \in callbacks' : fs'[cb.conn] = "closed"
      BY <2>3, <2>4 DEF IInv, SocketInv, Dial, Types, SocketType
    <2>9. SocketInv'
      BY <1>2, <1>3, <2>1, <2>3, <2>5, <2>6, <2>7, <2>8 DEF IInv, SocketInv, NoLeakedSocket, client
    <2>10. LoopInv'
      BY <1>2, <1>3, <2>1 DEF IInv, LoopInv, Alive, Setting, Dialing, Dial, client, handlers
    <2>11. FlagInv'
      BY <1>2, <1>3, <2>1 DEF IInv, FlagInv, OverflowIsAnswered, Dialing, Dial, client, handlers
    <2> QED BY <1>1, <2>9, <2>10, <2>11 DEF IInv
  <1>4. CASE /\ \E result \in {"retryable", "fatal"} : ConnectReturns(op.by, result)
             /\ UNCHANGED <<client, dialed, fs>>
    <2>1. op'.pc = "free"
      BY <1>4 DEF ConnectReturns, Free
    <2>2. SocketInv'
      BY <1>2, <1>4, <2>1 DEF IInv, SocketInv, NoLeakedSocket, Dial, client
    <2>3. LoopInv'
      BY <1>4, <2>1 DEF IInv, LoopInv, Alive, Setting, Dialing, Dial, client, handlers
    <2>4. FlagInv'
      BY <1>4, <2>1 DEF IInv, FlagInv, OverflowIsAnswered, Dialing, Dial, client, handlers
    <2> QED BY <1>1, <2>2, <2>3, <2>4 DEF IInv
  <1> QED BY <1>3, <1>4 DEF Dial

\* A handshake that fails closes the websocket it was made on.
LEMMA HandshakeStep ==
    ASSUME IInv, Handshake, UNCHANGED <<ctxDone, overrun>>
    PROVE  IInv'
  <1>1. Types'
    BY LockTypes DEF IInv
  <1>2. op.pc = "handshake" /\ socket = 0 /\ dialed \in Conns /\ dialed <= dialed
    BY ConnectionAssumption DEF Handshake, IInv, SocketInv, Types, SocketType, Conns
  <1>3. CASE /\ fs[dialed] = "open"
             /\ op' = [op EXCEPT !.pc = "finish"]
             /\ UNCHANGED <<client, app, job, fs, callbacks>>
    <2>1. op'.pc = "finish"
      BY <1>3 DEF IInv, Types, ThreadType
    <2>2. SocketInv'
      BY <1>2, <1>3, <2>1 DEF IInv, SocketInv, NoLeakedSocket, Handshake, client
    <2>3. LoopInv'
      BY <1>2, <1>3, <2>1 DEF IInv, LoopInv, Alive, Setting, Dialing, Handshake, client, handlers
    <2>4. FlagInv'
      BY <1>2, <1>3, <2>1 DEF IInv, FlagInv, OverflowIsAnswered, Dialing, Handshake, client, handlers
    <2> QED BY <1>1, <2>2, <2>3, <2>4 DEF IInv
  <1>4. CASE /\ Close(dialed, TRUE, hook[dialed])
             /\ \E result \in {"retryable", "fatal"} : ConnectReturns(op.by, result)
             /\ UNCHANGED client
    <2>1. op'.pc = "free"
      BY <1>4 DEF ConnectReturns, Free
    <2>2. hook[dialed] \in BOOLEAN /\ TRUE \in BOOLEAN
      BY <1>2 DEF IInv, Types, SocketType
    <2>3. Closed(dialed)
      BY <1>2, <1>4, <2>2, CloseFacts DEF Handshake, Closed, IInv, Types, SocketType
    <2>4. /\ \A d \in Conns : fs'[d] = "none" <=> d > dialed'
          /\ \A d \in Conns : stopped'[d] => fs'[d] = "closed"
          /\ \A cb \in callbacks' : fs'[cb.conn] = "closed"
          /\ \A d \in Conns : fs'[d] = "open" => fs[d] = "open" /\ d # dialed
      BY <1>2, <2>3, SocketClosed DEF IInv, Handshake
    <2>5. SocketInv'
      BY <1>2, <1>4, <2>1, <2>4 DEF IInv, SocketInv, NoLeakedSocket, Handshake, client
    <2>6. LoopInv'
      BY <1>4, <2>1 DEF IInv, LoopInv, Alive, Setting, Dialing, Handshake, client, handlers
    <2>7. FlagInv'
      BY <1>4, <2>1 DEF IInv, FlagInv, OverflowIsAnswered, Dialing, Handshake, client, handlers
    <2> QED BY <1>1, <2>5, <2>6, <2>7 DEF IInv
  <1> QED BY <1>3, <1>4 DEF Handshake

\* The new socket gets its owner and its loop; the flag is down and no other loop runs.
LEMMA FinishConnectStep ==
    ASSUME IInv, FinishConnect, UNCHANGED <<ctxDone, overrun>>
    PROVE  IInv'
  <1>1. Types'
    BY LockTypes DEF IInv
  <1>2. op.pc = "finish" /\ socket = 0 /\ dialed \in Conns /\ dialed <= dialed /\ ~force
    BY ConnectionAssumption DEF FinishConnect, IInv, SocketInv, FlagInv, Dialing, Types, SocketType, Conns
  <1>3. op'.pc = "free"
    BY DEF FinishConnect, ConnectReturns, Free
  <1>4. \A d \in Conns : loop'[d] = IF d = dialed THEN "idle" ELSE loop[d]
    BY DEF FinishConnect, IInv, Types, HandlerType
  <1>5. 0 \notin Conns
    BY DEF Conns
  <1>6. SocketInv'
    <2>1. UNCHANGED <<fs, stopped, callbacks, dialed>> /\ socket' = dialed
      BY DEF FinishConnect
    <2>2. \A c \in Conns : fs[c] = "open" => c = dialed
      BY <1>2, <1>5 DEF IInv, SocketInv, NoLeakedSocket
    <2>3. NoLeakedSocket'
      BY <2>1, <2>2 DEF NoLeakedSocket
    <2> QED BY <1>2, <1>3, <2>1, <2>3 DEF IInv, SocketInv
  <1>7. \A d \in Conns : handler'[d]["front"] # Nothing => loop'[d] \in {"busy", "drain"}
    <2>1. handler[dialed]["front"] = Nothing
      BY <1>2 DEF IInv, LoopInv, Setting
    <2> QED BY <1>4, <2>1 DEF IInv, LoopInv, FinishConnect
  <1>8. LoopInv'
    <2>1. UNCHANGED <<dialed, handler, overrun>> /\ queueWait' = dialed /\ Dialing /\ Setting
      BY <1>2 DEF FinishConnect, Dialing, Setting
    <2>2. ~overrun => \A c \in Conns : ~Alive(c)
      BY <1>5, <2>1 DEF IInv, LoopInv
    <2>3. \A c \in Conns : loop'[c] # "off" => c <= dialed
      BY <1>2, <1>4 DEF IInv, LoopInv
    <2>4. ~overrun => \A c, d \in Conns : c < d /\ loop'[d] # "off" => ~Alive(c)'
      <3> SUFFICES ASSUME ~overrun, NEW c \in Conns, NEW d \in Conns, c < d, loop'[d] # "off"
                   PROVE  ~Alive(c)'
        OBVIOUS
      <3>1. c # dialed
        BY <2>3, <1>2 DEF Conns
      <3> QED BY <3>1, <2>2, <1>4 DEF Alive
    <2>5. ~overrun => \A c \in Conns : Alive(c)' => c = dialed
      BY <2>2, <1>4 DEF Alive
    <2>6. \A c \in Conns : \A s \in Slots : handler'[c][s] # Nothing => loop'[c] # "off"
      BY <2>1, <1>4 DEF IInv, LoopInv
    <2> QED BY <1>3, <1>7, <2>1, <2>3, <2>4, <2>5, <2>6 DEF LoopInv, Setting, Dialing
  <1>9. FlagInv'
    BY <1>2, <1>3, <1>4 DEF IInv, FlagInv, OverflowIsAnswered, Dialing, FinishConnect
  <1> QED BY <1>1, <1>6, <1>8, <1>9 DEF IInv

\* The network closes a websocket.
LEMMA RemoteCloseStep ==
    ASSUME IInv, NEW c \in Conns, RemoteClose(c), UNCHANGED <<ctxDone, overrun>>
    PROVE  IInv'
  <1>1. c <= dialed
    BY ConnectionAssumption DEF RemoteClose, IInv, SocketInv, Types, SocketType, Conns
  <1>2. hook[c] \in BOOLEAN /\ TRUE \in BOOLEAN
    BY DEF IInv, Types, SocketType
  <1>3. Closed(c)
    BY <1>1, <1>2, CloseFacts DEF RemoteClose, Closed, IInv, Types, SocketType
  <1>4. SocketType'
    BY <1>3, ClosedTypes DEF RemoteClose, IInv, Types
  <1>5. Types'
    BY <1>4 DEF RemoteClose, IInv, Types, ClientType, ThreadType, HandlerType, client, threads, handlers
  <1>6. /\ \A d \in Conns : fs'[d] = "none" <=> d > dialed'
        /\ \A d \in Conns : stopped'[d] => fs'[d] = "closed"
        /\ \A cb \in callbacks' : fs'[cb.conn] = "closed"
        /\ \A d \in Conns : fs'[d] = "open" => fs[d] = "open" /\ d # c
    BY <1>1, <1>3, SocketClosed DEF IInv, RemoteClose
  <1>7. SocketInv'
    BY <1>6 DEF IInv, SocketInv, NoLeakedSocket, RemoteClose, client, threads
  <1>8. LoopInv' /\ FlagInv'
    BY LoopFrame, FlagFrame DEF IInv, RemoteClose, client, threads, handlers
  <1> QED BY <1>5, <1>7, <1>8 DEF IInv

\* The disconnect callback: its websocket has ended, so marking it stopped is safe,
\* and only the client's own socket is let go.
LEMMA onDisconnectStep ==
    ASSUME IInv, NEW cb \in callbacks, onDisconnect(cb), UNCHANGED <<ctxDone, overrun>>
    PROVE  IInv'
  <1>1. cb.conn \in Conns /\ cb.remote \in BOOLEAN /\ fs[cb.conn] = "closed"
    BY DEF IInv, Types, SocketType, SocketInv
  <1>2. op.pc = "free" /\ UNCHANGED op
    BY NotLocked DEF onDisconnect, IInv, threads
  <1>3. \A d \in Conns : stopped'[d] = (IF d = cb.conn THEN TRUE ELSE stopped[d])
    BY DEF onDisconnect, IInv, Types, SocketType
  <1>4. SocketType'
    <2>1. queueWait \in 0..MaxConns
      BY DEF IInv, Types, ClientType
    <2>2. [conn |-> cb.conn, remote |-> cb.remote, wait |-> queueWait]
             \in [conn : Conns, remote : BOOLEAN, wait : 0..MaxConns]
      BY <1>1, <2>1
    <2>3. finishing' \subseteq [conn : Conns, remote : BOOLEAN, wait : 0..MaxConns]
      BY <2>2 DEF onDisconnect, IInv, Types, SocketType
    <2>4. hook' \in [Conns -> BOOLEAN] /\ stopped' \in [Conns -> BOOLEAN]
      BY DEF onDisconnect, IInv, Types, SocketType
    <2> QED BY <2>3, <2>4 DEF onDisconnect, IInv, Types, SocketType
  <1>5. socket' = socket \/ (socket = cb.conn /\ socket' = 0)
    BY DEF onDisconnect
  <1>6. socket' \in 0..MaxConns
    BY <1>5, ConnectionAssumption DEF IInv, Types, ClientType
  <1>7. Types'
    BY <1>4, <1>6 DEF onDisconnect, IInv, Types, ClientType, ThreadType, HandlerType, threads, handlers
  <1>8. SocketInv'
    <2>1. \A d \in Conns : stopped'[d] => fs'[d] = "closed"
      BY <1>1, <1>3 DEF IInv, SocketInv, onDisconnect
    <2>2. NoLeakedSocket'
      BY <1>1, <1>2, <1>5 DEF IInv, SocketInv, NoLeakedSocket, onDisconnect
    <2>3. socket' <= dialed'
      BY <1>5, ConnectionAssumption DEF IInv, SocketInv, Types, SocketType, onDisconnect
    <2> QED BY <1>2, <2>1, <2>2, <2>3 DEF IInv, SocketInv, onDisconnect
  <1>9. LoopInv'
    BY LoopFrame DEF IInv, onDisconnect, threads, handlers
  <1>10. FlagInv'
    <2>1. ASSUME force', socket' # 0 PROVE stopped'[socket'] \/ resets' > 0
      <3>1. socket' = socket /\ socket \in Conns /\ force /\ resets' = resets
        BY <1>5, <2>1, HeldWasDialed DEF onDisconnect, IInv, Types, threads
      <3> QED BY <1>3, <2>1, <3>1 DEF IInv, FlagInv, OverflowIsAnswered
    <2> QED BY <1>2, <2>1 DEF IInv, FlagInv, OverflowIsAnswered, Dialing, onDisconnect, handlers
  <1> QED BY <1>7, <1>8, <1>9, <1>10 DEF IInv

\* finishDisconnect.
LEMMA finishDisconnectStep ==
    ASSUME IInv, NEW f \in finishing, finishDisconnect(f), UNCHANGED <<ctxDone, overrun>>
    PROVE  IInv'
  <1>1. force' = force \/ force' = (force /\ expected)
    BY DEF finishDisconnect, FinishWaited
  <1>2. job' = job \/ \E j \in Jobs : job' = [job EXCEPT ![j] = "start"]
    BY DEF finishDisconnect, FinishWaited, IdleJobs, Spawn
  <1>3. force' \in BOOLEAN /\ (force' => force)
    BY <1>1 DEF IInv, Types, ClientType
  <1>4. ClientType'
    BY <1>3 DEF finishDisconnect, IInv, Types, ClientType
  <1>5. ThreadType'
    BY <1>2 DEF finishDisconnect, IInv, Types, ThreadType
  <1>6. SocketType'
    BY DEF finishDisconnect, IInv, Types, SocketType
  <1>7. HandlerType'
    BY DEF finishDisconnect, IInv, Types, HandlerType, handlers
  <1>8. SocketInv' /\ LoopInv' /\ FlagInv'
    BY <1>3, SocketFrame, LoopFrame, FlagFrame DEF finishDisconnect, IInv, handlers
  <1> QED BY <1>4, <1>5, <1>6, <1>7, <1>8 DEF IInv, Types

\* The steps of background goroutines and of Logout outside socketLock.
LEMMA QuietStep ==
    ASSUME IInv, UNCHANGED <<ctxDone, overrun>>,
           \/ LogoutDelete
           \/ \E c \in Conns : KeepAliveFails(c)
           \/ \E j \in Jobs : AutoReconnectStart(j) \/ AutoReconnectWake(j) \/ KeepAliveReset(j)
    PROVE  IInv'
  <1>1. UNCHANGED <<sockets, handlers, op, resets, socket, queueWait, loggedIn>>
    BY DEF LogoutDelete, KeepAliveFails, AutoReconnectStart, AutoReconnectWake, KeepAliveReset, client
  <1>2. \/ UNCHANGED <<expected, force>> \/ resetExpectedDisconnect
    BY DEF LogoutDelete, KeepAliveFails, AutoReconnectStart, AutoReconnectWake, KeepAliveReset, client
  <1>3. deleted' \in BOOLEAN
    BY DEF LogoutDelete, StoreDelete, KeepAliveFails, AutoReconnectStart, AutoReconnectWake,
           KeepAliveReset, client, IInv, Types, ClientType
  <1>4. app' = app \/ app' = "off"
    BY DEF LogoutDelete, KeepAliveFails, AutoReconnectStart, AutoReconnectWake, KeepAliveReset
  <1>5. job' = job \/ \E j \in Jobs : \E pc \in {"start", "sleep", "idle", "reconnect", "keepDrop"} :
                                        job' = [job EXCEPT ![j] = pc]
    BY DEF LogoutDelete, KeepAliveFails, AutoReconnectStart, AutoReconnectWake, KeepAliveReset,
           IdleJobs, Spawn
  <1>6. force' \in BOOLEAN /\ expected' \in BOOLEAN /\ (force' => force)
    <2>1. force \in BOOLEAN /\ expected \in BOOLEAN
      BY DEF IInv, Types, ClientType
    <2>2. CASE UNCHANGED <<expected, force>>
      BY <2>1, <2>2
    <2>3. CASE force' = FALSE /\ expected' = FALSE
      BY <2>3
    <2> QED BY <1>2, <2>2, <2>3 DEF resetExpectedDisconnect
  <1>7. ClientType'
    BY <1>1, <1>3, <1>6 DEF IInv, Types, ClientType
  <1>8. ThreadType'
    BY <1>1, <1>4, <1>5 DEF IInv, Types, ThreadType
  <1>9. SocketType' /\ HandlerType'
    BY <1>1 DEF IInv, Types, SocketType, HandlerType, sockets, handlers
  <1>10. SocketInv' /\ LoopInv' /\ FlagInv'
    BY <1>1, <1>6, SocketFrame, LoopFrame, FlagFrame DEF IInv, sockets, handlers
  <1> QED BY <1>7, <1>8, <1>9, <1>10 DEF IInv, Types

\* Receiving a frame: its connection consumes, so its loop was started.
LEMMA ReceiveFrameStep ==
    ASSUME IInv, NEW c \in Conns, ReceiveFrame(c), UNCHANGED <<ctxDone, overrun>>
    PROVE  IInv'
  <1>1. Types'
    BY QueueTypes DEF IInv
  <1>2. SocketInv' /\ LoopInv'
    BY SocketFrame, LoopFrame DEF ReceiveFrame, IInv, client, threads, sockets
  <1>3. loop[c] # "off"
    BY DEF ReceiveFrame, Consuming
  <1>4. \A d \in Conns : inflight'[d] # "none" => d = c \/ inflight[d] # "none"
    BY DEF ReceiveFrame, IInv, Types, HandlerType
  <1>5. FlagInv'
    BY <1>3, <1>4 DEF IInv, FlagInv, OverflowIsAnswered, Dialing, ReceiveFrame, client, threads, sockets
  <1> QED BY <1>1, <1>2, <1>5 DEF IInv

\* A frame of a live connection is queued while nobody sets up another connection.
LEMMA LiveMeansSettled ==
    ASSUME IInv, NEW c \in Conns, inflight[c] # "none", ~Cancelled(c)
    PROVE  ~Dialing
  <1> SUFFICES ASSUME Dialing PROVE FALSE
    OBVIOUS
  <1>1. c \in Nat /\ dialed \in Nat /\ 0 \notin Conns
    BY ConnectionAssumption DEF Conns, IInv, Types, SocketType
  <1>2. c <= dialed /\ (Setting => c # dialed)
    BY DEF IInv, FlagInv, LoopInv
  <1>3. fs[c] = "open"
    BY <1>1, <1>2 DEF IInv, SocketInv, Types, SocketType, Cancelled
  <1>4. socket = 0
    BY DEF IInv, SocketInv, Dialing
  <1>5. Setting /\ c = dialed
    BY <1>1, <1>3, <1>4 DEF IInv, SocketInv, NoLeakedSocket, Setting
  <1> QED BY <1>2, <1>5

\* enqueueNode: the flag goes up together with the goroutine that answers it, or was
\* up already.
LEMMA EnqueueNodeStep ==
    ASSUME IInv, NEW c \in Conns, EnqueueNode(c), UNCHANGED <<ctxDone, overrun>>
    PROVE  IInv'
  <1>1. Types'
    BY QueueTypes DEF IInv
  <1>2. SocketInv' /\ LoopInv'
    BY SocketFrame, LoopFrame DEF EnqueueNode, IInv, sockets
  <1>3. \A d \in Conns : inflight'[d] # "none" => inflight[d] # "none"
    BY DEF EnqueueNode, IInv, Types, HandlerType
  <1>4. UNCHANGED <<op, socket, stopped, loop>>
    BY DEF EnqueueNode, sockets
  <1>5. CASE UNCHANGED <<force, resets>>
    BY <1>1, <1>2, <1>3, <1>4, <1>5 DEF IInv, FlagInv, OverflowIsAnswered, Dialing
  <1>6. CASE /\ Len(queue[c]) = QueueSize /\ ~Cancelled(c)
             /\ force' = TRUE
             /\ resets' = IF force THEN resets ELSE resets + 1
    <2>1. ~Dialing
      BY <1>6, LiveMeansSettled DEF EnqueueNode
    <2>2. resets \in Nat
      BY DEF IInv, Types, ThreadType
    <2>3. OverflowIsAnswered'
      BY <1>4, <1>6, <2>2 DEF IInv, FlagInv, OverflowIsAnswered
    <2> QED BY <1>1, <1>2, <1>3, <1>4, <2>1, <2>3 DEF IInv, FlagInv, Dialing
  <1> QED BY <1>1, <1>2, <1>5, <1>6 DEF EnqueueNode, IInv

\* The handler queue loop never runs ahead of its handler, and only a started loop
\* moves.
LEMMA QueueLoopStep ==
    ASSUME IInv, NEW c \in Conns, LoopTake(c) \/ LoopStep(c) \/ LoopGivesUp(c), UNCHANGED <<ctxDone, overrun>>
    PROVE  IInv'
  <1>1. Types'
    BY QueueTypes DEF IInv
  <1>2. UNCHANGED <<client, threads, sockets, inflight>>
    BY DEF LoopTake, LoopStep, LoopGivesUp
  <1>3. SocketInv'
    BY <1>2, SocketFrame DEF IInv, client, threads, sockets
  <1>4. \E l \in {"idle", "busy", "drain", "closed"} : loop' = [loop EXCEPT ![c] = l]
    BY DEF LoopTake, LoopStep, LoopGivesUp
  <1>5. Alive(c)
    BY DEF LoopTake, LoopStep, LoopGivesUp, Alive
  <1>6. \A d \in Conns : d # c => loop'[d] = loop[d]
    BY <1>4 DEF IInv, Types, HandlerType
  <1>7. loop'[c] # "off"
    BY <1>4 DEF IInv, Types, HandlerType
  <1>8. \A d \in Conns : handler'[d]["front"] # Nothing => loop'[d] \in {"busy", "drain"}
    <2>1. handler \in [Conns -> [Slots -> HandlerOf]] /\ loop \in [Conns -> {"off", "idle", "busy", "drain", "closed"}]
          /\ "front" \in Slots
      BY DEF IInv, Types, HandlerType, Slots
    <2>2. \A d \in Conns : d # c => handler'[d] = handler[d]
      BY <2>1 DEF LoopTake, LoopStep, LoopGivesUp
    <2>3. handler'[c]["front"] # Nothing => loop'[c] \in {"busy", "drain"}
      <3>1. CASE LoopTake(c)
        BY <2>1, <3>1 DEF LoopTake
      <3>2. CASE LoopStep(c)
        BY <2>1, <3>2 DEF LoopStep
      <3>3. CASE LoopGivesUp(c)
        BY <2>1, <3>3 DEF LoopGivesUp
      <3> QED BY <3>1, <3>2, <3>3
    <2> QED BY <1>6, <2>2, <2>3 DEF IInv, LoopInv
  <1>11. \A d \in Conns : \A t \in Slots : handler'[d][t] # Nothing => loop'[d] # "off"
    <2>1. \A d \in Conns : d # c => handler'[d] = handler[d]
      BY DEF LoopTake, LoopStep, LoopGivesUp, IInv, Types, HandlerType
    <2> QED BY <1>6, <1>7, <2>1 DEF IInv, LoopInv
  <1>9. LoopInv'
    BY <1>2, <1>5, <1>6, <1>7, <1>8, <1>11 DEF IInv, LoopInv, Alive, Setting, Dialing, client, threads, sockets
  <1>10. FlagInv'
    BY <1>2, <1>6, <1>7 DEF IInv, FlagInv, OverflowIsAnswered, Dialing, client, threads, sockets
  <1> QED BY <1>1, <1>3, <1>9, <1>10 DEF IInv

\* The node handlers.
LEMMA NodeHandlerStep ==
    ASSUME IInv, NEW c \in Conns, HandlerSteps(c), UNCHANGED <<ctxDone, overrun>>
    PROVE  IInv'
  <1>1. /\ Types'
        /\ UNCHANGED <<op, socket, queueWait, sockets, resets, inflight, queue, loop, sent>>
        /\ force' => force
        /\ \A d \in Conns : \A t \in Slots : handler'[d][t] # Nothing => handler[d][t] # Nothing
    BY HandlerStepFacts DEF IInv
  <1> QED BY <1>1, SocketFrame, LoopFrame, FlagFrame DEF IInv, sockets

\* Every step of the client, its server and its application preserves the invariants.
LEMMA NextStep == ASSUME IInv, [Next]_vars PROVE IInv'
  <1>1. CASE UNCHANGED vars
    <2>1. Types'
      BY <1>1 DEF IInv, vars, client, threads, sockets, handlers, Types, ClientType, ThreadType,
                  SocketType, HandlerType
    <2> QED BY <1>1, <2>1, SocketFrame, LoopFrame, FlagFrame
            DEF IInv, vars, client, threads, sockets, handlers
  <1>0. CASE CancelContext
    <2>1. UNCHANGED <<client, threads, sockets, handlers, overrun>> /\ ctxDone' = TRUE
      BY <1>0 DEF CancelContext
    <2>2. Types'
      BY <2>1 DEF IInv, client, threads, sockets, handlers, Types, ClientType, ThreadType,
                  SocketType, HandlerType
    <2> QED BY <2>1, <2>2, SocketFrame, LoopFrame, FlagFrame
            DEF IInv, client, threads, sockets, handlers
  <1>2. CASE Application /\ UNCHANGED <<ctxDone, overrun>>
    <2>1. App \in Jobs \cup {App}
      OBVIOUS
    <2>2. CASE AppConnect
      BY <1>2, <2>1, <2>2, unlockedConnectStep DEF AppConnect
    <2>3. CASE AppDisconnect \/ AppLogout
      BY <1>2, <2>1, <2>3, DisconnectStep DEF AppDisconnect, AppLogout
    <2>4. CASE AppReset
      <3>1. resets' \in Nat
        BY <2>4 DEF AppReset, IInv, Types, ThreadType
      <3> QED BY <1>2, <2>4, <3>1, ResetConnectionStep DEF AppReset
    <2> QED BY <1>2, <2>2, <2>3, <2>4 DEF Application
  <1>3. CASE (Server \/ Stalls) /\ UNCHANGED <<ctxDone, overrun>>
    BY <1>3, RemoteCloseStep, ReceiveFrameStep, QuietStep, QueueLoopStep DEF Server, Stalls
  <1>4. CASE LockHolder
    BY <1>4, WaitStep, DialStep, HandshakeStep, FinishConnectStep DEF LockHolder
  <1>5. CASE AppGoroutines
    <2>1. CASE OverflowReset /\ UNCHANGED <<ctxDone, overrun>>
      <3>1. resets' \in Nat
        BY <2>1 DEF OverflowReset, IInv, Types, ThreadType
      <3> QED BY <2>1, <3>1, ResetConnectionStep DEF OverflowReset
    <2>2. CASE LogoutDelete /\ UNCHANGED <<ctxDone, overrun>>
      BY <2>2, QuietStep
    <2> QED BY <1>5, <2>1, <2>2 DEF AppGoroutines
  <1>6. ASSUME NEW j \in Jobs, Background(j) PROVE IInv'
    <2>1. UNCHANGED <<ctxDone, overrun>> /\ j \in Jobs \cup {App}
      BY <1>6 DEF Background
    <2>2. CASE AutoReconnectStart(j) \/ AutoReconnectWake(j) \/ KeepAliveReset(j)
      BY <2>1, <2>2, QuietStep
    <2>3. CASE AutoReconnectConnect(j) \/ RestartConnect(j)
      BY <2>1, <2>3, unlockedConnectStep DEF AutoReconnectConnect, RestartConnect
    <2>4. CASE RestartDisconnect(j) \/ KeepAliveDisconnect(j)
      BY <2>1, <2>4, DisconnectStep DEF RestartDisconnect, KeepAliveDisconnect
    <2> QED BY <1>6, <2>2, <2>3, <2>4 DEF Background
  <1>7. ASSUME NEW c \in Conns, Retirement(c) PROVE IInv'
    BY <1>7, onDisconnectStep, finishDisconnectStep DEF Retirement
  <1>8. ASSUME NEW c \in Conns, QueueLoop(c) PROVE IInv'
    BY <1>8, EnqueueNodeStep, QueueLoopStep DEF QueueLoop
  <1>9. ASSUME NEW c \in Conns, NodeHandler(c) PROVE IInv'
    BY <1>9, NodeHandlerStep DEF NodeHandler, HandlerSteps
  <1> QED BY <1>0, <1>1, <1>2, <1>3, <1>4, <1>5, <1>6, <1>7, <1>8, <1>9 DEF Next

-----------------------------------------------------------------------------
(* The theorems                                                            *)

\* The invariants hold before the first Connect.
LEMMA InitIInv == Init => IInv
  <1> SUFFICES ASSUME Init PROVE IInv
    OBVIOUS
  <1>1. 0 \in 0..MaxConns /\ 0 \in 0..MaxNodes /\ 0 \in Nat /\ Conns \subseteq Nat \ {0}
    BY ConnectionAssumption DEF Conns
  <1>2. ClientType /\ ThreadType /\ SocketType
    BY <1>1 DEF Init, ClientType, ThreadType, SocketType, Free
  <1>3. HandlerType
    <2>1. Nothing \in HandlerOf /\ <<>> \in Seq(AllStanzas)
      BY DEF Nothing, HandlerOf, PCs
    <2> QED BY <1>1, <2>1 DEF Init, HandlerType
  <1>4. SocketInv
    BY <1>1 DEF Init, SocketInv, NoLeakedSocket, Free
  <1>5. LoopInv
    BY DEF Init, LoopInv, Alive, Setting, Dialing, Free, Slots
  <1>6. FlagInv
    BY DEF Init, FlagInv, OverflowIsAnswered, Dialing, Free
  <1> QED BY <1>2, <1>3, <1>4, <1>5, <1>6 DEF IInv, Types, Init

\* The inductive invariant holds in every state of the connection's life.
THEOREM Invariance == Spec => []IInv
  <1>1. Init => IInv
    BY InitIInv
  <1>2. IInv /\ [Next]_vars => IInv'
    BY NextStep
  <1> QED BY <1>1, <1>2, PTL DEF Spec

\* Type correctness, for any number of websockets, stanzas and background goroutines.
THEOREM TypeCorrect == Spec => []TypeOK
  <1>1. IInv => TypeOK
    BY TypesAreTypeOK DEF IInv
  <1> QED BY <1>1, Invariance, PTL

\* No websocket is left open without an owner: whatever connects, disconnects,
\* resets, fails its handshake or calls back, an open FrameSocket is cli.socket or
\* the one unlockedConnect is setting up.
THEOREM OpenIsOwned == Spec => []NoLeakedSocket
  <1>1. IInv => NoLeakedSocket
    BY DEF IInv, SocketInv
  <1> QED BY <1>1, Invariance, PTL

\* Handlers of two connections run side by side only after a wait of
\* unlockedDisconnect has run out, or when the older connection's loop has ended and
\* the handler of it that still runs is one it had given up.
THEOREM HandlersAreSerial == Spec => []SerialHandlers
  <1>1. IInv => SerialHandlers
    <2> SUFFICES ASSUME IInv, NEW c \in Conns, NEW d \in Conns,
                        c < d, AtWork(c), AtWork(d), ~overrun
                 PROVE  OnlyGivenUp(c)
      BY DEF SerialHandlers
    <2>1. loop[c] # "off" /\ loop[d] # "off"
      BY DEF AtWork, IInv, LoopInv
    <2>2. ~Alive(c)
      BY <2>1 DEF IInv, LoopInv
    <2>3. loop[c] = "closed"
      BY <2>1, <2>2 DEF Alive, IInv, Types, HandlerType
    <2> QED BY <2>3 DEF OnlyGivenUp, IInv, LoopInv
  <1> QED BY <1>1, Invariance, PTL

\* A full handler queue is never swallowed: while forceAutoReconnect silences later
\* overflows of the client's socket, that socket is stopped or a reset is on its way.
THEOREM OverflowAnswered == Spec => []OverflowIsAnswered
  <1>1. IInv => OverflowIsAnswered
    BY DEF IInv, FlagInv
  <1> QED BY <1>1, Invariance, PTL

-----------------------------------------------------------------------------
(* The stream, as a function of the sizes of its frames                    *)

StreamByte == Nat \X Nat
Sizes == [1..ServerFrames -> 0..MaxSize]

\* The bytes in front of frame i + 1: Upto.
Ends(z) ==
    CHOOSE f : f = [i \in 0..ServerFrames |->
                       IF i = 0 THEN 0 ELSE f[i - 1] + FrameLengthSize + z[i]]
FrameOf(z, n) == CHOOSE i \in 1..ServerFrames : Ends(z)[i - 1] < n /\ n <= Ends(z)[i]
ByteOf(z, n) == <<FrameOf(z, n), n - Ends(z)[FrameOf(z, n) - 1]>>

\* The bytes after the first "from" of them, "to" the last: Bytes.
Stream(z, from, to) == [k \in 1..(to - from) |-> ByteOf(z, from + k)]

\* What stands in frame i after its length: Payload.
Body(z, i) == Stream(z, Ends(z)[i - 1] + FrameLengthSize, Ends(z)[i])

-----------------------------------------------------------------------------
(* The invariant of the reading half                                       *)

\* The frames cut so far: the consumer's and the one frameComplete holds.
Cut == Len(handed) + (IF frame = Nil THEN 0 ELSE 1)

\* The place in the stream of the first byte processData has not looked at.
Place == pos - Len(msg)

StreamInv ==
    /\ sizes \in Sizes
    /\ pos \in 0..Ends(sizes)[ServerFrames]
    /\ msg \in Seq(StreamByte) /\ Len(msg) <= pos
    /\ msg = Stream(sizes, pos - Len(msg), pos)

CutInv ==
    /\ handed \in Seq(Seq(StreamByte))
    /\ Cut <= ServerFrames
    /\ \A i \in 1..Len(handed) : handed[i] = Body(sizes, i)
    /\ frame # Nil => frame = Body(sizes, Cut)

\* partialHeader and the unfinished frame end where the message goes on.
PlaceInv ==
    /\ incoming = Nil =>
          /\ Place - Ends(sizes)[Cut] \in 0..(FrameLengthSize - 1)
          /\ partial = Stream(sizes, Ends(sizes)[Cut], Place)
          /\ want = 0
    /\ incoming # Nil =>
          /\ partial = <<>> /\ frame = Nil
          /\ Cut < ServerFrames /\ want = sizes[Cut + 1]
          /\ Place - Ends(sizes)[Cut] - FrameLengthSize \in 0..(want - 1)
          /\ incoming = Stream(sizes, Ends(sizes)[Cut] + FrameLengthSize, Place)

PumpInv ==
    /\ pump \in {"reading", "processing", "handing", "ended"}
    /\ consumer \in {"waiting", "ended"}
    /\ frame # Nil <=> pump = "handing"
    /\ pump = "reading" => msg = <<>>
    /\ frame # Nil => partial = <<>>

ReadInv == StreamInv /\ CutInv /\ PlaceInv /\ PumpInv

-----------------------------------------------------------------------------
(* The invariant of the writing half                                       *)

WriteType ==
    /\ lock \in Senders \cup {Nil}
    /\ ivs \in Seq(Nat) /\ Len(ivs) <= MaxFrames
    /\ wire \in Seq(1..Len(ivs))
    /\ unwritten \subseteq 1..Len(ivs) /\ failed \subseteq 1..Len(ivs)
    /\ abandoned \subseteq 1..Len(ivs)
    /\ sending \in [Senders -> Nat \cup {Nil}]

\* The counter of the n-th sealed frame is n - 1.
CounterInv ==
    /\ writeCounter \in 0..(CounterRange - 1)
    /\ Len(ivs) < CounterRange => writeCounter = Len(ivs)
    /\ \A n \in 1..Len(ivs) : ivs[n] = n - 1

\* The holder of writeLock waits for the frame sealed last.  No other frame
\* awaits its goroutine unless its sender has given up.
LockInv ==
    /\ \A s \in Senders : sending[s] = IF lock = s THEN Len(ivs) ELSE Nil
    /\ lock # Nil => Len(ivs) > 0
    /\ \A n \in unwritten \ abandoned : lock # Nil /\ n = Len(ivs)

\* A frame is written once.  One sealed before a frame on the wire is there
\* before it, or has failed, or was abandoned.
WireInv ==
    /\ \A i, j \in 1..Len(wire) : wire[i] = wire[j] => i = j
    /\ \A i \in 1..Len(wire) : wire[i] \notin unwritten
    /\ \A n \in 1..Len(ivs) :
          n \in unwritten \cup failed \/ \E i \in 1..Len(wire) : wire[i] = n
    /\ \A i \in 1..Len(wire) : \A n \in 1..(wire[i] - 1) :
          n \in failed \cup abandoned \/ \E j \in 1..(i - 1) : wire[j] = n

WriteInv == WriteType /\ CounterInv /\ LockInv /\ WireInv

-----------------------------------------------------------------------------
(* Lemmas about the stream                                                 *)

\* A set of naturals that is not empty has a least element.
LEMMA LeastNat ==
    ASSUME NEW S \in SUBSET Nat, S # {}
    PROVE  \E m \in S : \A n \in S : m <= n
  <1>1. PICK m \in S : \A n \in S : ~(<<n, m>> \in OpToRel(<, Nat))
    BY NatLessThanWellFounded, WFMin
  <1>2. \A n \in S : ~(n < m)
    BY <1>1 DEF OpToRel
  <1> QED BY <1>2

\* The recursion of the frame ends, cut off after frame n.
EndsUpTo(z, n, f) ==
    f = [i \in 0..n |-> IF i = 0 THEN 0 ELSE f[i - 1] + FrameLengthSize + z[i]]

\* A recursion cut off after frame n goes on for one frame more.
LEMMA OneEndMore ==
    ASSUME NEW z, NEW n \in Nat, NEW f, EndsUpTo(z, n, f)
    PROVE  \E g : EndsUpTo(z, n + 1, g)
  <1> DEFINE g == [i \in 0..(n + 1) |-> IF i = 0 THEN 0
                     ELSE IF i = n + 1 THEN f[n] + FrameLengthSize + z[n + 1]
                     ELSE f[i - 1] + FrameLengthSize + z[i]]
  <1>1. \A i \in 0..n : g[i] = f[i]
    <2> SUFFICES ASSUME NEW i \in 0..n PROVE g[i] = f[i]
      OBVIOUS
    <2>1. i # n + 1 /\ i \in 0..(n + 1)
      OBVIOUS
    <2>2. f[i] = IF i = 0 THEN 0 ELSE f[i - 1] + FrameLengthSize + z[i]
      BY DEF EndsUpTo
    <2> QED BY <2>1, <2>2
  <1>2. ASSUME NEW i \in 0..(n + 1)
        PROVE  g[i] = IF i = 0 THEN 0 ELSE g[i - 1] + FrameLengthSize + z[i]
    <2>1. CASE i = 0
      BY <2>1
    <2>2. CASE i # 0
      <3>1. i - 1 \in 0..n
        BY <2>2
      <3>2. g[i - 1] = f[i - 1]
        BY <1>1, <3>1
      <3>3. g[i] = f[i - 1] + FrameLengthSize + z[i]
        BY <2>2
      <3> QED BY <2>2, <3>2, <3>3
    <2> QED BY <2>1, <2>2
  <1>3. g = [i \in 0..(n + 1) |-> g[i]]
    OBVIOUS
  <1> HIDE DEF g
  <1>4. g = [i \in 0..(n + 1) |-> IF i = 0 THEN 0 ELSE g[i - 1] + FrameLengthSize + z[i]]
    BY <1>2, <1>3
  <1> QED BY <1>4 DEF EndsUpTo

\* The recursion has a solution for any number of frames.
LEMMA EndsExist ==
    ASSUME NEW z, NEW n \in Nat
    PROVE  \E f : EndsUpTo(z, n, f)
  <1> DEFINE S == {k \in Nat : ~ \E f : EndsUpTo(z, k, f)}
  <1> SUFFICES ASSUME S # {} PROVE FALSE
    OBVIOUS
  <1>1. PICK m \in S : \A k \in S : m <= k
    BY LeastNat
  <1>2. m # 0
    <2>1. EndsUpTo(z, 0, [i \in 0..0 |-> 0])
      BY DEF EndsUpTo
    <2> QED BY <2>1
  <1>3. m - 1 \in Nat /\ m - 1 \notin S
    BY <1>1, <1>2
  <1>4. PICK f : EndsUpTo(z, m - 1, f)
    BY <1>3
  <1>5. \E g : EndsUpTo(z, (m - 1) + 1, g)
    BY <1>3, <1>4, OneEndMore
  <1>6. (m - 1) + 1 = m
    OBVIOUS
  <1> QED BY <1>5, <1>6

\* Upto is well defined: the ends of the frames follow their sizes.
LEMMA EndsRecursion ==
    ASSUME NEW z, ServerFrames \in Nat
    PROVE  /\ DOMAIN Ends(z) = 0..ServerFrames
           /\ Ends(z)[0] = 0
           /\ \A i \in 1..ServerFrames :
                 Ends(z)[i] = Ends(z)[i - 1] + FrameLengthSize + z[i]
  <1>1. \E f : EndsUpTo(z, ServerFrames, f)
    BY EndsExist
  <1>2. EndsUpTo(z, ServerFrames, Ends(z))
    BY <1>1, Zenon DEF EndsUpTo, Ends
  <1> DEFINE f == Ends(z)
  <1>3. f = [i \in 0..ServerFrames |-> IF i = 0 THEN 0 ELSE f[i - 1] + FrameLengthSize + z[i]]
    BY <1>2 DEF EndsUpTo
  <1> HIDE DEF f
  <1>4. /\ DOMAIN f = 0..ServerFrames
        /\ f[0] = 0
        /\ \A i \in 1..ServerFrames : f[i] = f[i - 1] + FrameLengthSize + z[i]
    BY <1>3
  <1> QED BY <1>4 DEF f

\* A size is a natural.
LEMMA SizeType ==
    ASSUME NEW z \in Sizes, NEW i \in 1..ServerFrames
    PROVE  z[i] \in 0..MaxSize /\ z[i] \in Nat
  <1>1. z[i] \in 0..MaxSize
    BY DEF Sizes
  <1> QED BY <1>1, SocketsAssumption

\* The ends are naturals and grow with the frames.
LEMMA EndsGrow ==
    ASSUME NEW z \in Sizes
    PROVE  /\ \A i \in 0..ServerFrames : Ends(z)[i] \in Nat
           /\ \A i, j \in 0..ServerFrames : i <= j => Ends(z)[i] <= Ends(z)[j]
  <1> DEFINE f == Ends(z)
  <1> USE SocketsAssumption
  <1>0. f[0] = 0 /\ \A i \in 1..ServerFrames :
           z[i] \in Nat /\ f[i] = f[i - 1] + FrameLengthSize + z[i]
    BY EndsRecursion, SizeType
  <1> HIDE DEF f
  <1>1. \A i \in 0..ServerFrames : f[i] \in Nat
    <2> DEFINE S == {k \in 0..ServerFrames : f[k] \notin Nat}
    <2>0. S \in SUBSET Nat
      OBVIOUS
    <2> SUFFICES ASSUME S # {} PROVE FALSE
      OBVIOUS
    <2>1. PICK m \in S : \A k \in S : m <= k
      <3> HIDE DEF S
      <3> QED BY <2>0, LeastNat
    <2>2. m # 0
      BY <1>0
    <2>3. m - 1 \in 0..ServerFrames /\ m - 1 \notin S /\ m \in 1..ServerFrames
      BY <2>1, <2>2
    <2>4. f[m - 1] \in Nat /\ z[m] \in Nat /\ f[m] = f[m - 1] + FrameLengthSize + z[m]
      BY <2>3, <1>0
    <2>5. f[m] \in Nat
      BY <2>4
    <2> QED BY <2>5
  <1>2. ASSUME NEW i \in 0..ServerFrames
        PROVE  \A j \in 0..ServerFrames : i <= j => f[i] <= f[j]
    <2> DEFINE S == {k \in 0..ServerFrames : i <= k /\ ~(f[i] <= f[k])}
    <2>0. S \in SUBSET Nat
      OBVIOUS
    <2> SUFFICES ASSUME S # {} PROVE FALSE
      OBVIOUS
    <2>1. PICK m \in S : \A k \in S : m <= k
      <3> HIDE DEF S
      <3> QED BY <2>0, LeastNat
    <2>2. m # i
      BY <1>1
    <2>3. m - 1 \in 0..ServerFrames /\ i <= m - 1 /\ m - 1 \notin S /\ m \in 1..ServerFrames
      BY <2>1, <2>2
    <2>4. f[i] <= f[m - 1] /\ f[m - 1] \in Nat /\ f[i] \in Nat
          /\ z[m] \in Nat /\ f[m] = f[m - 1] + FrameLengthSize + z[m]
      BY <2>3, <1>0, <1>1
    <2>5. f[i] <= f[m]
      BY <2>4
    <2> QED BY <2>5
  <1> QED BY <1>1, <1>2 DEF f

\* Every byte of the stream is in a frame.
LEMMA ByteHasFrame ==
    ASSUME NEW z \in Sizes, NEW n \in 1..Ends(z)[ServerFrames]
    PROVE  \E i \in 1..ServerFrames : Ends(z)[i - 1] < n /\ n <= Ends(z)[i]
  <1> DEFINE f == Ends(z)
             S == {k \in 0..ServerFrames : n <= f[k]}
  <1> USE SocketsAssumption
  <1>0. f[0] = 0 /\ \A i \in 0..ServerFrames : f[i] \in Nat
    BY EndsRecursion, EndsGrow
  <1>1. ServerFrames \in S /\ S \in SUBSET Nat
    BY <1>0
  <1>2. PICK m \in S : \A k \in S : m <= k
    BY <1>1, LeastNat
  <1> HIDE DEF f
  <1>3. m # 0
    BY <1>0
  <1>4. m - 1 \in 0..ServerFrames /\ m - 1 \notin S /\ m \in 1..ServerFrames
    BY <1>2, <1>3
  <1>5. f[m - 1] \in Nat /\ ~(n <= f[m - 1]) /\ n <= f[m]
    BY <1>4, <1>0
  <1>6. m \in 1..ServerFrames /\ f[m - 1] < n /\ n <= f[m]
    BY <1>4, <1>5, <1>0
  <1> QED BY <1>6 DEF f

\* The k-th byte of frame i is just that.
LEMMA ByteOfFrame ==
    ASSUME NEW z \in Sizes, NEW i \in 1..ServerFrames,
           NEW k \in 1..(FrameLengthSize + z[i])
    PROVE  ByteOf(z, Ends(z)[i - 1] + k) = <<i, k>>
  <1> DEFINE f == Ends(z)
             n == f[i - 1] + k
  <1> USE SocketsAssumption
  <1>0. /\ \A j \in 0..ServerFrames : f[j] \in Nat
        /\ \A j, l \in 0..ServerFrames : j <= l => f[j] <= f[l]
        /\ f[i] = f[i - 1] + FrameLengthSize + z[i] /\ z[i] \in Nat
    BY EndsRecursion, EndsGrow, SizeType
  <1> HIDE DEF f
  <1>1. f[i - 1] \in Nat /\ f[i - 1] < n /\ n <= f[i]
    BY <1>0
  <1>2. ASSUME NEW j \in 1..ServerFrames, f[j - 1] < n, n <= f[j]
        PROVE  j = i
    <2>1. CASE j < i
      <3>1. j <= i - 1 /\ i - 1 \in 0..ServerFrames /\ j \in 0..ServerFrames
        BY <2>1
      <3>2. f[j] <= f[i - 1] /\ f[j] \in Nat /\ f[i - 1] \in Nat
        BY <3>1, <1>0
      <3> QED BY <3>2, <1>1, <1>2
    <2>2. CASE i < j
      <3>1. i <= j - 1 /\ j - 1 \in 0..ServerFrames /\ i \in 0..ServerFrames
        BY <2>2
      <3>2. f[i] <= f[j - 1] /\ f[i] \in Nat /\ f[j - 1] \in Nat
        BY <3>1, <1>0
      <3> QED BY <3>2, <1>1, <1>2
    <2> QED BY <2>1, <2>2
  <1>3. FrameOf(z, n) = i
    <2>1. \E j \in 1..ServerFrames : f[j - 1] < n /\ n <= f[j]
      BY <1>1
    <2> HIDE DEF n
    <2>2. (CHOOSE j \in 1..ServerFrames : f[j - 1] < n /\ n <= f[j]) = i
      BY <1>2, <2>1
    <2> QED BY <2>2 DEF FrameOf, f
  <1>4. n - f[i - 1] = k
    BY <1>0
  <1> QED BY <1>3, <1>4 DEF ByteOf, f

\* A byte is its frame and its place in it.
LEMMA ByteType ==
    ASSUME NEW z \in Sizes, NEW n \in 1..Ends(z)[ServerFrames]
    PROVE  ByteOf(z, n) \in StreamByte
  <1> USE SocketsAssumption
  <1>1. PICK i \in 1..ServerFrames : Ends(z)[i - 1] < n /\ n <= Ends(z)[i]
    BY ByteHasFrame
  <1> DEFINE e == Ends(z)[i - 1]
             k == n - e
  <1>2. e \in Nat /\ Ends(z)[i] = e + FrameLengthSize + z[i] /\ z[i] \in Nat
        /\ Ends(z)[ServerFrames] \in Nat
    BY EndsRecursion, EndsGrow, SizeType
  <1>3. k \in 1..(FrameLengthSize + z[i]) /\ n = e + k
    BY <1>1, <1>2
  <1>4. ByteOf(z, e + k) = <<i, k>>
    <2> HIDE DEF k
    <2> QED BY <1>3, ByteOfFrame
  <1>5. i \in Nat /\ k \in Nat /\ ByteOf(z, n) = <<i, k>>
    BY <1>3, <1>4
  <1> QED BY <1>5 DEF StreamByte

-----------------------------------------------------------------------------
(* Lemmas about pieces of the stream                                       *)

\* A piece of the stream is as long as the distance of its ends.
LEMMA StreamFacts ==
    ASSUME NEW z \in Sizes, NEW a \in Nat, NEW b \in Nat,
           a <= b, b <= Ends(z)[ServerFrames]
    PROVE  /\ Stream(z, a, b) \in Seq(StreamByte)
           /\ Len(Stream(z, a, b)) = b - a
           /\ \A k \in 1..(b - a) : Stream(z, a, b)[k] = ByteOf(z, a + k)
  <1>0. Ends(z)[ServerFrames] \in Nat
    BY SocketsAssumption, EndsGrow
  <1> DEFINE n == b - a
  <1>1. \A k \in 1..n : ByteOf(z, a + k) \in StreamByte
    <2> SUFFICES ASSUME NEW k \in 1..n PROVE ByteOf(z, a + k) \in StreamByte
      OBVIOUS
    <2>1. a + k \in 1..Ends(z)[ServerFrames]
      BY <1>0
    <2> QED BY <2>1, ByteType
  <1>2. n \in Nat /\ Stream(z, a, b) = [k \in 1..n |-> ByteOf(z, a + k)]
    BY DEF Stream
  <1> HIDE DEF n
  <1>3. Stream(z, a, b) \in Seq(StreamByte) /\ Len(Stream(z, a, b)) = n
    BY <1>1, <1>2
  <1>4. \A k \in 1..n : Stream(z, a, b)[k] = ByteOf(z, a + k)
    BY <1>2
  <1> QED BY <1>3, <1>4 DEF n

\* Pieces that meet make one piece.
LEMMA StreamConcat ==
    ASSUME NEW z \in Sizes, NEW a \in Nat, NEW b \in Nat, NEW c \in Nat,
           a <= b, b <= c, c <= Ends(z)[ServerFrames]
    PROVE  Stream(z, a, b) \o Stream(z, b, c) = Stream(z, a, c)
  <1> DEFINE s == Stream(z, a, b)
             t == Stream(z, b, c)
             u == Stream(z, a, c)
  <1>0. Ends(z)[ServerFrames] \in Nat
    BY SocketsAssumption, EndsGrow
  <1>a. b <= Ends(z)[ServerFrames] /\ a <= c
    BY <1>0
  <1>1. /\ s \in Seq(StreamByte) /\ Len(s) = b - a
        /\ \A k \in 1..(b - a) : s[k] = ByteOf(z, a + k)
    BY <1>a, StreamFacts
  <1>2. /\ t \in Seq(StreamByte) /\ Len(t) = c - b
        /\ \A k \in 1..(c - b) : t[k] = ByteOf(z, b + k)
    BY <1>a, StreamFacts
  <1>3. /\ u \in Seq(StreamByte) /\ Len(u) = c - a
        /\ \A k \in 1..(c - a) : u[k] = ByteOf(z, a + k)
    BY <1>a, StreamFacts
  <1> HIDE DEF s, t, u
  <1>4. /\ s \o t \in Seq(StreamByte) /\ Len(s \o t) = Len(s) + Len(t)
        /\ \A k \in 1..(Len(s) + Len(t)) :
              (s \o t)[k] = IF k <= Len(s) THEN s[k] ELSE t[k - Len(s)]
    BY <1>1, <1>2, ConcatProperties
  <1>5. ASSUME NEW k \in 1..(c - a) PROVE (s \o t)[k] = u[k]
    <2>0. (s \o t)[k] = IF k <= b - a THEN s[k] ELSE t[k - (b - a)]
      BY <1>1, <1>2, <1>4
    <2>1. CASE k <= b - a
      BY <2>0, <2>1, <1>1, <1>3
    <2>2. CASE ~(k <= b - a)
      <3>1. k - (b - a) \in 1..(c - b) /\ b + (k - (b - a)) = a + k
        BY <2>2
      <3>2. t[k - (b - a)] = ByteOf(z, a + k)
        BY <3>1, <1>2
      <3> QED BY <2>0, <2>2, <3>2, <1>3
    <2> QED BY <2>1, <2>2
  <1>6. Len(s \o t) = c - a
    BY <1>1, <1>2, <1>4
  <1>7. s \o t = u
    BY <1>3, <1>4, <1>5, <1>6, SeqEqual
  <1> QED BY <1>7 DEF s, t, u

\* SubSeq under a name of its own, so that a lemma about it can be instantiated.
Slice(s, p, n) == SubSeq(s, p, n)

\* A part of a piece is a piece.
LEMMA StreamPart ==
    ASSUME NEW z \in Sizes, NEW a \in Nat, NEW b \in Nat, NEW p \in Nat, NEW n \in Nat,
           NEW x \in Nat, NEW y \in Nat,
           a <= b, b <= Ends(z)[ServerFrames],
           1 <= p, p <= n + 1, n <= b - a, x + 1 = a + p, y = a + n
    PROVE  Slice(Stream(z, a, b), p, n) = Stream(z, x, y)
  <1> DEFINE m == p - 1
  <1>a. m \in Nat /\ m <= n /\ m + 1 = p /\ x = a + m
    OBVIOUS
  <1> HIDE DEF m
  <1> DEFINE s == Stream(z, a, b)
             u == Stream(z, a + m, a + n)
             t == SubSeq(s, m + 1, n)
  <1>0. Ends(z)[ServerFrames] \in Nat
    BY SocketsAssumption, EndsGrow
  <1>1. /\ s \in Seq(StreamByte) /\ Len(s) = b - a
        /\ \A k \in 1..(b - a) : s[k] = ByteOf(z, a + k)
    BY <1>0, StreamFacts
  <1>2. a + m \in Nat /\ a + n \in Nat /\ a + m <= a + n /\ a + n <= Ends(z)[ServerFrames]
        /\ (a + n) - (a + m) = n - m
    BY <1>0, <1>a
  <1>3. /\ u \in Seq(StreamByte) /\ Len(u) = n - m
        /\ \A k \in 1..(n - m) : u[k] = ByteOf(z, (a + m) + k)
    <2>1. x <= y /\ y <= Ends(z)[ServerFrames] /\ y - x = n - m
      BY <1>2, <1>a
    <2>2. /\ Stream(z, x, y) \in Seq(StreamByte) /\ Len(Stream(z, x, y)) = y - x
          /\ \A k \in 1..(y - x) : Stream(z, x, y)[k] = ByteOf(z, x + k)
      BY <2>1, StreamFacts
    <2> QED BY <2>1, <2>2, <1>a
  <1> HIDE DEF s, u
  <1>4. \A i \in (m + 1)..n : s[i] \in StreamByte
    <2>1. \A i \in 1..Len(s) : s[i] \in StreamByte
      BY <1>1, ElementOfSeq
    <2> QED BY <2>1, <1>1, <1>a
  <1>5. /\ t \in Seq(StreamByte)
        /\ Len(t) = IF m + 1 <= n THEN n - (m + 1) + 1 ELSE 0
        /\ \A i \in 1..(n - (m + 1) + 1) : t[i] = s[(m + 1) + i - 1]
    <2> DEFINE m1 == m + 1
    <2>1. m1 \in Int /\ n \in Int /\ \A i \in m1..n : s[i] \in StreamByte
      BY <1>4, <1>a
    <2> HIDE DEF m1
    <2>2. /\ SubSeq(s, m1, n) \in Seq(StreamByte)
          /\ Len(SubSeq(s, m1, n)) = IF m1 <= n THEN n - m1 + 1 ELSE 0
          /\ \A i \in 1..(n - m1 + 1) : SubSeq(s, m1, n)[i] = s[m1 + i - 1]
      BY ONLY <2>1, SubSeqProperties
    <2> QED BY <2>2 DEF m1
  <1> HIDE DEF t
  <1>6. Len(t) = n - m
    BY <1>5, <1>a
  <1>7. ASSUME NEW k \in 1..(n - m) PROVE t[k] = u[k]
    <2>1. k \in 1..(n - (m + 1) + 1) /\ (m + 1) + k - 1 = m + k /\ m + k \in 1..(b - a)
          /\ a + (m + k) = (a + m) + k
      BY <1>a
    <2>2. t[k] = s[m + k]
      BY <2>1, <1>5
    <2>3. s[m + k] = ByteOf(z, (a + m) + k)
      BY <2>1, <1>1
    <2> QED BY <2>2, <2>3, <1>3
  <1>8. t = u
    BY <1>3, <1>5, <1>6, <1>7, SeqEqual
  <1> QED BY <1>8, <1>a DEF s, t, u, Slice

\* The module's operators are these, for the sizes of the run.
LEMMA UptoIsEnds == Upto = Ends(sizes)
  BY DEF Upto, Ends

\* Bytes is a piece of the stream.
LEMMA BytesAreStream ==
    ASSUME NEW a, NEW b
    PROVE  Bytes(a, b) = Stream(sizes, a, b)
  <1>1. ASSUME NEW n PROVE FrameAt(n) = FrameOf(sizes, n)
    BY Zenon DEF FrameAt, FrameOf, Upto, Ends
  <1>2. ASSUME NEW n PROVE ByteAt(n) = ByteOf(sizes, n)
    BY <1>1, UptoIsEnds, Zenon DEF ByteAt, ByteOf
  <1> QED BY <1>2, Zenon DEF Bytes, Stream

\* Payload is the piece of the stream after the frame's length.
LEMMA PayloadIsBody ==
    ASSUME sizes \in Sizes, NEW i \in 1..ServerFrames
    PROVE  Payload(i) = Body(sizes, i)
  <1> USE SocketsAssumption
  <1> DEFINE L == FrameLengthSize
             e == Ends(sizes)[i - 1]
             w == sizes[i]
             f == Frame(i)
             p == SubSeq(f, L + 1, L + w)
             u == Stream(sizes, e + L, e + L + w)
  <1>1. /\ e \in Nat /\ w \in Nat /\ Ends(sizes)[i] = e + L + w
        /\ Ends(sizes)[i] <= Ends(sizes)[ServerFrames]
    BY EndsRecursion, EndsGrow, SizeType
  <1>2. /\ u \in Seq(StreamByte) /\ Len(u) = w
        /\ \A k \in 1..w : u[k] = ByteOf(sizes, (e + L) + k)
    <2> DEFINE x == e + L
               y == e + L + w
    <2>1. x \in Nat /\ y \in Nat /\ x <= y /\ y <= Ends(sizes)[ServerFrames] /\ y - x = w
      <3> HIDE DEF e, w
      <3>1. x \in Nat /\ y \in Nat /\ x <= y /\ y - x = w
        BY <1>1
      <3>2. y = Ends(sizes)[i]
        BY <1>1 DEF e, w
      <3> HIDE DEF x, y
      <3> QED BY <3>1, <3>2, <1>1
    <2> HIDE DEF x, y
    <2>2. /\ Stream(sizes, x, y) \in Seq(StreamByte) /\ Len(Stream(sizes, x, y)) = y - x
          /\ \A k \in 1..(y - x) : Stream(sizes, x, y)[k] = ByteOf(sizes, x + k)
      BY <2>1, StreamFacts
    <2> QED BY <2>1, <2>2 DEF x, y
  <1>3. \A k \in 1..(L + w) : f[k] = <<i, k>> /\ <<i, k>> = ByteOf(sizes, e + k)
    BY ByteOfFrame DEF Frame
  <1>4. \A k \in (L + 1)..(L + w) : f[k] \in StreamByte
    <2> HIDE DEF f, w
    <2>1. \A k \in (L + 1)..(L + w) : k \in 1..(L + w) /\ k \in Nat
      BY <1>1
    <2>2. i \in Nat
      OBVIOUS
    <2> QED BY <2>1, <2>2, <1>3 DEF StreamByte
  <1>5. /\ p \in Seq(StreamByte) /\ Len(p) = w
        /\ \A k \in 1..w : p[k] = f[L + k]
    <2> DEFINE m == L + 1
               n == L + w
    <2>1. m \in Int /\ n \in Int /\ \A k \in m..n : f[k] \in StreamByte
      BY <1>1, <1>4
    <2> HIDE DEF m, n, f
    <2>2. /\ SubSeq(f, m, n) \in Seq(StreamByte)
          /\ Len(SubSeq(f, m, n)) = IF m <= n THEN n - m + 1 ELSE 0
          /\ \A k \in 1..(n - m + 1) : SubSeq(f, m, n)[k] = f[m + k - 1]
      BY ONLY <2>1, SubSeqProperties
    <2>3. n - m + 1 = w /\ (~(m <= n) => w = 0) /\ \A k \in 1..w : m + k - 1 = L + k
      BY <1>1 DEF m, n
    <2> HIDE DEF L, w
    <2>4. p = SubSeq(f, m, n)
      BY DEF m, n
    <2> HIDE DEF p
    <2> QED BY <2>2, <2>3, <2>4
  <1>6. \A k \in 1..w : L + k \in 1..(L + w) /\ e + (L + k) = (e + L) + k
    BY <1>1
  <1> HIDE DEF L, e, w, f, p, u
  <1>7. \A k \in 1..w : p[k] = u[k]
    BY <1>2, <1>3, <1>5, <1>6
  <1>8. p = u
    BY <1>2, <1>5, <1>7, SeqEqual
  <1> QED BY <1>1, <1>8 DEF p, u, f, L, e, w, Payload, Body

\* processData reads the length of the frame that begins in a message.
LEMMA LengthFacts ==
    ASSUME sizes \in Sizes, NEW d \in 0..(ServerFrames - 1), NEW b \in Nat,
           b <= Ends(sizes)[ServerFrames], b - Ends(sizes)[d] >= FrameLengthSize
    PROVE  LengthIn(Stream(sizes, Ends(sizes)[d], b)) = sizes[d + 1]
  <1> USE SocketsAssumption
  <1> DEFINE L == FrameLengthSize
             e == Ends(sizes)[d]
             m == Stream(sizes, e, b)
  <1>0. d + 1 \in 1..ServerFrames /\ (d + 1) - 1 = d
    OBVIOUS
  <1>1. e \in Nat /\ sizes[d + 1] \in Nat
    BY <1>0, EndsGrow, SizeType
  <1>b. e <= b /\ L <= b - e
    BY <1>1
  <1>2. \A k \in 1..(b - e) : m[k] = ByteOf(sizes, e + k)
    BY <1>1, <1>b, StreamFacts
  <1>3. \A k \in 1..L : ByteOf(sizes, e + k) = <<d + 1, k>>
    <2> SUFFICES ASSUME NEW k \in 1..L PROVE ByteOf(sizes, e + k) = <<d + 1, k>>
      OBVIOUS
    <2> DEFINE i == d + 1
    <2>1. i \in 1..ServerFrames /\ i - 1 = d /\ k \in 1..(FrameLengthSize + sizes[i])
      BY <1>0, <1>1
    <2> HIDE DEF i
    <2>2. ByteOf(sizes, Ends(sizes)[i - 1] + k) = <<i, k>>
      BY <2>1, ByteOfFrame
    <2> QED BY <2>1, <2>2 DEF i
  <1> HIDE DEF m
  <1>4. \A k \in 1..L : m[k] = <<d + 1, k>>
    <2>1. \A k \in 1..L : k \in 1..(b - e)
      BY <1>1, <1>b
    <2> HIDE DEF L, e
    <2> QED BY <2>1, <1>2, <1>3
  <1>5. m[1] = <<d + 1, 1>>
    BY <1>4
  <1>6. m[1][1] = d + 1
    BY <1>5
  <1>7. \A k \in 1..L : m[k] = <<m[1][1], k>>
    BY <1>4, <1>6
  <1> QED BY <1>6, <1>7 DEF LengthIn, m

\* An empty piece is the empty sequence.
LEMMA EmptyStream ==
    ASSUME NEW z \in Sizes, NEW a \in Nat, a <= Ends(z)[ServerFrames]
    PROVE  Stream(z, a, a) = <<>>
  <1>1. Stream(z, a, a) \in Seq(StreamByte) /\ Len(Stream(z, a, a)) = 0
    BY StreamFacts
  <1> QED BY <1>1

\* A piece of the stream is not Nil.
LEMMA StreamIsNotNil ==
    ASSUME NEW z \in Sizes, NEW a \in Nat, NEW b \in Nat,
           a <= b, b <= Ends(z)[ServerFrames]
    PROVE  Stream(z, a, b) # Nil
  BY StreamFacts, SocketsAssumption DEF StreamByte

-----------------------------------------------------------------------------
(* Reading                                                                 *)

\* Where the invariant says the pump is.
LEMMA Where ==
    ASSUME ReadInv
    PROVE  /\ Cut \in 0..ServerFrames
           /\ \A i \in 0..ServerFrames : Ends(sizes)[i] \in Nat
           /\ Len(msg) \in Nat /\ Place \in Nat /\ pos \in Nat
           /\ Place <= pos /\ pos <= Ends(sizes)[ServerFrames]
           /\ Place = pos - Len(msg)
           /\ FrameLengthSize \in Nat \ {0} /\ ServerFrames \in Nat
           /\ Len(handed) \in Nat
  <1>1. /\ sizes \in Sizes /\ msg \in Seq(StreamByte) /\ Len(msg) <= pos
        /\ pos \in 0..Ends(sizes)[ServerFrames]
        /\ handed \in Seq(Seq(StreamByte)) /\ Cut <= ServerFrames
    BY DEF ReadInv, StreamInv, CutInv
  <1>2. \A i \in 0..ServerFrames : Ends(sizes)[i] \in Nat
    BY <1>1, EndsGrow
  <1>3. Ends(sizes)[ServerFrames] \in Nat
    BY <1>2, SocketsAssumption
  <1>4. Len(msg) \in Nat /\ Len(handed) \in Nat
    BY <1>1, LenProperties
  <1>5. Cut \in 0..ServerFrames
    BY <1>1, <1>4, SocketsAssumption DEF Cut
  <1>6. Place \in Nat /\ Place <= pos /\ pos \in Nat
    BY <1>1, <1>3, <1>4 DEF Place
  <1> QED BY <1>1, <1>2, <1>3, <1>4, <1>5, <1>6, SocketsAssumption DEF Place

\* A read of a message: it goes on where the last one ended.
LEMMA ReadMessageStep ==
    ASSUME ReadInv, ReadMessage
    PROVE  ReadInv'
  <1>0. pump = "reading" /\ pump' = "processing" /\ frame = Nil /\ msg = <<>>
    BY DEF ReadMessage, ReadInv, PumpInv
  <1>1. /\ sizes' = sizes /\ partial' = partial /\ incoming' = incoming /\ want' = want
        /\ frame' = frame /\ consumer' = consumer /\ handed' = handed
    BY DEF ReadMessage
  <1>2. PICK to \in pos..(pos + MaxChunk) :
           to <= Upto[ServerFrames] /\ msg' = Bytes(pos, to) /\ pos' = to
    BY DEF ReadMessage
  <1>3. pos \in Nat /\ sizes \in Sizes /\ Ends(sizes)[ServerFrames] \in Nat
    BY Where, SocketsAssumption DEF ReadInv, StreamInv
  <1>4. to \in Nat /\ pos <= to /\ to <= Ends(sizes)[ServerFrames]
        /\ msg' = Stream(sizes, pos, to)
    BY <1>2, <1>3, UptoIsEnds, BytesAreStream, SocketsAssumption
  <1>5. msg' \in Seq(StreamByte) /\ Len(msg') = to - pos
    BY <1>3, <1>4, StreamFacts
  <1>6. Len(msg) = 0 /\ Place = pos
    <2>1. Len(msg) = 0
      BY <1>0
    <2> QED BY <2>1, <1>3 DEF Place
  <1>7. pos' - Len(msg') = pos
    BY <1>2, <1>3, <1>4, <1>5
  <1>8. Cut' = Cut /\ Place' = Place
    BY <1>1, <1>6, <1>7 DEF Cut, Place
  <1>9. StreamInv'
    BY <1>1, <1>2, <1>3, <1>4, <1>5, <1>7 DEF StreamInv
  <1>10. CutInv'
    BY <1>1, <1>8 DEF ReadInv, CutInv
  <1>11. PlaceInv'
    BY <1>1, <1>8 DEF ReadInv, PlaceInv
  <1>12. PumpInv'
    BY <1>0, <1>1 DEF ReadInv, PumpInv
  <1> QED BY <1>9, <1>10, <1>11, <1>12 DEF ReadInv

\* The end of the pump changes nothing it has read.
LEMMA ReadFailsStep ==
    ASSUME ReadInv, ReadFails
    PROVE  ReadInv'
  <1>0. pump = "reading" /\ pump' = "ended"
    BY DEF ReadFails
  <1>1. /\ sizes' = sizes /\ pos' = pos /\ msg' = msg /\ partial' = partial
        /\ incoming' = incoming /\ want' = want
        /\ frame' = frame /\ consumer' = consumer /\ handed' = handed
    BY DEF ReadFails
  <1>2. Cut' = Cut /\ Place' = Place
    BY <1>1 DEF Cut, Place
  <1>3. StreamInv' /\ CutInv' /\ PlaceInv'
    BY <1>1, <1>2 DEF ReadInv, StreamInv, CutInv, PlaceInv
  <1>4. PumpInv'
    BY <1>0, <1>1 DEF ReadInv, PumpInv
  <1> QED BY <1>3, <1>4 DEF ReadInv

\* The consumer takes the frame that is complete.
LEMMA receiveStep ==
    ASSUME ReadInv, receiveEncryptedFrame
    PROVE  ReadInv'
  <1>0. /\ pump = "handing" /\ pump' = "processing" /\ frame # Nil /\ frame' = Nil
        /\ handed' = Append(handed, frame)
    BY DEF receiveEncryptedFrame, ReadInv, PumpInv
  <1>1. /\ sizes' = sizes /\ pos' = pos /\ msg' = msg /\ partial' = partial
        /\ incoming' = incoming /\ want' = want /\ consumer' = consumer
    BY DEF receiveEncryptedFrame
  <1> DEFINE n == Len(handed)
  <1>2. /\ handed \in Seq(Seq(StreamByte)) /\ n \in Nat /\ Cut = n + 1
        /\ frame = Body(sizes, Cut) /\ Cut \in 0..ServerFrames
    BY <1>0, Where DEF ReadInv, CutInv, Cut
  <1>3. frame \in Seq(StreamByte)
    <2> DEFINE x == Ends(sizes)[Cut - 1] + FrameLengthSize
               y == Ends(sizes)[Cut]
    <2>1. sizes \in Sizes
      BY DEF ReadInv, StreamInv
    <2>2. Cut \in 1..ServerFrames /\ Cut - 1 \in 0..ServerFrames /\ ServerFrames \in Nat
      BY <1>2, SocketsAssumption
    <2>3. /\ Ends(sizes)[Cut - 1] \in Nat /\ y \in Nat
          /\ y = Ends(sizes)[Cut - 1] + FrameLengthSize + sizes[Cut]
          /\ sizes[Cut] \in Nat /\ y <= Ends(sizes)[ServerFrames]
      BY <2>1, <2>2, <1>2, EndsRecursion, EndsGrow, SizeType
    <2>4. x \in Nat /\ y \in Nat /\ x <= y /\ y <= Ends(sizes)[ServerFrames]
      BY <2>3, SocketsAssumption
    <2> HIDE DEF x, y
    <2>5. Stream(sizes, x, y) \in Seq(StreamByte)
      BY <2>1, <2>4, StreamFacts
    <2> QED BY <2>5, <1>2 DEF Body, x, y
  <1>4. /\ handed' \in Seq(Seq(StreamByte)) /\ Len(handed') = n + 1
        /\ \A i \in 1..n : handed'[i] = handed[i]
        /\ handed'[n + 1] = frame
    BY <1>0, <1>2, <1>3, AppendProperties
  <1> HIDE DEF n
  <1>5. Cut' = Cut /\ Place' = Place
    BY <1>0, <1>1, <1>2, <1>4 DEF Cut, Place
  <1>6. StreamInv'
    BY <1>1 DEF ReadInv, StreamInv
  <1>7. CutInv'
    <2>1. \A i \in 1..n : handed[i] = Body(sizes, i)
      BY DEF ReadInv, CutInv, n
    <2>2. \A i \in 1..(n + 1) : handed'[i] = Body(sizes', i)
      <3> SUFFICES ASSUME NEW i \in 1..(n + 1) PROVE handed'[i] = Body(sizes', i)
        OBVIOUS
      <3>1. CASE i = n + 1
        BY <3>1, <1>1, <1>2, <1>4
      <3>2. CASE i # n + 1
        <4>1. i \in 1..n
          BY <3>2, <1>2
        <4> QED BY <4>1, <2>1, <1>1, <1>4
      <3> QED BY <3>1, <3>2
    <2> QED BY <2>2, <1>0, <1>2, <1>4, <1>5 DEF CutInv
  <1>8. PlaceInv'
    <2>1. incoming = Nil
      BY <1>0 DEF ReadInv, PlaceInv
    <2> QED BY <2>1, <1>1, <1>5 DEF ReadInv, PlaceInv
  <1>9. PumpInv'
    BY <1>0, <1>1 DEF ReadInv, PumpInv
  <1> QED BY <1>6, <1>7, <1>8, <1>9 DEF ReadInv

\* Where a frame ends.
LEMMA FrameEnds ==
    ASSUME NEW z \in Sizes, NEW d \in 0..(ServerFrames - 1)
    PROVE  /\ Ends(z)[d + 1] = Ends(z)[d] + FrameLengthSize + z[d + 1]
           /\ Ends(z)[d] \in Nat /\ Ends(z)[d + 1] \in Nat /\ z[d + 1] \in Nat
           /\ Ends(z)[d + 1] <= Ends(z)[ServerFrames]
           /\ Ends(z)[ServerFrames] \in Nat
           /\ Body(z, d + 1) = Stream(z, Ends(z)[d] + FrameLengthSize, Ends(z)[d + 1])
  <1> USE SocketsAssumption
  <1>1. d + 1 \in 1..ServerFrames /\ (d + 1) - 1 = d /\ d \in 0..ServerFrames
        /\ d + 1 \in 0..ServerFrames /\ ServerFrames \in 0..ServerFrames /\ d + 1 <= ServerFrames
    OBVIOUS
  <1>2. Ends(z)[d + 1] = Ends(z)[(d + 1) - 1] + FrameLengthSize + z[d + 1]
    BY <1>1, EndsRecursion
  <1>3. Ends(z)[d + 1] <= Ends(z)[ServerFrames] /\ Ends(z)[d] \in Nat /\ Ends(z)[d + 1] \in Nat
        /\ Ends(z)[ServerFrames] \in Nat
    BY <1>1, EndsGrow
  <1>4. z[d + 1] \in Nat
    BY <1>1, SizeType
  <1> QED BY <1>1, <1>2, <1>3, <1>4 DEF Body

\* frameComplete, once the next frame of the stream is there.
LEMMA FrameCompleted ==
    ASSUME ReadInv, frame = Nil, Cut < ServerFrames,
           sizes' = sizes, pos' = pos, handed' = handed, consumer' = consumer,
           Ends(sizes)[Cut + 1] <= pos,
           frameComplete(Body(sizes, Cut + 1), Stream(sizes, Ends(sizes)[Cut + 1], pos))
    PROVE  ReadInv'
  <1> DEFINE d == Cut
             e == Ends(sizes)[d + 1]
  <1>0. sizes \in Sizes
    BY DEF ReadInv, StreamInv
  <1>1. d \in 0..(ServerFrames - 1) /\ pos \in Nat /\ pos <= Ends(sizes)[ServerFrames]
        /\ Len(handed) = d /\ d \in Nat
    BY Where, SocketsAssumption DEF Cut
  <1>2. /\ e = Ends(sizes)[d] + FrameLengthSize + sizes[d + 1]
        /\ Ends(sizes)[d] \in Nat /\ e \in Nat /\ sizes[d + 1] \in Nat
        /\ e <= Ends(sizes)[ServerFrames] /\ Ends(sizes)[ServerFrames] \in Nat
        /\ Body(sizes, d + 1) = Stream(sizes, Ends(sizes)[d] + FrameLengthSize, e)
    <2> HIDE DEF d
    <2> QED BY <1>0, <1>1, FrameEnds
  <1>3. /\ frame' = Body(sizes, d + 1) /\ pump' = "handing" /\ incoming' = Nil
        /\ partial' = <<>> /\ want' = 0 /\ msg' = Stream(sizes, e, pos)
    BY DEF frameComplete
  <1>4. e <= pos
    OBVIOUS
  <1> HIDE DEF d, e
  <1>5. frame' # Nil
    <2> DEFINE x == Ends(sizes)[d] + FrameLengthSize
    <2>1. x \in Nat /\ x <= e
      BY <1>2, SocketsAssumption
    <2> HIDE DEF x
    <2>2. Stream(sizes, x, e) # Nil
      BY <2>1, <1>0, <1>2, StreamIsNotNil
    <2> QED BY <2>2, <1>2, <1>3 DEF x
  <1>6. msg' \in Seq(StreamByte) /\ Len(msg') = pos - e
    <2>1. /\ sizes \in Sizes /\ e \in Nat /\ pos \in Nat /\ e <= pos
          /\ pos <= Ends(sizes)[ServerFrames]
      BY <1>0, <1>1, <1>2, <1>4
    <2>2. Stream(sizes, e, pos) \in Seq(StreamByte) /\ Len(Stream(sizes, e, pos)) = pos - e
      BY ONLY <2>1, StreamFacts, ZenonT(30)
    <2> QED BY <2>2, <1>3
  <1>7. pos - Len(msg') = e
    BY <1>1, <1>2, <1>6
  <1>8. Cut' = d + 1 /\ Place' = e
    BY <1>1, <1>5, <1>7 DEF Cut, Place
  <1>9. StreamInv'
    <2>1. Len(msg') <= pos /\ pos \in 0..Ends(sizes)[ServerFrames]
      BY <1>1, <1>2, <1>4, <1>6
    <2> QED BY <2>1, <1>0, <1>3, <1>6, <1>7 DEF StreamInv
  <1>10. CutInv'
    <2>1. handed \in Seq(Seq(StreamByte)) /\ \A i \in 1..Len(handed) : handed[i] = Body(sizes, i)
      BY DEF ReadInv, CutInv
    <2>2. d + 1 <= ServerFrames
      BY <1>1, SocketsAssumption
    <2> QED BY <2>1, <2>2, <1>3, <1>8 DEF CutInv
  <1>11. PlaceInv'
    <2>1. Stream(sizes, e, e) = <<>>
      BY <1>0, <1>2, EmptyStream
    <2>2. Ends(sizes)[d + 1] = e
      BY DEF e
    <2>3. e - e \in 0..(FrameLengthSize - 1)
      BY <1>2, SocketsAssumption
    <2> QED BY <2>1, <2>2, <2>3, <1>3, <1>8 DEF PlaceInv
  <1>12. PumpInv'
    BY <1>3, <1>5 DEF ReadInv, PumpInv
  <1> QED BY <1>9, <1>10, <1>11, <1>12 DEF ReadInv

\* A message is used up: the stream goes on after it.
LEMMA MessageUsedUp ==
    ASSUME ReadInv, sizes' = sizes, pos' = pos, handed' = handed, frame' = frame, msg' = <<>>
    PROVE  StreamInv' /\ CutInv' /\ Cut' = Cut /\ Place' = pos
  <1>1. /\ sizes \in Sizes /\ pos \in Nat /\ pos \in 0..Ends(sizes)[ServerFrames]
        /\ pos <= Ends(sizes)[ServerFrames]
    BY Where DEF ReadInv, StreamInv
  <1>2. Stream(sizes, pos, pos) = <<>>
    BY <1>1, EmptyStream
  <1>3. Len(msg') = 0 /\ msg' \in Seq(StreamByte) /\ pos - Len(msg') = pos
    BY <1>1
  <1>4. Cut' = Cut /\ Place' = pos
    BY <1>3 DEF Cut, Place
  <1>5. StreamInv'
    BY <1>1, <1>2, <1>3 DEF StreamInv
  <1>6. CutInv'
    BY <1>4 DEF ReadInv, CutInv
  <1> QED BY <1>4, <1>5, <1>6

\* A frame begins in the message, perhaps after the part of its length that came
\* before.
LEMMA NewFrameStep ==
    ASSUME ReadInv, pump = "processing", msg # <<>>, incoming = Nil,
           NewFrame(partial \o msg),
           sizes' = sizes, pos' = pos, handed' = handed, consumer' = consumer
    PROVE  ReadInv'
  <1> DEFINE L == FrameLengthSize
             d == Cut
             e == Ends(sizes)[d]
             m == partial \o msg
             rest == SubSeq(m, L + 1, Len(m))
             length == LengthIn(m)
  <1>0. sizes \in Sizes /\ frame = Nil /\ msg = Stream(sizes, Place, pos)
        /\ partial = Stream(sizes, e, Place) /\ msg \in Seq(StreamByte)
        /\ want = 0 /\ Place - e \in 0..(L - 1)
    BY DEF ReadInv, StreamInv, PumpInv, PlaceInv, Place
  <1>1. /\ d \in 0..ServerFrames /\ e \in Nat /\ Place \in Nat /\ pos \in Nat /\ Place <= pos
        /\ pos <= Ends(sizes)[ServerFrames] /\ Place = pos - Len(msg) /\ L \in Nat \ {0}
        /\ Len(msg) \in Nat /\ ServerFrames \in Nat
    BY Where
  <1>2. Len(msg) # 0
    BY <1>0
  <1> HIDE DEF d, e
  <1>3. e <= Place /\ Place < pos /\ e < pos
    BY <1>0, <1>1, <1>2
  <1>4. d \in 0..(ServerFrames - 1)
    <2>1. d # ServerFrames
      BY <1>1, <1>3 DEF e
    <2> QED BY <2>1, <1>1
  <1>5. m = Stream(sizes, e, pos)
    <2>1. /\ sizes \in Sizes /\ e \in Nat /\ Place \in Nat /\ pos \in Nat
          /\ e <= Place /\ Place <= pos /\ pos <= Ends(sizes)[ServerFrames]
      BY <1>0, <1>1, <1>3
    <2>2. Stream(sizes, e, Place) \o Stream(sizes, Place, pos) = Stream(sizes, e, pos)
      BY ONLY <2>1, StreamConcat, SMTT(30)
    <2> QED BY <2>2, <1>0
  <1>6. Len(m) = pos - e /\ m \in Seq(StreamByte)
    <2>1. e <= pos
      BY <1>1, <1>3
    <2> HIDE DEF m
    <2> QED BY <2>1, <1>0, <1>1, <1>5, StreamFacts
  <1>7. /\ Ends(sizes)[d + 1] = e + L + sizes[d + 1] /\ sizes[d + 1] \in Nat
        /\ Ends(sizes)[d + 1] <= Ends(sizes)[ServerFrames]
        /\ Body(sizes, d + 1) = Stream(sizes, e + L, Ends(sizes)[d + 1])
        /\ Ends(sizes)[d + 1] \in Nat /\ Ends(sizes)[ServerFrames] \in Nat
    BY <1>0, <1>4, FrameEnds DEF e
  <1> HIDE DEF m
  <1>8. ASSUME Len(m) >= L
        PROVE  length = sizes[d + 1] /\ rest = Stream(sizes, e + L, pos) /\ Len(rest) = pos - (e + L)
               /\ e + L <= pos
    <2> DEFINE n == pos - e
               x == e + L
    <2>1. /\ n >= L /\ n \in Nat /\ L \in Nat /\ e + n = pos /\ x <= pos /\ x \in Nat
          /\ L <= n /\ n <= pos - e /\ e <= pos
      BY <1>8, <1>1, <1>3, <1>6
    <2>2. length = sizes[d + 1]
      BY <2>1, <1>0, <1>1, <1>4, <1>5, LengthFacts DEF e
    <2>3. rest = SubSeq(Stream(sizes, e, pos), L + 1, n)
      BY <1>5, <1>6
    <2> HIDE DEF n
    <2>4. SubSeq(Stream(sizes, e, pos), L + 1, n) = Stream(sizes, x, pos)
      <3> DEFINE p == L + 1
      <3>1. /\ sizes \in Sizes /\ e \in Nat /\ pos \in Nat /\ e <= pos
            /\ pos <= Ends(sizes)[ServerFrames]
            /\ p \in Nat /\ 1 <= p /\ n \in Nat /\ p <= n + 1 /\ n <= pos - e
            /\ x \in Nat /\ x + 1 = e + p /\ pos = e + n
        BY <2>1, <1>0, <1>1
      <3> HIDE DEF p, x
      <3>2. Slice(Stream(sizes, e, pos), p, n) = Stream(sizes, x, pos)
        BY ONLY <3>1, StreamPart, SMTT(30)
      <3> QED BY <3>2 DEF p, Slice
    <2>5. rest = Stream(sizes, x, pos)
      BY <2>1, <2>3, <2>4
    <2> HIDE DEF x, rest
    <2>6. Len(rest) = pos - x
      BY <2>1, <2>5, <1>0, <1>1, StreamFacts
    <2> QED BY <2>1, <2>2, <2>5, <2>6 DEF x
  <1>9. CASE Len(m) < L /\ partial' = m /\ msg' = <<>> /\ UNCHANGED <<incoming, want, frame, pump>>
    <2>1. StreamInv' /\ CutInv' /\ Cut' = d /\ Place' = pos
      BY <1>9, MessageUsedUp DEF d
    <2>2. pos - e \in 0..(L - 1)
      BY <1>9, <1>1, <1>3, <1>6
    <2>3. PlaceInv'
      BY <2>1, <2>2, <1>0, <1>5, <1>9 DEF PlaceInv, e
    <2>4. PumpInv'
      BY <1>0, <1>9 DEF ReadInv, PumpInv
    <2> QED BY <2>1, <2>3, <2>4 DEF ReadInv
  <1>10. CASE /\ Len(m) >= L /\ Len(rest) >= length
              /\ frameComplete(SubSeq(rest, 1, length), SubSeq(rest, length + 1, Len(rest)))
    <2> DEFINE x == e + L
               w == sizes[d + 1]
               n == pos - x
               y == Ends(sizes)[d + 1]
    <2>1. length = w /\ rest = Stream(sizes, x, pos) /\ Len(rest) = n /\ x <= pos
      BY <1>8, <1>10
    <2>2. /\ x \in Nat /\ w \in Nat /\ n \in Nat /\ w <= n /\ n <= n /\ 0 <= w
          /\ y = x + w /\ x + n = pos /\ y <= pos /\ y \in Nat
      BY <2>1, <1>1, <1>7, <1>10
    <2>3. SubSeq(Stream(sizes, x, pos), w + 1, n) = Stream(sizes, y, pos)
      <3> DEFINE p == w + 1
      <3>1. /\ sizes \in Sizes /\ x \in Nat /\ pos \in Nat /\ x <= pos
            /\ pos <= Ends(sizes)[ServerFrames]
            /\ p \in Nat /\ 1 <= p /\ n \in Nat /\ p <= n + 1 /\ n <= pos - x
            /\ y \in Nat /\ y + 1 = x + p /\ pos = x + n
        <4> HIDE DEF x, y, w
        <4> QED BY <2>1, <2>2, <1>0, <1>1
      <3> HIDE DEF p, x, y, n
      <3>2. Slice(Stream(sizes, x, pos), p, n) = Stream(sizes, y, pos)
        BY ONLY <3>1, StreamPart, SMTT(30)
      <3> QED BY <3>2 DEF p, Slice
    <2>4. SubSeq(Stream(sizes, x, pos), 1, w) = Stream(sizes, x, y)
      <3>1. /\ sizes \in Sizes /\ x \in Nat /\ pos \in Nat /\ x <= pos
            /\ pos <= Ends(sizes)[ServerFrames]
            /\ 1 \in Nat /\ 1 <= 1 /\ w \in Nat /\ 1 <= w + 1 /\ w <= pos - x
            /\ y \in Nat /\ x + 1 = x + 1 /\ y = x + w
        <4> HIDE DEF x, y, w
        <4> QED BY <2>1, <2>2, <1>0, <1>1 DEF n
      <3> HIDE DEF x, y, w
      <3>2. Slice(Stream(sizes, x, pos), 1, w) = Stream(sizes, x, y)
        BY ONLY <3>1, StreamPart, SMTT(30)
      <3> QED BY <3>2 DEF Slice
    <2> HIDE DEF x, w, n, y, rest, length
    <2>5. frameComplete(Stream(sizes, x, y), Stream(sizes, y, pos))
      BY <1>10, <2>1, <2>2, <2>3, <2>4
    <2>6. frameComplete(Body(sizes, Cut + 1), Stream(sizes, Ends(sizes)[Cut + 1], pos))
      BY <2>5, <1>7 DEF x, y, d
    <2>7. Cut < ServerFrames /\ Ends(sizes)[Cut + 1] <= pos
      BY <2>2, <1>1, <1>4 DEF y, d
    <2> QED BY <2>6, <2>7, <1>0, FrameCompleted
  <1>11. CASE /\ Len(m) >= L /\ Len(rest) < length
              /\ incoming' = rest /\ want' = length /\ partial' = <<>> /\ msg' = <<>>
              /\ UNCHANGED <<frame, pump>>
    <2> DEFINE x == e + L
               w == sizes[d + 1]
    <2>1. want' = w /\ incoming' = Stream(sizes, x, pos) /\ x <= pos /\ pos - x < w
      BY <1>8, <1>11
    <2>2. x \in Nat /\ w \in Nat /\ pos - x \in 0..(w - 1) /\ pos - e - L \in 0..(w - 1)
      BY <2>1, <1>1, <1>7
    <2>3. incoming' # Nil
      <3> HIDE DEF x
      <3> QED BY <2>1, <2>2, <1>0, <1>1, StreamIsNotNil
    <2>4. StreamInv' /\ CutInv' /\ Cut' = d /\ Place' = pos
      BY <1>11, MessageUsedUp DEF d
    <2>5. d < ServerFrames
      BY <1>1, <1>4
    <2>6. PlaceInv'
      BY <2>1, <2>2, <2>3, <2>4, <2>5, <1>0, <1>11 DEF PlaceInv, e
    <2>7. PumpInv'
      BY <1>0, <1>11 DEF ReadInv, PumpInv
    <2> QED BY <2>4, <2>6, <2>7 DEF ReadInv
  <1> QED BY <1>9, <1>10, <1>11 DEF NewFrame, m

\* The unfinished frame goes on in the message.
LEMMA RestOfFrameStep ==
    ASSUME ReadInv, pump = "processing", msg # <<>>, incoming # Nil,
           RestOfFrame(partial \o msg),
           sizes' = sizes, pos' = pos, handed' = handed, consumer' = consumer
    PROVE  ReadInv'
  <1> DEFINE d == Cut
             e == Ends(sizes)[d]
             x == e + FrameLengthSize
             y == Ends(sizes)[d + 1]
             at == Place
             lack == want - Len(incoming)
  <1>0. /\ sizes \in Sizes /\ frame = Nil /\ msg = Stream(sizes, at, pos)
        /\ partial = <<>> /\ msg \in Seq(StreamByte) /\ d < ServerFrames
        /\ want = sizes[d + 1] /\ incoming = Stream(sizes, x, at)
        /\ at - e - FrameLengthSize \in 0..(want - 1)
    BY DEF ReadInv, StreamInv, PumpInv, PlaceInv, Place
  <1>1. /\ d \in 0..ServerFrames /\ e \in Nat /\ at \in Nat /\ pos \in Nat /\ at <= pos
        /\ pos <= Ends(sizes)[ServerFrames] /\ at = pos - Len(msg)
        /\ Len(msg) \in Nat /\ ServerFrames \in Nat /\ FrameLengthSize \in Nat
        /\ Ends(sizes)[ServerFrames] \in Nat
    BY Where
  <1>2. d \in 0..(ServerFrames - 1)
    BY <1>0, <1>1
  <1>3. /\ y = e + FrameLengthSize + want /\ want \in Nat /\ y \in Nat
        /\ y <= Ends(sizes)[ServerFrames] /\ Body(sizes, d + 1) = Stream(sizes, x, y)
    <2> HIDE DEF d
    <2> QED BY <1>0, <1>2, FrameEnds
  <1>4. partial \o msg = msg
    BY <1>0, ConcatEmptySeq
  <1> HIDE DEF d, e
  <1>5. x \in Nat /\ x <= at /\ at < y /\ at - x \in 0..(want - 1)
        /\ y = x + want /\ at <= Ends(sizes)[ServerFrames]
    <2> HIDE DEF at
    <2> DEFINE q == Ends(sizes)[ServerFrames]
    <2>1. at \in Nat /\ pos \in Nat /\ q \in Nat /\ at <= pos /\ pos <= q
      BY <1>1 DEF at
    <2>2. at - e - FrameLengthSize \in 0..(want - 1) /\ e \in Nat /\ FrameLengthSize \in Nat
          /\ y = e + FrameLengthSize + want /\ want \in Nat
      BY <1>0, <1>1, <1>3 DEF at
    <2> HIDE DEF q, y
    <2>3. at <= q
      BY <2>1
    <2>4. x \in Nat /\ x <= at /\ at < y /\ at - x \in 0..(want - 1) /\ y = x + want
      BY <2>1, <2>2
    <2> QED BY <2>3, <2>4 DEF q, at
  <1> HIDE DEF x, y
  <1>6. Len(incoming) = at - x /\ incoming \in Seq(StreamByte)
    BY <1>0, <1>1, <1>5, StreamFacts
  <1>7. lack = y - at /\ lack \in Nat
    BY <1>1, <1>3, <1>5, <1>6
  <1>8. CASE /\ Len(msg) >= lack
             /\ frameComplete(incoming \o SubSeq(msg, 1, lack), SubSeq(msg, lack + 1, Len(msg)))
    <2> DEFINE n == Len(msg)
               p == lack + 1
    <2>0. /\ sizes \in Sizes /\ at \in Nat /\ pos \in Nat /\ at <= pos
          /\ pos <= Ends(sizes)[ServerFrames] /\ y \in Nat /\ x \in Nat
      BY <1>0, <1>1, <1>3, <1>5
    <2> HIDE DEF at, lack
    <2>1. /\ 1 \in Nat /\ 1 <= 1 /\ lack \in Nat /\ 1 <= lack + 1 /\ lack <= pos - at
          /\ at + 1 = at + 1 /\ y = at + lack /\ y <= pos
      BY <2>0, <1>1, <1>7, <1>8 DEF at
    <2>2. /\ p \in Nat /\ 1 <= p /\ n \in Nat /\ p <= n + 1 /\ n <= pos - at
          /\ y + 1 = at + p /\ pos = at + n
      BY <2>0, <2>1, <1>1, <1>7, <1>8 DEF at
    <2> HIDE DEF p, n
    <2>3. Slice(msg, 1, lack) = Stream(sizes, at, y)
      <3>1. Slice(Stream(sizes, at, pos), 1, lack) = Stream(sizes, at, y)
        BY ONLY <2>0, <2>1, StreamPart, SMTT(30)
      <3> QED BY <3>1, <1>0 DEF at
    <2>4. Slice(msg, p, n) = Stream(sizes, y, pos)
      <3>1. Slice(Stream(sizes, at, pos), p, n) = Stream(sizes, y, pos)
        BY ONLY <2>0, <2>2, StreamPart, SMTT(30)
      <3> QED BY <3>1, <1>0 DEF at
    <2>5. incoming \o Stream(sizes, at, y) = Stream(sizes, x, y)
      <3>1. x <= at /\ at <= y /\ y <= Ends(sizes)[ServerFrames] /\ incoming = Stream(sizes, x, at)
        BY <1>0, <1>1, <1>3, <1>5 DEF at
      <3> QED BY <3>1, <2>0, StreamConcat
    <2>6. frameComplete(Stream(sizes, x, y), Stream(sizes, y, pos))
      <3>1. frameComplete(incoming \o Slice(msg, 1, lack), Slice(msg, p, n))
        BY <1>8 DEF p, n, Slice, lack
      <3> QED BY <3>1, <2>3, <2>4, <2>5
    <2>7. frameComplete(Body(sizes, Cut + 1), Stream(sizes, Ends(sizes)[Cut + 1], pos))
      BY <2>6, <1>3 DEF y, d
    <2>8. Cut < ServerFrames /\ Ends(sizes)[Cut + 1] <= pos
      BY <2>1, <1>0 DEF y, d
    <2> QED BY <2>7, <2>8, <1>0, FrameCompleted
  <1>9. CASE /\ Len(msg) < lack
             /\ incoming' = incoming \o msg /\ msg' = <<>> /\ partial' = <<>>
             /\ UNCHANGED <<want, frame, pump>>
    <2>1. incoming' = Stream(sizes, x, pos)
      <3> HIDE DEF at
      <3>1. Stream(sizes, x, at) \o Stream(sizes, at, pos) = Stream(sizes, x, pos)
        <4>1. /\ sizes \in Sizes /\ x \in Nat /\ at \in Nat /\ pos \in Nat
              /\ x <= at /\ at <= pos /\ pos <= Ends(sizes)[ServerFrames]
          BY <1>0, <1>1, <1>5 DEF at
        <4> QED BY ONLY <4>1, StreamConcat, SMTT(30)
      <3> QED BY <3>1, <1>0, <1>9 DEF at
    <2>2. x <= pos /\ pos - x \in 0..(want - 1) /\ pos - e - FrameLengthSize \in 0..(want - 1)
      <3> DEFINE g == Len(msg)
      <3> HIDE DEF at, lack, g
      <3>1. /\ at \in Nat /\ pos \in Nat /\ x \in Nat /\ want \in Nat /\ y \in Nat /\ g \in Nat
            /\ at <= pos /\ at = pos - g /\ x <= at /\ y = x + want /\ lack = y - at /\ g < lack
        BY <1>1, <1>3, <1>5, <1>7, <1>9 DEF at, lack, g
      <3>2. x <= pos /\ pos - x \in 0..(want - 1)
        BY <3>1
      <3>3. pos - e - FrameLengthSize = pos - x
        BY <3>1, <1>1 DEF x
      <3> QED BY <3>2, <3>3
    <2>3. incoming' # Nil
      BY <2>1, <2>2, <1>0, <1>1, <1>5, StreamIsNotNil
    <2>4. StreamInv' /\ CutInv' /\ Cut' = d /\ Place' = pos
      BY <1>9, MessageUsedUp DEF d
    <2>5. PlaceInv'
      BY <2>1, <2>2, <2>3, <2>4, <1>0, <1>9 DEF PlaceInv, e, x
    <2>6. PumpInv'
      BY <1>0, <1>9 DEF ReadInv, PumpInv
    <2> QED BY <2>4, <2>5, <2>6 DEF ReadInv
  <1> QED
    <2>1. RestOfFrame(msg)
      BY <1>4
    <2> QED BY <2>1, <1>8, <1>9 DEF RestOfFrame

\* One round of processData.
LEMMA processDataStep ==
    ASSUME ReadInv, processData
    PROVE  ReadInv'
  <1>0. /\ pump = "processing" /\ sizes' = sizes /\ pos' = pos /\ handed' = handed
        /\ consumer' = consumer
    BY DEF processData
  <1>1. CASE msg = <<>> /\ pump' = "reading" /\ UNCHANGED <<msg, partial, incoming, want, frame>>
    <2>1. Cut' = Cut /\ Place' = Place
      BY <1>0, <1>1 DEF Cut, Place
    <2>2. StreamInv' /\ CutInv' /\ PlaceInv'
      BY <2>1, <1>0, <1>1 DEF ReadInv, StreamInv, CutInv, PlaceInv
    <2>3. PumpInv'
      BY <1>0, <1>1 DEF ReadInv, PumpInv
    <2> QED BY <2>2, <2>3 DEF ReadInv
  <1>2. CASE msg # <<>> /\ incoming = Nil /\ NewFrame(partial \o msg)
    BY <1>0, <1>2, NewFrameStep
  <1>3. CASE msg # <<>> /\ incoming # Nil /\ RestOfFrame(partial \o msg)
    BY <1>0, <1>3, RestOfFrameStep
  <1> QED BY <1>1, <1>2, <1>3 DEF processData

\* What writing and closing leave alone.
LEMMA ReadUnchanged ==
    ASSUME ReadInv, UNCHANGED <<sizes, pos, msg, partial, incoming, want, frame, pump, handed>>,
           consumer' \in {"waiting", "ended"}
    PROVE  ReadInv'
  <1>1. Cut' = Cut /\ Place' = Place
    BY DEF Cut, Place
  <1>2. StreamInv' /\ CutInv' /\ PlaceInv'
    BY <1>1 DEF ReadInv, StreamInv, CutInv, PlaceInv
  <1>3. PumpInv'
    BY DEF ReadInv, PumpInv
  <1> QED BY <1>2, <1>3 DEF ReadInv

\* At the start nothing has been read.
LEMMA ReadInit ==
    ASSUME SocketsInit
    PROVE  ReadInv
  <1>0. /\ sizes \in Sizes /\ pos = 0 /\ msg = <<>> /\ partial = <<>> /\ incoming = Nil
        /\ want = 0 /\ frame = Nil /\ pump = "reading" /\ consumer = "waiting" /\ handed = <<>>
    BY DEF SocketsInit, Sizes
  <1>1. Ends(sizes)[0] = 0 /\ Ends(sizes)[ServerFrames] \in Nat
    BY <1>0, EndsRecursion, EndsGrow, SocketsAssumption
  <1>2. Stream(sizes, 0, 0) = <<>>
    BY <1>0, <1>1, EmptyStream
  <1>3. Len(msg) = 0 /\ Len(handed) = 0 /\ pos - Len(msg) = 0
    <2>1. Len(<<>>) = 0
      OBVIOUS
    <2>2. Len(msg) = 0 /\ Len(handed) = 0
      BY <2>1, <1>0
    <2> QED BY <2>2, <1>0
  <1>4. Cut = 0 /\ Place = 0
    BY <1>0, <1>3 DEF Cut, Place
  <1>5. StreamInv
    BY <1>0, <1>1, <1>2, <1>3 DEF StreamInv
  <1>6. CutInv
    BY <1>0, <1>3, <1>4, SocketsAssumption DEF CutInv
  <1>7. PlaceInv
    BY <1>0, <1>1, <1>2, <1>4, SocketsAssumption DEF PlaceInv
  <1>8. PumpInv
    BY <1>0 DEF PumpInv
  <1> QED BY <1>5, <1>6, <1>7, <1>8 DEF ReadInv

-----------------------------------------------------------------------------
(* Writing                                                                 *)

\* The counter goes up by one until it reaches its range.
LEMMA NextCounter ==
    ASSUME NEW c \in Nat, NEW r \in Nat \ {0}, c < r
    PROVE  (c + 1) % r \in 0..(r - 1) /\ (c + 1 < r => (c + 1) % r = c + 1)
  OBVIOUS

\* SendFrame seals a frame with the counter's value and waits for it.
LEMMA SendFrameStep ==
    ASSUME WriteInv, NEW s \in Senders, SendFrame(s)
    PROVE  WriteInv'
  <1> DEFINE n == Len(ivs)
  <1> USE SocketsAssumption
  <1>0. /\ lock = Nil /\ n < MaxFrames /\ lock' = s /\ ivs' = Append(ivs, writeCounter)
        /\ writeCounter' = (writeCounter + 1) % CounterRange
        /\ sending' = [sending EXCEPT ![s] = Len(ivs')]
        /\ unwritten' = unwritten \cup {Len(ivs')}
        /\ failed' = failed /\ abandoned' = abandoned /\ wire' = wire
    BY DEF SendFrame
  <1>1. /\ ivs \in Seq(Nat) /\ n \in Nat /\ writeCounter = n /\ n < CounterRange
        /\ wire \in Seq(1..n) /\ sending \in [Senders -> Nat \cup {Nil}]
        /\ unwritten \subseteq 1..n /\ failed \subseteq 1..n /\ abandoned \subseteq 1..n
    BY <1>0 DEF WriteInv, WriteType, CounterInv
  <1>2. /\ ivs' \in Seq(Nat) /\ Len(ivs') = n + 1
        /\ \A i \in 1..n : ivs'[i] = ivs[i]
        /\ ivs'[n + 1] = n
    BY <1>0, <1>1, AppendProperties
  <1> HIDE DEF n
  <1>3. WriteType'
    <2>0. 1..n \subseteq 1..(n + 1) /\ n + 1 \in 1..(n + 1)
      BY <1>1
    <2>1. wire \in Seq(1..(n + 1))
      <3> DEFINE S == 1..n
                 T == 1..(n + 1)
      <3>1. wire \in Seq(S) /\ S \subseteq T
        BY <1>1, <2>0
      <3> HIDE DEF S, T
      <3>2. wire \in Seq(T)
        BY <3>1
      <3> QED BY <3>2 DEF T
    <2>2. /\ unwritten' \subseteq 1..(n + 1) /\ failed' \subseteq 1..(n + 1)
          /\ abandoned' \subseteq 1..(n + 1)
      BY <2>0, <1>0, <1>1, <1>2
    <2>3. sending' \in [Senders -> Nat \cup {Nil}]
      BY <1>0, <1>1, <1>2
    <2>4. lock' \in Senders \cup {Nil} /\ n + 1 <= MaxFrames
      BY <1>0, <1>1
    <2> QED BY <2>1, <2>2, <2>3, <2>4, <1>0, <1>2 DEF WriteType
  <1>4. CounterInv'
    <2>1. /\ writeCounter' \in 0..(CounterRange - 1)
          /\ n + 1 < CounterRange => writeCounter' = n + 1
      BY <1>0, <1>1, NextCounter
    <2>2. \A i \in 1..(n + 1) : ivs'[i] = i - 1
      <3>1. \A i \in 1..n : ivs[i] = i - 1
        BY DEF WriteInv, CounterInv, n
      <3>2. \A i \in 1..(n + 1) : i \in 1..n \/ i = n + 1
        BY <1>1
      <3> QED BY <3>1, <3>2, <1>1, <1>2
    <2> QED BY <2>1, <2>2, <1>2 DEF CounterInv
  <1>5. LockInv'
    <2>1. s # Nil
      OBVIOUS
    <2>2. \A t \in Senders : sending[t] = Nil
      BY <1>0 DEF WriteInv, LockInv
    <2>3. \A t \in Senders : sending'[t] = IF lock' = t THEN n + 1 ELSE Nil
      BY <2>2, <1>0, <1>1, <1>2
    <2>4. unwritten \ abandoned = {}
      BY <1>0 DEF WriteInv, LockInv
    <2>5. \A i \in unwritten' \ abandoned' : i = n + 1
      BY <2>4, <1>0, <1>2
    <2>6. n + 1 > 0
      BY <1>1
    <2> QED BY <2>1, <2>3, <2>5, <2>6, <1>0, <1>2 DEF LockInv
  <1>6. WireInv'
    <2>1. \A i \in 1..Len(wire) : wire[i] \in 1..n
      BY <1>1, ElementOfSeq
    <2>2. \A i \in 1..Len(wire) : wire[i] \notin unwritten'
      <3>1. n + 1 \notin 1..n
        BY <1>1
      <3> QED BY <3>1, <2>1, <1>0, <1>2 DEF WriteInv, WireInv
    <2>3. \A i \in 1..(n + 1) :
             i \in unwritten' \cup failed' \/ \E j \in 1..Len(wire) : wire[j] = i
      <3>1. \A i \in 1..(n + 1) : i \in 1..n \/ i = n + 1
        BY <1>1
      <3>2. \A i \in 1..n : i \in unwritten \cup failed \/ \E j \in 1..Len(wire) : wire[j] = i
        BY DEF WriteInv, WireInv, n
      <3> QED BY <3>1, <3>2, <1>0, <1>2
    <2> QED BY <2>2, <2>3, <1>0, <1>2 DEF WriteInv, WireInv
  <1> QED BY <1>3, <1>4, <1>5, <1>6 DEF WriteInv

\* The goroutine of a frame writes it or fails.  Every frame sealed before it has
\* had its goroutine or was given up.
LEMMA WriteFrameStep ==
    ASSUME WriteInv, NEW n, WriteFrame(n)
    PROVE  WriteInv'
  <1> DEFINE l == Len(ivs)
             k == Len(wire)
  <1>0. /\ n \in unwritten /\ unwritten' = unwritten \ {n}
        /\ lock' = lock /\ writeCounter' = writeCounter /\ ivs' = ivs /\ sending' = sending
        /\ abandoned' = abandoned
    BY DEF WriteFrame
  <1>1. /\ ivs \in Seq(Nat) /\ l \in Nat /\ wire \in Seq(1..l) /\ k \in Nat
        /\ unwritten \subseteq 1..l /\ failed \subseteq 1..l /\ abandoned \subseteq 1..l
        /\ n \in 1..l
    BY <1>0 DEF WriteInv, WriteType
  <1>2. CounterInv' /\ LockInv'
    BY <1>0 DEF WriteInv, CounterInv, LockInv
  <1>3. /\ \A i, j \in 1..k : wire[i] = wire[j] => i = j
        /\ \A i \in 1..k : wire[i] \notin unwritten
        /\ \A i \in 1..l : i \in unwritten \cup failed \/ \E j \in 1..k : wire[j] = i
        /\ \A i \in 1..k : \A m \in 1..(wire[i] - 1) :
              m \in failed \cup abandoned \/ \E j \in 1..(i - 1) : wire[j] = m
    BY DEF WriteInv, WireInv
  <1>4. CASE failed' = failed \cup {n} /\ wire' = wire
    <2>1. WriteType'
      BY <1>0, <1>1, <1>4 DEF WriteInv, WriteType
    <2>2. WireInv'
      <3>1. \A i \in 1..k : wire'[i] \notin unwritten'
        BY <1>0, <1>3, <1>4
      <3>2. \A i \in 1..l : i \in unwritten' \cup failed' \/ \E j \in 1..k : wire'[j] = i
        BY <1>0, <1>3, <1>4
      <3>3. \A i \in 1..k : \A m \in 1..(wire'[i] - 1) :
               m \in failed' \cup abandoned' \/ \E j \in 1..(i - 1) : wire'[j] = m
        BY <1>0, <1>3, <1>4
      <3> QED BY <3>1, <3>2, <3>3, <1>0, <1>3, <1>4 DEF WireInv
    <2> QED BY <2>1, <2>2, <1>2 DEF WriteInv
  <1>5. CASE wire' = Append(wire, n) /\ failed' = failed
    <2>0. /\ wire' \in Seq(1..l) /\ Len(wire') = k + 1
          /\ \A i \in 1..k : wire'[i] = wire[i]
          /\ wire'[k + 1] = n
      BY <1>1, <1>5, AppendProperties
    <2>1. WriteType'
      BY <2>0, <1>0, <1>1, <1>5 DEF WriteInv, WriteType
    <2>3. \A i \in 1..k : wire[i] # n
      BY <1>0, <1>3
    <2>a. k \in Nat
      BY <1>1
    <2> HIDE DEF k, l
    <2>2. \A i \in 1..(k + 1) : i \in 1..k \/ i = k + 1
      BY <2>a
    <2>4. \A i, j \in 1..(k + 1) : wire'[i] = wire'[j] => i = j
      BY <2>0, <2>2, <2>3, <1>3
    <2>5. \A i \in 1..(k + 1) : wire'[i] \notin unwritten'
      BY <2>0, <2>2, <1>0, <1>3
    <2>6. \A i \in 1..l : i \in unwritten' \cup failed' \/ \E j \in 1..(k + 1) : wire'[j] = i
      <3> SUFFICES ASSUME NEW i \in 1..l, i \notin unwritten' \cup failed'
                   PROVE  \E j \in 1..(k + 1) : wire'[j] = i
        OBVIOUS
      <3>1. CASE i = n
        <4>1. k + 1 \in 1..(k + 1)
          BY <1>1
        <4> QED BY <3>1, <4>1, <2>0
      <3>2. CASE i # n
        <4>1. PICK j \in 1..k : wire[j] = i
          BY <3>2, <1>0, <1>3, <1>5
        <4>2. j \in 1..(k + 1) /\ wire'[j] = i
          BY <4>1, <2>0, <1>1
        <4> QED BY <4>2
      <3> QED BY <3>1, <3>2
    <2>7. ASSUME NEW i \in 1..(k + 1), NEW m \in 1..(wire'[i] - 1)
          PROVE  m \in failed' \cup abandoned' \/ \E j \in 1..(i - 1) : wire'[j] = m
      <3>1. CASE i \in 1..k
        <4>1. m \in failed \cup abandoned \/ \E j \in 1..(i - 1) : wire[j] = m
          BY <3>1, <2>0, <1>3
        <4>2. \A j \in 1..(i - 1) : j \in 1..k
          BY <3>1, <1>1
        <4> QED BY <4>1, <4>2, <2>0, <1>0, <1>5
      <3>2. CASE i = k + 1
        <4>1. m \in 1..l /\ m # n /\ m < l /\ i - 1 = k
          BY <3>2, <2>0, <1>1
        <4>2. m \in unwritten => m \in abandoned
          <5>1. \A x \in unwritten \ abandoned : x = l
            BY DEF WriteInv, LockInv, l
          <5> QED BY <5>1, <4>1, <1>1
        <4>3. m \in failed \cup abandoned \/ \E j \in 1..k : wire[j] = m
          BY <4>1, <4>2, <1>3
        <4> QED BY <4>1, <4>3, <2>0, <1>0, <1>5
      <3> QED BY <3>1, <3>2, <2>2
    <2>8. WireInv'
      BY <2>0, <2>4, <2>5, <2>6, <2>7, <1>0 DEF WireInv, l
    <2> QED BY <2>1, <2>8, <1>2 DEF WriteInv
  <1> QED BY <1>4, <1>5 DEF WriteFrame

\* A sender returns: its frame was written or failed, or it is abandoned.
LEMMA SendEndsStep ==
    ASSUME WriteInv, NEW s \in Senders, SendReturns(s) \/ SendAbandoned(s)
    PROVE  WriteInv'
  <1>0. /\ lock = s /\ lock' = Nil /\ sending' = [sending EXCEPT ![s] = Nil]
        /\ writeCounter' = writeCounter /\ ivs' = ivs /\ unwritten' = unwritten
        /\ failed' = failed /\ wire' = wire
    BY DEF SendReturns, SendAbandoned
  <1>1. abandoned \subseteq abandoned' /\ abandoned' \subseteq abandoned \cup unwritten
    BY DEF SendReturns, SendAbandoned
  <1>2. unwritten \ abandoned' = {}
    <2>1. sending[s] = Len(ivs) /\ \A n \in unwritten \ abandoned : n = Len(ivs)
      BY <1>0, SocketsAssumption DEF WriteInv, LockInv
    <2>2. sending[s] \notin unwritten \/ abandoned' = abandoned \cup ({sending[s]} \cap unwritten)
      BY DEF SendReturns, SendAbandoned
    <2> QED BY <2>1, <2>2, <1>1
  <1>3. WriteType'
    BY <1>0, <1>1 DEF WriteInv, WriteType
  <1>4. CounterInv'
    BY <1>0 DEF WriteInv, CounterInv
  <1>5. LockInv'
    <2>1. \A t \in Senders : sending'[t] = Nil
      BY <1>0 DEF WriteInv, WriteType, LockInv
    <2>2. \A t \in Senders : lock' # t
      BY <1>0, SocketsAssumption
    <2> QED BY <2>1, <2>2, <1>0, <1>2 DEF LockInv
  <1>6. WireInv'
    BY <1>0, <1>1 DEF WriteInv, WireInv
  <1> QED BY <1>3, <1>4, <1>5, <1>6 DEF WriteInv

\* What reading and closing leave alone.
LEMMA WriteUnchanged ==
    ASSUME WriteInv, UNCHANGED writing
    PROVE  WriteInv'
  BY DEF writing, WriteInv, WriteType, CounterInv, LockInv, WireInv

\* At the start nothing is sealed.
LEMMA WriteInit ==
    ASSUME SocketsInit
    PROVE  WriteInv
  <1>0. /\ lock = Nil /\ writeCounter = 0 /\ ivs = <<>> /\ sending = [s \in Senders |-> Nil]
        /\ unwritten = {} /\ failed = {} /\ abandoned = {} /\ wire = <<>>
    BY DEF SocketsInit
  <1>1. Len(ivs) = 0 /\ Len(wire) = 0 /\ ivs \in Seq(Nat) /\ wire \in Seq(1..Len(ivs))
    BY <1>0, EmptySeq
  <1>2. WriteType
    BY <1>0, <1>1, SocketsAssumption DEF WriteType
  <1>3. CounterInv
    BY <1>0, <1>1, SocketsAssumption DEF CounterInv
  <1>4. LockInv
    BY <1>0, <1>1, SocketsAssumption DEF LockInv
  <1>5. WireInv
    BY <1>0, <1>1 DEF WireInv
  <1> QED BY <1>2, <1>3, <1>4, <1>5 DEF WriteInv

-----------------------------------------------------------------------------
(* The theorems about the sockets                                          *)

SocketsIInv == ReadInv /\ WriteInv

\* Every step of the sockets keeps both halves.
LEMMA SocketsStep ==
    ASSUME SocketsIInv, [SocketsNext]_socketsVars
    PROVE  SocketsIInv'
  <1>0. ReadInv /\ WriteInv /\ consumer \in {"waiting", "ended"}
    BY DEF SocketsIInv, ReadInv, PumpInv
  <1>1. ASSUME UNCHANGED reading PROVE ReadInv'
    BY <1>0, <1>1, ReadUnchanged DEF reading
  <1>2. CASE ReadMessage
    <2>1. ReadInv'
      BY <1>0, <1>2, ReadMessageStep
    <2>2. WriteInv'
      BY <1>0, <1>2, WriteUnchanged DEF ReadMessage
    <2> QED BY <2>1, <2>2 DEF SocketsIInv
  <1>3. CASE ReadFails
    <2>1. ReadInv'
      BY <1>0, <1>3, ReadFailsStep
    <2>2. WriteInv'
      BY <1>0, <1>3, WriteUnchanged DEF ReadFails
    <2> QED BY <2>1, <2>2 DEF SocketsIInv
  <1>4. CASE processData
    <2>1. ReadInv'
      BY <1>0, <1>4, processDataStep
    <2>2. WriteInv'
      BY <1>0, <1>4, WriteUnchanged DEF processData
    <2> QED BY <2>1, <2>2 DEF SocketsIInv
  <1>5. CASE receiveEncryptedFrame
    <2>1. ReadInv'
      BY <1>0, <1>5, receiveStep
    <2>2. WriteInv'
      BY <1>0, <1>5, WriteUnchanged DEF receiveEncryptedFrame
    <2> QED BY <2>1, <2>2 DEF SocketsIInv
  <1>6. CASE ConsumerEnds
    <2>1. ReadInv'
      BY <1>0, <1>6, ReadUnchanged DEF ConsumerEnds
    <2>2. WriteInv'
      BY <1>0, <1>6, WriteUnchanged DEF ConsumerEnds
    <2> QED BY <2>1, <2>2 DEF SocketsIInv
  <1>7. CASE CloseFrameSocket \/ StopNoiseSocket
    <2>1. UNCHANGED reading /\ UNCHANGED writing
      BY <1>7 DEF CloseFrameSocket, StopNoiseSocket
    <2> QED BY <2>1, <1>0, <1>1, WriteUnchanged DEF SocketsIInv
  <1>8. ASSUME NEW s \in Senders, SendFrame(s) \/ SendReturns(s) \/ SendAbandoned(s)
        PROVE  SocketsIInv'
    <2>1. ReadInv'
      BY <1>1, <1>8 DEF SendFrame, SendReturns, SendAbandoned
    <2>2. WriteInv'
      BY <1>0, <1>8, SendFrameStep, SendEndsStep
    <2> QED BY <2>1, <2>2 DEF SocketsIInv
  <1>9. ASSUME NEW n \in 1..MaxFrames, WriteFrame(n) PROVE SocketsIInv'
    <2>1. ReadInv'
      BY <1>1, <1>9 DEF WriteFrame
    <2>2. WriteInv'
      BY <1>0, <1>9, WriteFrameStep
    <2> QED BY <2>1, <2>2 DEF SocketsIInv
  <1>10. CASE UNCHANGED socketsVars
    <2>1. UNCHANGED reading /\ UNCHANGED writing
      BY <1>10 DEF socketsVars
    <2> QED BY <2>1, <1>0, <1>1, WriteUnchanged DEF SocketsIInv
  <1> QED BY <1>2, <1>3, <1>4, <1>5, <1>6, <1>7, <1>8, <1>9, <1>10 DEF SocketsNext

\* Both halves hold in every state: the pump is always at one place of the
\* server's stream, and a frame is sealed, written and given up in one order.
THEOREM SocketsInvariance == SocketsSpec => []SocketsIInv
  <1>1. SocketsInit => SocketsIInv
    BY ReadInit, WriteInit DEF SocketsIInv
  <1>2. SocketsIInv /\ [SocketsNext]_socketsVars => SocketsIInv'
    BY SocketsStep
  <1> QED BY <1>1, <1>2, PTL DEF SocketsSpec

\* The read pump never holds a whole length or a whole frame back, and the sender
\* with writeLock waits for a frame that was sealed.
THEOREM SocketsTypes == SocketsSpec => []SocketsTypeOK
  <1>1. SocketsIInv => SocketsTypeOK
    <2> SUFFICES ASSUME ReadInv, WriteInv PROVE SocketsTypeOK
      BY DEF SocketsIInv
    <2>1. pump \in {"reading", "processing", "handing", "ended"}
          /\ consumer \in {"waiting", "ended"} /\ ((frame # Nil) = (pump = "handing"))
      BY DEF ReadInv, PumpInv
    <2>2. /\ Cut \in 0..ServerFrames /\ Place \in Nat /\ Place <= pos /\ pos \in Nat
          /\ pos <= Ends(sizes)[ServerFrames] /\ Ends(sizes)[Cut] \in Nat
          /\ Ends(sizes)[ServerFrames] \in Nat
          /\ FrameLengthSize \in Nat \ {0} /\ ServerFrames \in Nat
      BY Where
    <2>3. sizes \in Sizes /\ pos \in 0..Upto[ServerFrames]
      BY UptoIsEnds DEF ReadInv, StreamInv
    <2> DEFINE d == Cut
               e == Ends(sizes)[d]
               q == Place
    <2> HIDE DEF d, e, q
    <2>4. /\ e \in Nat /\ q \in Nat /\ q <= Ends(sizes)[ServerFrames] /\ d \in 0..ServerFrames
      BY <2>2 DEF d, e, q
    <2>5. Len(partial) < FrameLengthSize /\ want \in 0..(MaxSize + 1)
          /\ (incoming # Nil => Len(incoming) < want)
      <3>1. CASE incoming = Nil
        <4>1. q - e \in 0..(FrameLengthSize - 1) /\ partial = Stream(sizes, e, q) /\ want = 0
          BY <3>1 DEF ReadInv, PlaceInv, d, e, q
        <4>2. e <= q /\ q - e < FrameLengthSize
          BY <4>1, <2>2, <2>4
        <4>3. Len(partial) = q - e
          BY <4>1, <4>2, <2>3, <2>4, StreamFacts
        <4>4. Len(partial) < FrameLengthSize /\ want \in 0..(MaxSize + 1)
          BY <4>1, <4>2, <4>3, SocketsAssumption
        <4> QED BY <4>4, <3>1
      <3>2. CASE incoming # Nil
        <4> DEFINE x == e + FrameLengthSize
        <4>1. /\ partial = <<>> /\ d < ServerFrames /\ want = sizes[d + 1]
              /\ q - e - FrameLengthSize \in 0..(want - 1) /\ incoming = Stream(sizes, x, q)
          BY <3>2 DEF ReadInv, PlaceInv, d, e, q
        <4>2. d + 1 \in 1..ServerFrames
          BY <4>1, <2>2, <2>4
        <4>3. want \in 0..MaxSize
          BY <4>1, <4>2, <2>3, SizeType
        <4>4. x \in Nat /\ x <= q /\ q - x < want /\ want \in 0..(MaxSize + 1)
          BY <4>1, <4>3, <2>2, <2>4, SocketsAssumption
        <4> HIDE DEF x
        <4>5. Len(incoming) = q - x
          BY <4>1, <4>4, <2>3, <2>4, StreamFacts
        <4>6. Len(partial) = 0
          BY <4>1
        <4> QED BY <4>4, <4>5, <4>6, <2>2
      <3> QED BY <3>1, <3>2
    <2>6. lock \in Senders \cup {Nil} /\ writeCounter \in 0..(CounterRange - 1)
          /\ unwritten \cup failed \cup abandoned \subseteq DOMAIN ivs
      <3>1. DOMAIN ivs = 1..Len(ivs)
        BY DEF WriteInv, WriteType
      <3> QED BY <3>1 DEF WriteInv, WriteType, CounterInv
    <2>7. ASSUME NEW s \in Senders
          PROVE  sending[s] \in IF lock = s THEN DOMAIN ivs ELSE {Nil}
      <3>1. DOMAIN ivs = 1..Len(ivs) /\ Len(ivs) \in Nat
        BY DEF WriteInv, WriteType
      <3>2. sending[s] = IF lock = s THEN Len(ivs) ELSE Nil
        BY DEF WriteInv, LockInv
      <3>3. lock = s => Len(ivs) > 0
        BY SocketsAssumption DEF WriteInv, LockInv
      <3>4. CASE lock = s
        <4>1. Len(ivs) \in 1..Len(ivs)
          BY <3>1, <3>3, <3>4
        <4> QED BY <4>1, <3>1, <3>2, <3>4
      <3>5. CASE lock # s
        BY <3>2, <3>5
      <3> QED BY <3>4, <3>5
    <2> QED BY <2>1, <2>3, <2>5, <2>6, <2>7 DEF SocketsTypeOK
  <1> QED BY <1>1, SocketsInvariance, PTL

\* However the stream is cut into websocket messages, the consumer gets exactly
\* the server's frames, in order.
THEOREM FramesExact == SocketsSpec => []FramesAreExact
  <1>1. SocketsIInv => FramesAreExact
    <2> SUFFICES ASSUME ReadInv, NEW i \in 1..Len(handed)
                 PROVE  i <= ServerFrames /\ handed[i] = Payload(i)
      BY DEF SocketsIInv, FramesAreExact
    <2>1. sizes \in Sizes /\ handed[i] = Body(sizes, i)
      BY DEF ReadInv, StreamInv, CutInv
    <2>2. Len(handed) \in Nat /\ ServerFrames \in Nat /\ Cut <= ServerFrames
      BY Where
    <2>3. Len(handed) <= ServerFrames
      BY <2>2 DEF Cut
    <2>4. i \in 1..ServerFrames
      BY <2>2, <2>3
    <2> QED BY <2>1, <2>4, PayloadIsBody
  <1> QED BY <1>1, SocketsInvariance, PTL

\* The frame on the wire at place i has its own number, less one, as counter.
LEMMA WireCounters ==
    ASSUME WriteInv, NEW i \in 1..Len(wire)
    PROVE  wire[i] \in 1..Len(ivs) /\ ivs[wire[i]] = wire[i] - 1 /\ Len(ivs) \in Nat
           /\ Len(wire) \in Nat
  <1>1. wire \in Seq(1..Len(ivs)) /\ Len(ivs) \in Nat /\ Len(wire) \in Nat
    BY DEF WriteInv, WriteType
  <1>2. wire[i] \in 1..Len(ivs)
    BY <1>1, ElementOfSeq
  <1> QED BY <1>1, <1>2 DEF WriteInv, CounterInv

\* No two frames on the wire share a counter, whoever gave up or failed.
THEOREM FreshCounters == SocketsSpec => []CountersAreFresh
  <1>1. SocketsIInv => CountersAreFresh
    <2> SUFFICES ASSUME WriteInv, NEW i \in 1..Len(wire), NEW j \in 1..Len(wire),
                        ivs[wire[i]] = ivs[wire[j]]
                 PROVE  i = j
      BY DEF SocketsIInv, CountersAreFresh
    <2>1. wire[i] = wire[j]
      BY WireCounters
    <2> QED BY <2>1 DEF WriteInv, WireInv
  <1> QED BY <1>1, SocketsInvariance, PTL

\* The first frame the server does not expect comes after one that was given up
\* or failed after its counter was used.
THEOREM InStep == SocketsSpec => []InStepWithServer
  <1>1. SocketsIInv => InStepWithServer
    <2> SUFFICES ASSUME WriteInv, NEW i \in 1..Len(wire),
                        \A j \in 1..(i - 1) : ivs[wire[j]] = j - 1,
                        ivs[wire[i]] # i - 1
                 PROVE  \E n \in abandoned \cup failed : ivs[n] = i - 1
      BY DEF SocketsIInv, InStepWithServer
    <2>1. /\ wire[i] \in 1..Len(ivs) /\ ivs[wire[i]] = wire[i] - 1 /\ Len(ivs) \in Nat
          /\ Len(wire) \in Nat
      BY WireCounters
    <2>2. ASSUME NEW j \in 1..(i - 1) PROVE wire[j] = j /\ j \in 1..Len(wire)
      <3>1. j \in 1..Len(wire)
        BY <2>1
      <3>2. wire[j] \in 1..Len(ivs) /\ ivs[wire[j]] = wire[j] - 1 /\ ivs[wire[j]] = j - 1
        BY <3>1, WireCounters
      <3> QED BY <3>1, <3>2
    <2>3. wire[i] \notin 1..(i - 1)
      <3> SUFFICES ASSUME wire[i] \in 1..(i - 1) PROVE FALSE
        OBVIOUS
      <3>1. wire[wire[i]] = wire[i] /\ wire[i] \in 1..Len(wire)
        BY <2>2
      <3>2. wire[i] = i
        BY <3>1 DEF WriteInv, WireInv
      <3> QED BY <3>2, <2>1
    <2>4. i \in 1..(wire[i] - 1) /\ i \in 1..Len(ivs)
      BY <2>1, <2>3
    <2>5. i \in failed \cup abandoned \/ \E j \in 1..(i - 1) : wire[j] = i
      BY <2>4 DEF WriteInv, WireInv
    <2>6. ~ \E j \in 1..(i - 1) : wire[j] = i
      BY <2>2
    <2>7. ivs[i] = i - 1
      BY <2>4 DEF WriteInv, CounterInv
    <2> QED BY <2>5, <2>6, <2>7
  <1> QED BY <1>1, SocketsInvariance, PTL
=============================================================================
