---------------------------- MODULE RequestProofs ----------------------------
(***************************************************************************)
(* Proofs about RequestWaiters, for any number of requests, connections    *)
(* and ids, shared or not.                                                 *)
(***************************************************************************)
EXTENDS RequestWaiters, TLAPS

-----------------------------------------------------------------------------
(* The inductive invariant                                                 *)

\* A channel nobody has seen yet.
Untouched(ch) ==
    /\ ch \notin closed /\ buf[ch] = "empty"
    /\ \A i \in Ids : waiters[i] # ch
    /\ \A c \in Conns : consumer[c] # ch

\* The channel of an attempt is untouched until the attempt registers it.
FreshChans ==
    \A r \in Requests :
        /\ pc[r] = "start" => Untouched(<<r, 1>>)
        /\ pc[r] \notin {"resending", "reawaiting", "done"} => Untouched(<<r, 2>>)

\* waitResponse files a channel under the id of its own request only.
FiledUnderOwnId ==
    \A i \in Ids, ch \in Chans : waiters[i] = ch => IdOf[ch[1]] = i

\* receiveResponse takes the waiter out of the map.
TakenIsUnregistered ==
    \A c \in Conns, i \in Ids : consumer[c] # NoChan => waiters[i] # consumer[c]

\* While an attempt runs, its channel is open and can still be woken.
Active(r) == pc[r] \in {"registered", "sending", "awaiting", "resending", "reawaiting"}

ActiveIsOpen == \A r \in Requests : Active(r) => Chan(r) \notin closed

Wakeable(r) ==
    \/ waiters[IdOf[r]] = Chan(r)
    \/ buf[Chan(r)] # "empty"
    \/ \E c \in Conns : consumer[c] = Chan(r)
    \/ Chan(r) \in lost

ActiveIsWakeable == \A r \in Requests : Active(r) /\ Unique(r) => Wakeable(r)

\* Every open websocket is the client's socket, and a connection whose
\* callback is to run has been closed.
OpenIsSocket ==
    /\ socket <= dialed
    /\ \A c \in open : c = socket
    /\ \A c \in dropping : c <= dialed /\ c \notin open

WaiterInv == RegisteredIsReady /\ FreshChans /\ FiledUnderOwnId /\ TakenIsUnregistered /\ ActiveIsOpen

IInv == TypeOK /\ WaiterInv /\ ActiveIsWakeable /\ OpenIsSocket /\ NoWaitOnDeadSocket

-----------------------------------------------------------------------------
(* Channels                                                                *)

\* The channels of two attempts are different.
LEMMA ChansDiffer ==
    ASSUME NEW r \in Requests, NEW q \in Requests, NEW n \in {1, 2}, NEW m \in {1, 2}
    PROVE  /\ <<r, n>> \in Chans /\ <<r, n>> # NoChan
           /\ <<r, n>> = <<q, m>> => r = q /\ n = m
           /\ <<r, n>>[1] = r
BY RequestAssumption DEF Chans

\* The channel a request uses is the one of the attempt it is in.
LEMMA ChanOfAttempt ==
    ASSUME NEW r \in Requests
    PROVE  /\ Chan(r) \in Chans /\ Chan(r) # NoChan /\ Chan(r)[1] = r
           /\ pc[r] \in {"resending", "reawaiting"} => Chan(r) = <<r, 2>>
           /\ pc[r] \notin {"resending", "reawaiting"} => Chan(r) = <<r, 1>>
           /\ \A q \in Requests, n \in {1, 2} : Chan(r) = <<q, n>> => q = r
           /\ \A q \in Requests : Chan(r) = Chan(q) => q = r
BY RequestAssumption DEF Chan, Attempt, Chans

\* What an operation of responseWaiters leaves alone stays untouched.
LEMMA UntouchedByCancel ==
    ASSUME TypeOK, NEW r \in Requests, NEW ch \in Chans, ch # Chan(r),
           Untouched(ch), cancelResponse(r), UNCHANGED consumer
    PROVE  Untouched(ch)'
BY RequestAssumption, ChanOfAttempt DEF TypeOK, Untouched, cancelResponse

\* waitResponse only changes the map.
LEMMA UntouchedByWait ==
    ASSUME TypeOK, NEW r \in Requests, NEW n \in {1, 2}, NEW ch \in Chans, ch # <<r, n>>,
           Untouched(ch), waitResponse(r, n), UNCHANGED consumer
    PROVE  Untouched(ch)'
BY RequestAssumption DEF TypeOK, Untouched, waitResponse

\* clearResponseWaiters changes the channels, the map and nothing else.
LEMMA UntouchedByClear ==
    ASSUME TypeOK, NEW node, NEW ch \in Chans,
           Untouched(ch), clearResponseWaiters(node), UNCHANGED consumer
    PROVE  Untouched(ch)'
BY RequestAssumption DEF TypeOK, Untouched, clearResponseWaiters, Registered

-----------------------------------------------------------------------------
(* The type invariant                                                      *)

\* The initial state is well typed.
LEMMA TypeInit == Init => TypeOK
<1>1. Init => panicked \in BOOLEAN
    BY Zenon DEF Init
<1>2. QED
    BY <1>1, RequestAssumption DEF Init, TypeOK, Conns, Steps

\* cancelResponse keeps the waiters and the channels well typed.
LEMMA TypeCancel ==
    ASSUME TypeOK, NEW r \in Requests, cancelResponse(r)
    PROVE  /\ waiters' \in [Ids -> Chans \cup {NoChan}]
           /\ buf' \in [Chans -> {"empty", "answer", "end", "auth"}]
           /\ closed' \subseteq Chans /\ panicked' \in BOOLEAN
<1>1. panicked' \in BOOLEAN
    BY Zenon DEF TypeOK, cancelResponse
<1>2. QED
    BY <1>1, ChanOfAttempt DEF TypeOK, cancelResponse

\* clearResponseWaiters keeps the waiters and the channels well typed.
LEMMA TypeClear ==
    ASSUME TypeOK, NEW node \in {"end", "auth"}, clearResponseWaiters(node)
    PROVE  /\ waiters' \in [Ids -> Chans \cup {NoChan}]
           /\ buf' \in [Chans -> {"empty", "answer", "end", "auth"}]
           /\ closed' \subseteq Chans /\ panicked' \in BOOLEAN
<1>1. panicked' \in BOOLEAN
    BY Zenon DEF TypeOK, clearResponseWaiters
<1>2. QED
    BY <1>1 DEF TypeOK, clearResponseWaiters, Registered

\* Every step of a request, the consumer or the connection is well typed.
LEMMA TypeStep == TypeOK /\ [Next]_vars => TypeOK'
<1> SUFFICES ASSUME TypeOK, [Next]_vars PROVE TypeOK'
    OBVIOUS
<1> USE RequestAssumption DEF TypeOK, Conns, Steps, chans, conn, Goto
<1>1. ASSUME NEW r \in Requests, Register(r) PROVE TypeOK'
    BY <1>1, ChansDiffer DEF Register, waitResponse
<1>2. ASSUME NEW r \in Requests, PickSocket(r) PROVE TypeOK'
    <2>1. CASE socket = 0
        BY <1>2, <2>1, TypeCancel DEF PickSocket
    <2>2. CASE socket # 0
        BY <1>2, <2>2 DEF PickSocket
    <2>3. QED BY <2>1, <2>2
<1>3. ASSUME NEW r \in Requests, SendFrame(r) PROVE TypeOK'
    <2>1. asked' \in [Conns -> SUBSET Ids]
        BY <1>3 DEF SendFrame, Written
    <2>2. CASE cancelResponse(r)
        BY <1>3, <2>1, <2>2, TypeCancel DEF SendFrame
    <2>3. CASE UNCHANGED chans
        BY <1>3, <2>1, <2>3 DEF SendFrame
    <2>4. QED BY <1>3, <2>2, <2>3 DEF SendFrame
<1>4. ASSUME NEW r \in Requests, Receive(r) PROVE TypeOK'
    BY <1>4, ChanOfAttempt DEF Receive
<1>5. ASSUME NEW r \in Requests, GiveUp(r) PROVE TypeOK'
    <2>1. CASE cancelResponse(r)
        BY <1>5, <2>1, TypeCancel DEF GiveUp
    <2>2. CASE UNCHANGED chans
        BY <1>5, <2>2 DEF GiveUp
    <2>3. QED BY <1>5, <2>1, <2>2 DEF GiveUp
<1>6. ASSUME NEW r \in Requests, WaitForConnection(r) PROVE TypeOK'
    BY <1>6 DEF WaitForConnection
<1>7. ASSUME NEW r \in Requests, RepickSocket(r) PROVE TypeOK'
    BY <1>7 DEF RepickSocket
<1>8. ASSUME NEW r \in Requests, Reregister(r) PROVE TypeOK'
    BY <1>8, ChansDiffer DEF Reregister, waitResponse
<1>9. ASSUME NEW r \in Requests, ReceiveRetry(r) PROVE TypeOK'
    BY <1>9, ChanOfAttempt DEF ReceiveRetry
<1>10. ASSUME NEW r \in Requests, RetryTimesOut(r) \/ RetryContextEnds(r) PROVE TypeOK'
    BY <1>10 DEF RetryTimesOut, RetryContextEnds
<1>11. ASSUME NEW c \in Conns, TakeWaiter(c) PROVE TypeOK'
    BY <1>11 DEF TakeWaiter
<1>12. ASSUME NEW c \in Conns, DeliverResponse(c) PROVE TypeOK'
    <2>1. panicked' \in BOOLEAN
        BY <1>12, Zenon DEF DeliverResponse
    <2>2. consumer[c] \in Chans /\ lost' \subseteq Chans
        BY <1>12 DEF DeliverResponse
    <2>3. QED BY <1>12, <2>1, <2>2 DEF DeliverResponse
<1>13. ASSUME NEW c \in Conns, RemoteClose(c) PROVE TypeOK'
    BY <1>13 DEF RemoteClose
<1>14. ASSUME NEW c \in Conns, onDisconnect(c) PROVE TypeOK'
    BY <1>14, TypeClear DEF onDisconnect
<1>15. CASE Connect
    BY <1>15, TypeClear DEF Connect
<1>16. CASE unlockedDisconnect
    BY <1>16, TypeClear DEF unlockedDisconnect
<1>17. CASE ResetConnection
    BY <1>17, TypeClear DEF ResetConnection
<1>18. CASE handleStreamError
    BY <1>18, TypeClear DEF handleStreamError
<1>19. CASE UNCHANGED vars
    BY <1>19 DEF vars
<1>20. QED
    BY <1>1, <1>2, <1>3, <1>4, <1>5, <1>6, <1>7, <1>8, <1>9, <1>10, <1>11, <1>12, <1>13,
       <1>14, <1>15, <1>16, <1>17, <1>18, <1>19 DEF Next, Request, Consumer

-----------------------------------------------------------------------------
(* WaiterInv is preserved by what requests, consumers and disconnects do   *)
(* with channels.                                                          *)

\* Initially no channel is registered, taken or closed.
LEMMA WaiterInit == Init => WaiterInv
<1> SUFFICES ASSUME Init PROVE WaiterInv
    OBVIOUS
<1>1. \A ch \in Chans : Untouched(ch)
    BY RequestAssumption DEF Init, Untouched
<1>2. FreshChans
    BY <1>1, ChansDiffer DEF FreshChans
<1>3. QED
    BY <1>2, RequestAssumption
       DEF Init, WaiterInv, RegisteredIsReady, FiledUnderOwnId, TakenIsUnregistered,
           ActiveIsOpen, Active

\* The channel of a request that does not move is the same after the step.
LEMMA ChanStays == ASSUME NEW r \in Requests, pc'[r] = pc[r] PROVE Chan(r)' = Chan(r)
BY DEF Chan, Attempt

\* A request that cancels its waiter ends.
LEMMA WaiterCancel ==
    ASSUME TypeOK, WaiterInv, NEW r \in Requests, Active(r), cancelResponse(r),
           Goto(r, "done"), UNCHANGED consumer
    PROVE  WaiterInv'
<1>1. \A q \in Requests : q # r => pc'[q] = pc[q] /\ Chan(q)' = Chan(q)
    BY ChanStays DEF TypeOK, Goto
<1>2. pc'[r] = "done"
    BY DEF TypeOK, Goto
<1>3. RegisteredIsReady'
    BY ChanOfAttempt, RequestAssumption
       DEF TypeOK, WaiterInv, RegisteredIsReady, FiledUnderOwnId, cancelResponse
<1>4. FreshChans'
    <2>1. ASSUME NEW q \in Requests, q # r, NEW n \in {1, 2}, Untouched(<<q, n>>)
          PROVE  Untouched(<<q, n>>)'
        <3>1. <<q, n>> \in Chans /\ <<q, n>> # Chan(r)
            BY <2>1, ChanOfAttempt, ChansDiffer
        <3>2. QED BY <2>1, <3>1, UntouchedByCancel
    <2>2. QED BY <1>1, <1>2, <2>1 DEF WaiterInv, FreshChans
<1>5. FiledUnderOwnId' /\ TakenIsUnregistered'
    BY RequestAssumption
       DEF TypeOK, WaiterInv, FiledUnderOwnId, TakenIsUnregistered, cancelResponse
<1>6. ActiveIsOpen'
    BY <1>1, <1>2, ChanOfAttempt DEF WaiterInv, ActiveIsOpen, Active, cancelResponse
<1>7. QED
    BY <1>3, <1>4, <1>5, <1>6 DEF WaiterInv

\* A request registers the channel of a new attempt.
LEMMA WaiterWait ==
    ASSUME TypeOK, WaiterInv, NEW r \in Requests, NEW n \in {1, 2},
           n = 1 => pc[r] = "start" /\ pc'[r] = "registered",
           n = 2 => pc[r] = "reregister" /\ pc'[r] = "resending",
           \A q \in Requests : q # r => pc'[q] = pc[q],
           waitResponse(r, n), UNCHANGED consumer
    PROVE  WaiterInv'
<1>1. \A q \in Requests : q # r => Chan(q)' = Chan(q)
    BY ChanStays
<1>2. Untouched(<<r, n>>)
    BY DEF WaiterInv, FreshChans
<1>3. Chan(r)' = <<r, n>>
    BY DEF Chan, Attempt
<1>4. RegisteredIsReady'
    BY <1>2 DEF TypeOK, WaiterInv, RegisteredIsReady, Untouched, waitResponse
<1>5. FreshChans'
    <2>1. ASSUME NEW q \in Requests, NEW m \in {1, 2}, q # r \/ m # n, Untouched(<<q, m>>)
          PROVE  Untouched(<<q, m>>)'
        <3>1. <<q, m>> \in Chans /\ <<q, m>> # <<r, n>>
            BY <2>1, ChansDiffer
        <3>2. QED BY <2>1, <3>1, UntouchedByWait
    <2>2. QED BY <2>1 DEF WaiterInv, FreshChans
<1>6. FiledUnderOwnId'
    BY ChansDiffer, RequestAssumption DEF TypeOK, WaiterInv, FiledUnderOwnId, waitResponse
<1>7. TakenIsUnregistered'
    BY <1>2, ChansDiffer DEF TypeOK, WaiterInv, TakenIsUnregistered, Untouched, waitResponse
<1>8. ActiveIsOpen'
    BY <1>1, <1>2, <1>3 DEF WaiterInv, ActiveIsOpen, Active, Untouched, waitResponse
<1>9. QED
    BY <1>4, <1>5, <1>6, <1>7, <1>8 DEF WaiterInv

\* A request moves on within its attempt, or ends, having at most emptied its
\* channel.
LEMMA WaiterMove ==
    ASSUME TypeOK, WaiterInv, NEW r \in Requests, NEW step \in Steps, Goto(r, step),
           step # "start",
           step \in {"resending", "reawaiting"} => pc[r] \in {"resending", "reawaiting"},
           step \notin {"resending", "reawaiting", "done"} =>
               pc[r] \notin {"resending", "reawaiting", "done"},
           step \in {"registered", "sending", "awaiting", "resending", "reawaiting"} => Active(r),
           buf' = buf \/ buf' = [buf EXCEPT ![Chan(r)] = "empty"],
           UNCHANGED <<waiters, closed, consumer>>
    PROVE  WaiterInv'
<1>1. /\ pc'[r] = step
      /\ \A q \in Requests : q # r => pc'[q] = pc[q] /\ Chan(q)' = Chan(q)
    BY ChanStays DEF TypeOK, Goto
<1>2. ASSUME NEW ch \in Chans PROVE buf'[ch] = buf[ch] \/ buf'[ch] = "empty"
    BY ChanOfAttempt DEF TypeOK
<1>3. ASSUME NEW ch \in Chans, Untouched(ch) PROVE Untouched(ch)'
    BY <1>2, <1>3 DEF Untouched
<1>4. RegisteredIsReady' /\ FiledUnderOwnId' /\ TakenIsUnregistered'
    BY <1>2 DEF TypeOK, WaiterInv, RegisteredIsReady, FiledUnderOwnId, TakenIsUnregistered
<1>5. FreshChans'
    BY <1>1, <1>3, ChansDiffer DEF WaiterInv, FreshChans
<1>6. Active(r)' => Active(r) /\ Chan(r)' = Chan(r)
    BY <1>1 DEF Active, Chan, Attempt
<1>7. ActiveIsOpen'
    BY <1>1, <1>6 DEF WaiterInv, ActiveIsOpen, Active
<1>8. QED
    BY <1>4, <1>5, <1>7 DEF WaiterInv

\* clearResponseWaiters finds only empty channels, so it closes none.
LEMMA WaiterClear ==
    ASSUME TypeOK, WaiterInv, NEW node, clearResponseWaiters(node), UNCHANGED <<pc, consumer>>
    PROVE  WaiterInv'
<1>1. closed' = closed
    <2>1. {ch \in Registered : buf[ch] # "empty"} = {}
        BY RequestAssumption DEF WaiterInv, RegisteredIsReady, Registered
    <2>2. QED BY <2>1 DEF clearResponseWaiters
<1>2. waiters' = [i \in Ids |-> NoChan]
    BY DEF clearResponseWaiters
<1>3. FreshChans'
    BY ChansDiffer, UntouchedByClear DEF WaiterInv, FreshChans
<1>4. RegisteredIsReady' /\ FiledUnderOwnId' /\ TakenIsUnregistered'
    BY <1>2, RequestAssumption DEF RegisteredIsReady, FiledUnderOwnId, TakenIsUnregistered, TypeOK
<1>5. ActiveIsOpen'
    BY <1>1, ChanStays DEF WaiterInv, ActiveIsOpen, Active
<1>6. QED
    BY <1>3, <1>4, <1>5 DEF WaiterInv

\* The consumer of a connection.
LEMMA WaiterTake ==
    ASSUME TypeOK, WaiterInv, NEW c \in Conns, TakeWaiter(c)
    PROVE  WaiterInv'
<1>1. PICK i \in asked[c] : /\ consumer' = [consumer EXCEPT ![c] = waiters[i]]
                            /\ waiters' = [waiters EXCEPT ![i] = NoChan]
    BY DEF TakeWaiter
<1>2. i \in Ids
    BY DEF TypeOK
<1>3. ASSUME NEW ch \in Chans, Untouched(ch) PROVE Untouched(ch)'
    BY <1>1, <1>2, <1>3, RequestAssumption DEF Untouched, TypeOK, TakeWaiter
<1>4. FreshChans'
    BY <1>3, ChansDiffer DEF WaiterInv, FreshChans, TakeWaiter
<1>5. RegisteredIsReady' /\ FiledUnderOwnId'
    BY <1>1, <1>2, RequestAssumption
       DEF TypeOK, WaiterInv, RegisteredIsReady, FiledUnderOwnId, TakeWaiter
<1>6. TakenIsUnregistered'
    BY <1>1, <1>2, RequestAssumption DEF TypeOK, WaiterInv, TakenIsUnregistered, FiledUnderOwnId
<1>7. ActiveIsOpen'
    BY ChanStays DEF WaiterInv, ActiveIsOpen, Active, TakeWaiter
<1>8. QED
    BY <1>4, <1>5, <1>6, <1>7 DEF WaiterInv

\* The consumer sends the response to the channel it took.
LEMMA WaiterDeliver ==
    ASSUME TypeOK, WaiterInv, NEW c \in Conns, DeliverResponse(c)
    PROVE  WaiterInv'
<1>1. consumer[c] \in Chans /\ \A i \in Ids : waiters[i] # consumer[c]
    BY DEF TypeOK, WaiterInv, TakenIsUnregistered, DeliverResponse
<1>2. \A ch \in Chans : ch # consumer[c] => buf'[ch] = buf[ch]
    BY DEF TypeOK, DeliverResponse
<1>3. /\ UNCHANGED <<waiters, closed, pc>>
      /\ \A d \in Conns : consumer'[d] = consumer[d] \/ consumer'[d] = NoChan
    BY DEF TypeOK, DeliverResponse
<1>4. ASSUME NEW ch \in Chans, Untouched(ch) PROVE Untouched(ch)'
    BY <1>1, <1>2, <1>3, <1>4, RequestAssumption DEF Untouched, TypeOK
<1>5. FreshChans'
    BY <1>3, <1>4, ChansDiffer DEF WaiterInv, FreshChans
<1>6. RegisteredIsReady' /\ FiledUnderOwnId' /\ TakenIsUnregistered'
    BY <1>1, <1>2, <1>3
       DEF TypeOK, WaiterInv, RegisteredIsReady, FiledUnderOwnId, TakenIsUnregistered
<1>7. ActiveIsOpen'
    BY <1>3, ChanStays DEF WaiterInv, ActiveIsOpen, Active
<1>8. QED
    BY <1>5, <1>6, <1>7 DEF WaiterInv

\* Every step keeps the map, the consumers and the channels consistent.
LEMMA WaiterStep == TypeOK /\ WaiterInv /\ [Next]_vars => WaiterInv'
<1> SUFFICES ASSUME TypeOK, WaiterInv, [Next]_vars PROVE WaiterInv'
    OBVIOUS
<1> USE DEF chans, conn
<1>1. ASSUME NEW r \in Requests, Register(r) PROVE WaiterInv'
    BY <1>1, WaiterWait DEF Register, Goto, TypeOK
<1>2. ASSUME NEW r \in Requests, PickSocket(r) PROVE WaiterInv'
    <2>1. CASE socket = 0
        BY <1>2, <2>1, WaiterCancel DEF PickSocket, Active
    <2>2. CASE socket # 0
        BY <1>2, <2>2, WaiterMove DEF PickSocket, Active, Steps
    <2>3. QED BY <2>1, <2>2
<1>3. ASSUME NEW r \in Requests, SendFrame(r) PROVE WaiterInv'
    <2>1. CASE cancelResponse(r) /\ Goto(r, "done")
        BY <1>3, <2>1, WaiterCancel DEF SendFrame, Active
    <2>2. CASE UNCHANGED chans /\ Goto(r, "awaiting") /\ pc[r] = "sending"
        BY <1>3, <2>2, WaiterMove DEF SendFrame, Active, Steps
    <2>3. CASE UNCHANGED chans /\ Goto(r, "reawaiting") /\ pc[r] = "resending"
        BY <1>3, <2>3, WaiterMove DEF SendFrame, Active, Steps
    <2>4. QED BY <1>3, <2>1, <2>2, <2>3 DEF SendFrame
<1>4. ASSUME NEW r \in Requests, Receive(r) PROVE WaiterInv'
    BY <1>4, WaiterMove DEF Receive, Active, Steps
<1>5. ASSUME NEW r \in Requests, GiveUp(r) PROVE WaiterInv'
    <2>1. CASE Kind[r] = "message"
        BY <1>5, <2>1, WaiterCancel DEF GiveUp, Active
    <2>2. CASE Kind[r] # "message"
        BY <1>5, <2>2, WaiterMove DEF GiveUp, Active, Steps
    <2>3. QED BY <2>1, <2>2
<1>6. ASSUME NEW r \in Requests, WaitForConnection(r) PROVE WaiterInv'
    BY <1>6, WaiterMove DEF WaitForConnection, Active, Steps
<1>7. ASSUME NEW r \in Requests, RepickSocket(r) PROVE WaiterInv'
    BY <1>7, WaiterMove DEF RepickSocket, Active, Steps
<1>8. ASSUME NEW r \in Requests, Reregister(r) PROVE WaiterInv'
    BY <1>8, WaiterWait DEF Reregister, Goto, TypeOK
<1>9. ASSUME NEW r \in Requests, ReceiveRetry(r) PROVE WaiterInv'
    BY <1>9, WaiterMove DEF ReceiveRetry, Active, Steps
<1>10. ASSUME NEW r \in Requests, RetryTimesOut(r) \/ RetryContextEnds(r) PROVE WaiterInv'
    BY <1>10, WaiterMove DEF RetryTimesOut, RetryContextEnds, Active, Steps
<1>11. ASSUME NEW c \in Conns, Consumer(c) PROVE WaiterInv'
    BY <1>11, WaiterTake, WaiterDeliver DEF Consumer
<1>12. ASSUME UNCHANGED <<chans, pc, consumer>> PROVE WaiterInv'
    BY <1>12, ChanStays
       DEF WaiterInv, RegisteredIsReady, FreshChans, Untouched, FiledUnderOwnId,
           TakenIsUnregistered, ActiveIsOpen, Active
<1>13. ASSUME NEW c \in Conns, RemoteClose(c) \/ onDisconnect(c) PROVE WaiterInv'
    BY <1>12, <1>13, WaiterClear DEF RemoteClose, onDisconnect
<1>14. CASE Connect
    BY <1>12, <1>14, WaiterClear DEF Connect
<1>15. CASE unlockedDisconnect \/ ResetConnection \/ handleStreamError
    BY <1>15, WaiterClear DEF unlockedDisconnect, ResetConnection, handleStreamError
<1>16. CASE UNCHANGED vars
    BY <1>12, <1>16 DEF vars
<1>17. QED
    BY <1>1, <1>2, <1>3, <1>4, <1>5, <1>6, <1>7, <1>8, <1>9, <1>10, <1>11, <1>13, <1>14,
       <1>15, <1>16 DEF Next, Request

-----------------------------------------------------------------------------
(* Whoever waits can be woken, and waits on the client's own socket.       *)

\* Requests other than the one that moves, when its id is not theirs.
LEMMA OthersWakeable ==
    ASSUME TypeOK, NEW r \in Requests, NEW q \in Requests, q # r, Unique(q), Wakeable(q),
           pc'[q] = pc[q], UNCHANGED <<consumer, lost>>,
           \/ waitResponse(r, 1) \/ waitResponse(r, 2) \/ cancelResponse(r)
           \/ UNCHANGED <<waiters, buf>>
           \/ UNCHANGED waiters /\ buf' = [buf EXCEPT ![Chan(r)] = "empty"]
    PROVE  Wakeable(q)'
<1>1. Chan(q)' = Chan(q) /\ Chan(q) \in Chans /\ Chan(q) # Chan(r) /\ Chan(r) \in Chans
    BY ChanStays, ChanOfAttempt
<1>2. IdOf[q] # IdOf[r] /\ IdOf[q] \in Ids
    BY RequestAssumption DEF Unique
<1>3. waiters'[IdOf[q]] = waiters[IdOf[q]]
    BY <1>2 DEF TypeOK, waitResponse, cancelResponse
<1>4. buf'[Chan(q)] = buf[Chan(q)]
    BY <1>1 DEF TypeOK, waitResponse, cancelResponse
<1>5. QED
    BY <1>1, <1>3, <1>4 DEF Wakeable

\* A request that registers, sends or moves on leaves the others wakeable.
LEMMA WakeableRequest ==
    ASSUME TypeOK, ActiveIsWakeable, NEW r \in Requests, Request(r)
    PROVE  ActiveIsWakeable'
<1>1. ASSUME NEW q \in Requests, q # r PROVE pc'[q] = pc[q]
    BY <1>1 DEF TypeOK, Request, Register, PickSocket, SendFrame, Receive, GiveUp, WaitForConnection,
           RepickSocket, Reregister, ReceiveRetry, RetryTimesOut, RetryContextEnds, Goto
<1>2. /\ UNCHANGED <<consumer, lost>>
      /\ \/ waitResponse(r, 1) \/ waitResponse(r, 2) \/ cancelResponse(r)
         \/ UNCHANGED <<waiters, buf>>
         \/ UNCHANGED waiters /\ buf' = [buf EXCEPT ![Chan(r)] = "empty"]
    BY DEF Request, Register, PickSocket, SendFrame, Receive, GiveUp, WaitForConnection,
           RepickSocket, Reregister, ReceiveRetry, RetryTimesOut, RetryContextEnds, chans
<1>3. ASSUME NEW q \in Requests, q # r, Active(q)', Unique(q) PROVE Wakeable(q)'
    BY <1>1, <1>2, <1>3, OthersWakeable DEF ActiveIsWakeable, Active, Wakeable
<1>4. ASSUME Active(r)', Unique(r) PROVE Wakeable(r)'
    <2> USE <1>4 DEF Active, Goto, TypeOK, chans
    <2>1. CASE Register(r) \/ Reregister(r)
        BY <2>1, RequestAssumption DEF Register, Reregister, waitResponse, Wakeable, Chan, Attempt
    <2>2. CASE PickSocket(r) \/ SendFrame(r)
        <3>1. Active(r) /\ UNCHANGED <<waiters, buf, consumer, lost>> /\ Chan(r)' = Chan(r)
            BY <2>2 DEF PickSocket, SendFrame, Chan, Attempt
        <3>2. QED BY <3>1 DEF ActiveIsWakeable, Wakeable
    <2>3. QED
        BY <2>1, <2>2 DEF Request, Receive, GiveUp, WaitForConnection, RepickSocket,
                          ReceiveRetry, RetryTimesOut, RetryContextEnds
<1>5. QED
    BY <1>3, <1>4 DEF ActiveIsWakeable, Wakeable, Unique

\* A disconnect wakes every registered request.
LEMMA WakeableClear ==
    ASSUME TypeOK, ActiveIsWakeable, NEW node \in {"end", "auth"}, clearResponseWaiters(node),
           UNCHANGED <<pc, consumer, lost>>
    PROVE  ActiveIsWakeable'
<1> SUFFICES ASSUME NEW q \in Requests, Active(q)', Unique(q) PROVE Wakeable(q)'
    BY DEF ActiveIsWakeable, Wakeable, Unique
<1>1. Wakeable(q) /\ Chan(q)' = Chan(q) /\ Chan(q) \in Chans /\ IdOf[q] \in Ids
    BY ChanStays, ChanOfAttempt, RequestAssumption DEF ActiveIsWakeable, Wakeable, Active
<1>2. CASE waiters[IdOf[q]] = Chan(q)
    BY <1>1, <1>2 DEF clearResponseWaiters, Registered, Wakeable
<1>3. CASE buf[Chan(q)] # "empty"
    BY <1>1, <1>3 DEF clearResponseWaiters, Wakeable
<1>4. QED
    BY <1>1, <1>2, <1>3 DEF Wakeable

\* A response taken from the map still wakes its request.
LEMMA WakeableConsumer ==
    ASSUME TypeOK, WaiterInv, ActiveIsWakeable, NEW c \in Conns, Consumer(c)
    PROVE  ActiveIsWakeable'
<1> SUFFICES ASSUME NEW q \in Requests, Active(q)', Unique(q) PROVE Wakeable(q)'
    BY DEF ActiveIsWakeable, Wakeable, Unique
<1>1. UNCHANGED pc
    BY DEF Consumer, TakeWaiter, DeliverResponse
<1>2. /\ Wakeable(q) /\ Active(q) /\ Chan(q)' = Chan(q) /\ IdOf[q] \in Ids
      /\ Chan(q) \in Chans /\ Chan(q) # NoChan
    BY <1>1, ChanStays, ChanOfAttempt, RequestAssumption DEF ActiveIsWakeable, Wakeable, Active
<1>3. CASE TakeWaiter(c)
    <2>1. PICK i \in asked[c] : /\ consumer' = [consumer EXCEPT ![c] = waiters[i]]
                                /\ waiters' = [waiters EXCEPT ![i] = NoChan]
        BY <1>3 DEF TakeWaiter
    <2>2. i \in Ids
        BY DEF TypeOK
    <2>3. consumer[c] = NoChan /\ buf' = buf /\ lost' = lost
        BY <1>3 DEF TakeWaiter
    <2>4. CASE waiters[IdOf[q]] = Chan(q) /\ i = IdOf[q]
        BY <1>2, <2>1, <2>2, <2>4 DEF TypeOK, Wakeable
    <2>5. CASE ~(waiters[IdOf[q]] = Chan(q) /\ i = IdOf[q])
        BY <1>2, <2>1, <2>2, <2>3, <2>5 DEF TypeOK, Wakeable
    <2>6. QED BY <2>4, <2>5
<1>4. CASE DeliverResponse(c)
    <2>1. CASE consumer[c] = Chan(q)
        BY <1>2, <1>4, <2>1 DEF DeliverResponse, WaiterInv, ActiveIsOpen, Wakeable, TypeOK
    <2>2. CASE consumer[c] # Chan(q)
        BY <1>2, <1>4, <2>2 DEF DeliverResponse, Wakeable, TypeOK
    <2>3. QED BY <2>1, <2>2
<1>5. QED
    BY <1>3, <1>4 DEF Consumer

\* No step leaves a registered request behind on a retired socket.
LEMMA SocketInv ==
    ASSUME TypeOK, WaiterInv, OpenIsSocket, NoWaitOnDeadSocket, [Next]_vars
    PROVE  OpenIsSocket' /\ NoWaitOnDeadSocket'
<1> USE DEF chans, conn
\* Nobody is left registered by clearResponseWaiters.
<1>1. ASSUME NEW node, clearResponseWaiters(node) PROVE NoWaitOnDeadSocket'
    <2>1. \A i \in Ids : waiters'[i] = NoChan
        BY <1>1 DEF clearResponseWaiters
    <2>2. \A q \in Requests : Chan(q)' # NoChan
        BY RequestAssumption DEF Chan, Attempt, Chans
    <2>3. \A q \in Requests : IdOf[q] \in Ids
        BY RequestAssumption
    <2>4. QED BY <2>1, <2>2, <2>3 DEF NoWaitOnDeadSocket
\* A request that neither is sent nor registers keeps what it had.
<1>2. ASSUME UNCHANGED conn,
             \A i \in Ids : waiters'[i] # NoChan => waiters'[i] = waiters[i],
             \A q \in Requests : Waiting(q)' =>
                 Waiting(q) /\ using'[q] = using[q] /\ Chan(q)' = Chan(q)
      PROVE  NoWaitOnDeadSocket'
    BY <1>2, ChanOfAttempt, RequestAssumption DEF NoWaitOnDeadSocket
<1>3. ASSUME NEW r \in Requests, Request(r) PROVE OpenIsSocket' /\ NoWaitOnDeadSocket'
    <2>1. UNCHANGED conn
        BY <1>3 DEF Request, Register, PickSocket, SendFrame, Receive, GiveUp, WaitForConnection,
               RepickSocket, Reregister, ReceiveRetry, RetryTimesOut, RetryContextEnds
    <2>2. ASSUME NEW q \in Requests, q # r
          PROVE  pc'[q] = pc[q] /\ using'[q] = using[q] /\ Chan(q)' = Chan(q)
        <3>1. pc'[q] = pc[q] /\ using'[q] = using[q]
            BY <1>3, <2>2
               DEF Request, Register, PickSocket, SendFrame, Receive, GiveUp, WaitForConnection,
                   RepickSocket, Reregister, ReceiveRetry, RetryTimesOut, RetryContextEnds,
                   Goto, TypeOK
        <3>2. QED BY <3>1, ChanStays
    <2>3. ASSUME NEW q \in Requests, Waiting(q)', waiters'[IdOf[q]] = Chan(q)'
          PROVE  using'[q] = socket /\ (socket \in open \/ socket \in dropping)
        <3>1. CASE q = r
            <4>1. SendFrame(r) /\ using[r] \in open /\ using' = using
                BY <1>3, <2>3, <3>1
                   DEF Request, Register, PickSocket, SendFrame, Receive, GiveUp,
                       WaitForConnection, RepickSocket, Reregister, ReceiveRetry,
                       RetryTimesOut, RetryContextEnds, Goto, Waiting, TypeOK
            <4>2. QED BY <3>1, <4>1 DEF OpenIsSocket
        <3>2. CASE q # r
            <4>1. waiters[IdOf[q]] = Chan(q)
                BY <1>3, <2>2, <2>3, <3>2, ChanOfAttempt, ChansDiffer, RequestAssumption
                   DEF Request, Register, PickSocket, SendFrame, Receive, GiveUp,
                       WaitForConnection, RepickSocket, Reregister, ReceiveRetry,
                       RetryTimesOut, RetryContextEnds, waitResponse, cancelResponse, TypeOK
            <4>2. QED BY <2>2, <2>3, <3>2, <4>1 DEF NoWaitOnDeadSocket, Waiting
        <3>3. QED BY <3>1, <3>2
    <2>4. QED BY <2>1, <2>3 DEF OpenIsSocket, NoWaitOnDeadSocket
<1>4. ASSUME NEW c \in Conns, Consumer(c) PROVE OpenIsSocket' /\ NoWaitOnDeadSocket'
    BY <1>2, <1>4, ChanStays DEF OpenIsSocket, Consumer, TakeWaiter, DeliverResponse, TypeOK, Waiting
<1>5. ASSUME NEW c \in Conns, RemoteClose(c) PROVE OpenIsSocket' /\ NoWaitOnDeadSocket'
    BY <1>5, ChanStays DEF OpenIsSocket, RemoteClose, NoWaitOnDeadSocket, Waiting
<1>6. ASSUME NEW c \in Conns, onDisconnect(c) PROVE OpenIsSocket' /\ NoWaitOnDeadSocket'
    <2>1. CASE socket = c
        BY <1>1, <1>6, <2>1 DEF OpenIsSocket, onDisconnect, TypeOK
    <2>2. CASE socket # c
        BY <1>6, <2>2, ChanStays DEF OpenIsSocket, onDisconnect, NoWaitOnDeadSocket, Waiting
    <2>3. QED BY <2>1, <2>2
<1>7. CASE Connect
    <2>1. open = {} /\ \A c \in dropping : c <= dialed /\ c # dialed + 1
        BY <1>7 DEF OpenIsSocket, Connect, TypeOK, Conns
    <2>2. CASE socket = 0
        <3>1. socket \notin open /\ socket \notin dropping
            BY <2>2, RequestAssumption DEF TypeOK, Conns
        <3>2. UNCHANGED <<waiters, pc>>
            BY <1>7, <2>2 DEF OpenIsSocket, Connect
        <3>3. NoWaitOnDeadSocket'
            BY <3>1, <3>2, ChanStays DEF NoWaitOnDeadSocket, Waiting
        <3>4. QED BY <1>7, <2>1, <3>3 DEF OpenIsSocket, Connect, TypeOK, Conns
    <2>3. CASE socket # 0
        BY <1>1, <1>7, <2>1, <2>3 DEF OpenIsSocket, Connect, TypeOK, Conns
    <2>4. QED BY <2>2, <2>3
<1>8. CASE unlockedDisconnect \/ ResetConnection \/ handleStreamError
    BY <1>1, <1>8 DEF OpenIsSocket, unlockedDisconnect, ResetConnection, handleStreamError, TypeOK
<1>9. CASE UNCHANGED vars
    BY <1>2, <1>9, ChanStays DEF OpenIsSocket, vars, Waiting
<1>10. QED
    BY <1>3, <1>4, <1>5, <1>6, <1>7, <1>8, <1>9 DEF Next

-----------------------------------------------------------------------------
(* The theorems                                                            *)

\* The inductive invariant holds initially.
LEMMA IInvInit == Init => IInv
<1>1. Init => ActiveIsWakeable /\ OpenIsSocket /\ NoWaitOnDeadSocket
    BY DEF Init, ActiveIsWakeable, Active, OpenIsSocket, NoWaitOnDeadSocket, Waiting
<1>2. QED
    BY <1>1, TypeInit, WaiterInit DEF IInv

\* Every step preserves the inductive invariant.
LEMMA IInvStep == IInv /\ [Next]_vars => IInv'
<1> SUFFICES ASSUME IInv, [Next]_vars PROVE IInv'
    OBVIOUS
<1>1. TypeOK' /\ WaiterInv'
    BY TypeStep, WaiterStep DEF IInv
<1>2. OpenIsSocket' /\ NoWaitOnDeadSocket'
    BY SocketInv DEF IInv
<1>3. ASSUME UNCHANGED <<chans, pc, consumer, lost>> PROVE ActiveIsWakeable'
    BY <1>3, ChanStays DEF IInv, ActiveIsWakeable, Wakeable, Active, Unique, chans
<1>4. ActiveIsWakeable'
    <2>1. CASE \E r \in Requests : Request(r)
        BY <2>1, WakeableRequest DEF IInv
    <2>2. CASE \E c \in Conns : Consumer(c)
        BY <2>2, WakeableConsumer DEF IInv
    <2>3. ASSUME NEW c \in Conns, RemoteClose(c) \/ onDisconnect(c) PROVE ActiveIsWakeable'
        BY <1>3, <2>3, WakeableClear DEF IInv, RemoteClose, onDisconnect
    <2>4. CASE Connect
        BY <1>3, <2>4, WakeableClear DEF IInv, Connect
    <2>5. CASE unlockedDisconnect \/ ResetConnection \/ handleStreamError
        BY <2>5, WakeableClear DEF IInv, unlockedDisconnect, ResetConnection, handleStreamError
    <2>6. CASE UNCHANGED vars
        BY <1>3, <2>6 DEF vars
    <2>7. QED BY <2>1, <2>2, <2>3, <2>4, <2>5, <2>6 DEF Next
<1>5. QED
    BY <1>1, <1>2, <1>4 DEF IInv

\* The inductive invariant of responseWaiters holds in every reachable state.
THEOREM Invariance == Spec => []IInv
BY IInvInit, IInvStep, PTL DEF Spec

\* Type correctness of the request model, whatever the requests and their ids.
THEOREM TypeCorrect == Spec => []TypeOK
<1>1. IInv => TypeOK
    BY DEF IInv
<1>2. QED
    BY <1>1, Invariance, PTL

\* Every channel in responseWaiters is open and empty, so a disconnect closes
\* none of them and no waiter is closed twice, even if requests share an id.
THEOREM RegisteredChannelsAreReady == Spec => []RegisteredIsReady
<1>1. IInv => RegisteredIsReady
    BY DEF IInv, WaiterInv
<1>2. QED
    BY <1>1, Invariance, PTL

\* No request with an id of its own ever waits for a channel that nobody can
\* send to, however sends, responses, timeouts and disconnects interleave; the
\* one exception is a response that receiveResponse discarded.
THEOREM NoWakeupIsLost == Spec => []NoLostWakeup
<1>1. IInv => NoLostWakeup
    BY DEF IInv, NoLostWakeup, ActiveIsWakeable, Wakeable, Active, Waiting
<1>2. QED
    BY <1>1, Invariance, PTL

\* A registered request that was sent waits on the client's current socket,
\* which is open or has its disconnect callback on the way, although a retry
\* picks its socket before it registers.
THEOREM NobodyWaitsOnADeadSocket == Spec => []NoWaitOnDeadSocket
<1>1. IInv => NoWaitOnDeadSocket
    BY DEF IInv
<1>2. QED
    BY <1>1, Invariance, PTL
=============================================================================
