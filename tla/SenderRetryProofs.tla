------------------------- MODULE SenderRetryProofs -------------------------
(***************************************************************************)
(* Theorems about SenderRetry, for any messages, requests and handlers and *)
(* any sizes of the ring, the counter and the semaphore.                   *)
(*                                                                         *)
(* The ring, the retry store and the handlers share no variable but the    *)
(* message being added, so each has an inductive invariant of its own.     *)
(***************************************************************************)
EXTENDS SenderRetry, FiniteSetTheorems, SequenceTheorems, TLAPS

-----------------------------------------------------------------------------
(* The inductive invariants                                                *)

\* The slot of the k-th oldest message when the next one goes to slot p + 1.
Slot(p, k) == IF p + k <= recentMessagesSize THEN p + k ELSE p + k - recentMessagesSize

\* Messages are appended until the ring is full; from then on the oldest is in the
\* slot at recentMessagesPtr.
Ordered ==
    IF Len(recentMessagesList) < recentMessagesSize
    THEN recentMessagesPtr = 0 /\ order = recentMessagesList
    ELSE \A k \in 1..recentMessagesSize : order[k] = recentMessagesList[Slot(recentMessagesPtr, k)]

RingInv ==
    /\ recentMessagesList \in Seq(Messages) /\ order \in Seq(Messages)
    /\ Len(recentMessagesList) <= recentMessagesSize /\ Len(recentMessagesList) = Len(order)
    /\ recentMessagesPtr \in 0..(recentMessagesSize - 1)
    /\ recentMessagesMap = Range(recentMessagesList)
    /\ \A i, j \in 1..Len(recentMessagesList) :
          recentMessagesList[i] = recentMessagesList[j] => i = j
    /\ adding \in Messages \cup {Nil}
    /\ Ordered

\* What is being added, and what was kept in the last week, is in the store and new.
StoreInv ==
    /\ outgoing \in [Messages -> {"none", "fresh", "old"}]
    /\ adding \in Messages \cup {Nil} /\ kept \subseteq Messages
    /\ UseRetryMessageStore => \A m \in kept \cup ({adding} \ {Nil}) : outgoing[m] = "fresh"

\* Handlers with a permit, and those that have passed the limit for a request.
AtWork == {h \in Handlers : pc[h] \notin {"idle", "acquiring"}}
Answering(r) == {h \in Handlers : job[h] = r /\ pc[h] \in {"preparing", "sending"}}

\* How often the limit has let a request through.
Passed(r) == resent[r] + Cardinality(Answering(r))

CounterInv ==
    /\ counter \in [Requests -> Nat] /\ windowOver \in BOOLEAN
    /\ IsFiniteSet({r \in Requests : counter[r] > 0})
    /\ Cardinality({r \in Requests : counter[r] > 0}) <= maxIncomingRetryEntries
    /\ resent \in [Requests -> Nat] /\ windows \in Nat

PermitInv ==
    /\ pc \in [Handlers -> Steps] /\ job \in [Handlers -> Requests \cup {Nil}]
    /\ \A h \in Handlers : pc[h] = "idle" <=> job[h] = Nil
    /\ permits \in 0..Parallel
    /\ IsFiniteSet(AtWork) /\ permits + Cardinality(AtWork) = Parallel

\* A window lets RetryLimit - 1 requests through; the running one has let through
\* no more than it has counted.
LimitInv ==
    \A r \in Requests :
        /\ Passed(r) <= (RetryLimit - 1) * windows
        /\ ~windowOver => Passed(r) + (RetryLimit - 1) <= (RetryLimit - 1) * windows + counter[r]

HandlerInv == CounterInv /\ PermitInv /\ LimitInv

IInv == RingInv /\ StoreInv /\ HandlerInv

-----------------------------------------------------------------------------
(* The ring                                                                *)

\* The successor of a slot.
LEMMA NextSlot ==
    ASSUME NEW p \in 0..(recentMessagesSize - 1)
    PROVE  (p + 1) % recentMessagesSize = IF p + 1 = recentMessagesSize THEN 0 ELSE p + 1
  BY SenderRetryAssumption

\* A full ring and its order hold the same messages.
LEMMA SameRange ==
    ASSUME RingInv
    PROVE  Range(order) = Range(recentMessagesList)
  <1>1. CASE Len(recentMessagesList) < recentMessagesSize
    BY <1>1 DEF RingInv, Ordered
  <1>2. CASE Len(recentMessagesList) >= recentMessagesSize
    <2>1. /\ Len(recentMessagesList) = recentMessagesSize /\ Len(order) = recentMessagesSize
          /\ recentMessagesSize \in Nat \ {0}
      BY <1>2, SenderRetryAssumption, LenProperties DEF RingInv
    <2>2. DOMAIN order = 1..recentMessagesSize /\ DOMAIN recentMessagesList = 1..recentMessagesSize
      BY <2>1, LenProperties DEF RingInv
    <2>3. \A k \in 1..recentMessagesSize : order[k] = recentMessagesList[Slot(recentMessagesPtr, k)]
      BY <2>1 DEF RingInv, Ordered
    <2>4. \A k \in 1..recentMessagesSize : Slot(recentMessagesPtr, k) \in 1..recentMessagesSize
      BY <2>1 DEF RingInv, Slot
    <2>5. \A i \in 1..recentMessagesSize : \E k \in 1..recentMessagesSize : Slot(recentMessagesPtr, k) = i
      <3> TAKE i \in 1..recentMessagesSize
      <3> DEFINE k == IF i > recentMessagesPtr THEN i - recentMessagesPtr
                      ELSE i + recentMessagesSize - recentMessagesPtr
      <3>1. k \in 1..recentMessagesSize /\ Slot(recentMessagesPtr, k) = i
        BY <2>1 DEF RingInv, Slot
      <3> QED BY <3>1
    <2> QED BY <2>2, <2>3, <2>4, <2>5 DEF Range
  <1> QED BY <1>1, <1>2, SenderRetryAssumption, LenProperties DEF RingInv

\* A ring that is not full gets longer.
LEMMA AppendStep ==
    ASSUME RingInv, NEW m \in Messages, m \notin recentMessagesMap,
           Len(recentMessagesList) < recentMessagesSize,
           recentMessagesList' = Append(recentMessagesList, m),
           recentMessagesMap' = recentMessagesMap \cup {m},
           UNCHANGED recentMessagesPtr,
           order' = LastOnes(Append(order, m)), adding' = Nil
    PROVE  RingInv'
  <1> DEFINE n == Len(recentMessagesList)
  <1>1. /\ n \in Nat /\ recentMessagesSize \in Nat \ {0} /\ recentMessagesPtr = 0
        /\ order = recentMessagesList
    BY SenderRetryAssumption, LenProperties DEF RingInv, Ordered
  <1>2. /\ recentMessagesList' \in Seq(Messages) /\ Len(recentMessagesList') = n + 1
        /\ \A i \in 1..n : recentMessagesList'[i] = recentMessagesList[i]
        /\ recentMessagesList'[n + 1] = m
    BY AppendProperties DEF RingInv
  <1>3. order' = recentMessagesList'
    BY <1>1, <1>2 DEF LastOnes
  <1>4. \A i \in 1..n : recentMessagesList[i] # m
    BY LenProperties DEF RingInv, Range
  <1>5. recentMessagesMap' = Range(recentMessagesList')
    <2>1. DOMAIN recentMessagesList' = 1..(n + 1) /\ DOMAIN recentMessagesList = 1..n
      BY <1>2, LenProperties DEF RingInv
    <2>2. recentMessagesMap = {recentMessagesList[i] : i \in 1..n}
      BY <2>1 DEF RingInv, Range
    <2>3. Range(recentMessagesList') = {recentMessagesList'[i] : i \in 1..(n + 1)}
      BY <2>1 DEF Range
    <2> QED BY <1>1, <1>2, <2>2, <2>3
  <1>6. \A i, j \in 1..(n + 1) : recentMessagesList'[i] = recentMessagesList'[j] => i = j
    BY <1>1, <1>2, <1>4 DEF RingInv
  <1>7. Ordered'
    <2>1. CASE n + 1 < recentMessagesSize
      BY <1>1, <1>2, <1>3, <2>1 DEF Ordered
    <2>2. CASE n + 1 = recentMessagesSize
      <3>1. \A k \in 1..recentMessagesSize : Slot(recentMessagesPtr', k) = k
        BY <1>1 DEF Slot
      <3> QED BY <1>2, <1>3, <2>2, <3>1 DEF Ordered
    <2> QED BY <1>1, <2>1, <2>2
  <1> QED BY <1>1, <1>2, <1>3, <1>5, <1>6, <1>7 DEF RingInv

\* In a full ring the oldest message makes room.
LEMMA ReplaceStep ==
    ASSUME RingInv, NEW m \in Messages, m \notin recentMessagesMap,
           ~(Len(recentMessagesList) < recentMessagesSize),
           Replace(m), order' = LastOnes(Append(order, m)), adding' = Nil
    PROVE  RingInv'
  <1> DEFINE size == recentMessagesSize
             p == recentMessagesPtr
             list == recentMessagesList
  <1>1. size \in Nat \ {0} /\ Len(list) = size /\ Len(order) = size /\ p \in 0..(size - 1)
    BY SenderRetryAssumption, LenProperties DEF RingInv
  <1>2. /\ list' \in Seq(Messages) /\ Len(list') = size
        /\ \A i \in 1..size : list'[i] = IF i = p + 1 THEN m ELSE list[i]
    BY <1>1, ExceptSeq DEF RingInv, Replace
  <1>3. p' = IF p + 1 = size THEN 0 ELSE p + 1
    BY <1>1, NextSlot DEF Replace
  <1>4. /\ order' \in Seq(Messages) /\ Len(order') = size
        /\ \A k \in 1..size : order'[k] = IF k = size THEN m ELSE order[k + 1]
    <2>1. /\ Append(order, m) \in Seq(Messages) /\ Len(Append(order, m)) = size + 1
          /\ \A k \in 1..size : Append(order, m)[k] = order[k]
          /\ Append(order, m)[size + 1] = m /\ Append(order, m) # <<>>
      BY <1>1, AppendProperties DEF RingInv
    <2>2. order' = Tail(Append(order, m))
      BY <1>1, <2>1 DEF LastOnes
    <2>3. /\ Tail(Append(order, m)) \in Seq(Messages) /\ Len(Tail(Append(order, m))) = size
          /\ \A k \in 1..size : Tail(Append(order, m))[k] = Append(order, m)[k + 1]
      BY <1>1, <2>1, HeadTailProperties
    <2> QED BY <1>1, <2>1, <2>2, <2>3
  <1>5. \A i \in 1..size : list[i] # m
    BY <1>1, LenProperties DEF RingInv, Range
  <1>6. recentMessagesMap' = Range(list')
    <2>1. DOMAIN list' = 1..size /\ DOMAIN list = 1..size
      BY <1>1, <1>2, LenProperties DEF RingInv
    <2>2. recentMessagesMap = {list[i] : i \in 1..size} /\ Range(list') = {list'[i] : i \in 1..size}
      BY <2>1 DEF RingInv, Range
    <2>3. recentMessagesMap' = (recentMessagesMap \ {list[p + 1]}) \cup {m}
      BY DEF Replace
    <2>4. p + 1 \in 1..size /\ \A i \in 1..size : list[i] = list[p + 1] => i = p + 1
      BY <1>1 DEF RingInv
    <2> HIDE DEF list, p, size
    <2> QED BY <1>2, <2>2, <2>3, <2>4
  <1>7. \A i, j \in 1..size : list'[i] = list'[j] => i = j
    BY <1>1, <1>2, <1>5 DEF RingInv
  <1>8. Ordered'
    <2>1. \A k \in 1..size : order[k] = list[Slot(p, k)]
      BY <1>1 DEF RingInv, Ordered
    <2>2. \A k \in 1..size : order'[k] = list'[Slot(p', k)]
      <3> TAKE k \in 1..size
      <3>1. CASE k = size
        <4>1. Slot(p', k) = p + 1
          BY <1>1, <1>3, <3>1 DEF Slot
        <4> QED BY <1>1, <1>2, <1>4, <3>1, <4>1
      <3>2. CASE k # size
        <4>1. k + 1 \in 1..size /\ Slot(p', k) = Slot(p, k + 1) /\ Slot(p', k) \in 1..size /\ Slot(p', k) # p + 1
          BY <1>1, <1>3, <3>2 DEF Slot
        <4> QED BY <1>1, <1>2, <1>4, <2>1, <3>2, <4>1
      <3> QED BY <3>1, <3>2
    <2> QED BY <1>1, <1>2, <2>2 DEF Ordered
  <1>9. recentMessagesPtr' \in 0..(size - 1)
    BY <1>1, <1>3
  <1> QED BY <1>1, <1>2, <1>4, <1>6, <1>7, <1>8, <1>9 DEF RingInv

\* The empty ring.
LEMMA EmptyRing ==
    ASSUME recentMessagesList = <<>>, recentMessagesPtr = 0, recentMessagesMap = {}, order = <<>>, adding = Nil
    PROVE  RingInv
  <1>1. recentMessagesSize \in Nat \ {0} /\ Len(recentMessagesList) = 0 /\ recentMessagesList \in Seq(Messages)
    BY SenderRetryAssumption, EmptySeq
  <1>2. Range(recentMessagesList) = {}
    BY DEF Range
  <1>3. Ordered
    BY <1>1 DEF Ordered
  <1>4. recentMessagesPtr \in 0..(recentMessagesSize - 1)
    BY <1>1
  <1> QED BY <1>1, <1>2, <1>3, <1>4 DEF RingInv

\* Every step keeps the ring in order.
LEMMA RingStep ==
    ASSUME RingInv, [Next]_vars
    PROVE  RingInv'
  <1>1. ASSUME UNCHANGED <<ring, order>>, adding' \in Messages \cup {Nil}
        PROVE  RingInv'
    BY <1>1 DEF RingInv, Ordered, ring
  <1>2. ASSUME addRecentMessage
        PROVE  RingInv'
    <2>1. adding \in Messages /\ adding' = Nil
      BY <1>2 DEF addRecentMessage, RingInv
    <2>2. CASE adding \in recentMessagesMap
      BY <1>1, <1>2, <2>1, <2>2 DEF addRecentMessage
    <2>3. CASE adding \notin recentMessagesMap /\ Len(recentMessagesList) < recentMessagesSize
      BY <1>2, <2>1, <2>3, AppendStep DEF addRecentMessage
    <2>4. CASE adding \notin recentMessagesMap /\ ~(Len(recentMessagesList) < recentMessagesSize)
      BY <1>2, <2>1, <2>4, ReplaceStep DEF addRecentMessage
    <2> QED BY <2>2, <2>3, <2>4
  <1>3. ASSUME Crash
        PROVE  RingInv'
    <2>1. /\ recentMessagesList' = <<>> /\ recentMessagesPtr' = 0 /\ recentMessagesMap' = {}
          /\ order' = <<>> /\ adding' = Nil
      BY <1>3 DEF Crash
    <2>2. recentMessagesSize \in Nat \ {0} /\ Len(recentMessagesList') = 0 /\ recentMessagesList' \in Seq(Messages)
      BY <2>1, SenderRetryAssumption, EmptySeq
    <2>3. Range(recentMessagesList') = {}
      BY <2>1 DEF Range
    <2>4. Ordered'
      BY <2>1, <2>2 DEF Ordered
    <2>5. recentMessagesPtr' \in 0..(recentMessagesSize - 1)
      BY <2>1, <2>2
    <2> QED BY <2>1, <2>2, <2>3, <2>4, <2>5 DEF RingInv
  <1>4. ASSUME NEW m \in Messages, AddOutgoingEvent(m) \/ WeekPasses(m)
        PROVE  RingInv'
    BY <1>1, <1>4 DEF AddOutgoingEvent, WeekPasses, ring, RingInv
  <1>5. ASSUME NEW h \in Handlers, NEW r \in Requests, ReceiveRetry(h, r)
        PROVE  RingInv'
    BY <1>1, <1>5 DEF ReceiveRetry, RingInv
  <1>6. ASSUME NEW h \in Handlers, Acquire(h) \/ AcquireFails(h) \/ Handle(h)
        PROVE  RingInv'
    BY <1>1, <1>6 DEF Acquire, AcquireFails, Handle, getMessageForRetry, acceptIncomingRetry,
                      PrepareRetry, SendRetry, RingInv
  <1>7. CASE HourPasses
    BY <1>1, <1>7 DEF HourPasses, RingInv
  <1>8. CASE UNCHANGED vars
    BY <1>1, <1>8 DEF vars, RingInv
  <1> QED BY <1>2, <1>3, <1>4, <1>5, <1>6, <1>7, <1>8 DEF Next

-----------------------------------------------------------------------------
(* The retry store                                                         *)

\* Every step keeps what was sent.
LEMMA StoreStep ==
    ASSUME StoreInv, [Next]_vars
    PROVE  StoreInv'
  <1>0. Nil \notin Messages /\ UseRetryMessageStore \in BOOLEAN
    BY SenderRetryAssumption
  <1>1. ASSUME UNCHANGED <<outgoing, adding, kept>>
        PROVE  StoreInv'
    BY <1>1 DEF StoreInv
  <1>2. ASSUME NEW m \in Messages, AddOutgoingEvent(m)
        PROVE  StoreInv'
    <2>1. adding = Nil /\ kept' = kept
      BY <1>2 DEF AddOutgoingEvent
    <2>2. CASE outgoing' = (IF UseRetryMessageStore THEN Stored(m) ELSE outgoing) /\ adding' = m
      <3>1. outgoing' \in [Messages -> {"none", "fresh", "old"}]
        BY <2>2, <1>0 DEF StoreInv, Stored
      <3>2. UseRetryMessageStore => \A n \in kept \cup {m} : outgoing'[n] = "fresh"
        BY <2>2, <1>0 DEF StoreInv, Stored
      <3> QED BY <2>1, <2>2, <3>1, <3>2 DEF StoreInv
    <2>3. CASE outgoing' \in {outgoing, [outgoing EXCEPT ![m] = "fresh"]} /\ UNCHANGED adding
      <3>1. /\ outgoing' \in [Messages -> {"none", "fresh", "old"}]
            /\ \A n \in Messages : outgoing[n] = "fresh" => outgoing'[n] = "fresh"
        BY <2>3 DEF StoreInv
      <3> QED BY <2>1, <2>3, <3>1 DEF StoreInv
    <2> QED BY <1>2, <2>2, <2>3 DEF AddOutgoingEvent
  <1>3. ASSUME addRecentMessage
        PROVE  StoreInv'
    BY <1>0, <1>3 DEF addRecentMessage, StoreInv
  <1>4. ASSUME NEW m \in Messages, WeekPasses(m)
        PROVE  StoreInv'
    <2>1. /\ m # adding /\ adding' = adding /\ kept' = kept \ {m}
          /\ outgoing' = [outgoing EXCEPT ![m] = "old"]
      BY <1>4 DEF WeekPasses
    <2> QED BY <2>1 DEF StoreInv
  <1>5. CASE Crash
    BY <1>5 DEF Crash, StoreInv
  <1>6. ASSUME NEW h \in Handlers, NEW r \in Requests, ReceiveRetry(h, r)
        PROVE  StoreInv'
    BY <1>1, <1>6 DEF ReceiveRetry
  <1>7. ASSUME NEW h \in Handlers, Acquire(h) \/ AcquireFails(h) \/ Handle(h)
        PROVE  StoreInv'
    BY <1>1, <1>7 DEF Acquire, AcquireFails, Handle, getMessageForRetry, acceptIncomingRetry,
                      PrepareRetry, SendRetry
  <1>8. CASE HourPasses \/ UNCHANGED vars
    BY <1>1, <1>8 DEF HourPasses, vars
  <1> QED BY <1>2, <1>3, <1>4, <1>5, <1>6, <1>7, <1>8 DEF Next

-----------------------------------------------------------------------------
(* The handlers                                                            *)

\* One more window lets RetryLimit - 1 more requests through.
LEMMA Product ==
    \A n \in Nat : /\ (RetryLimit - 1) * n \in Nat
                   /\ (RetryLimit - 1) * (n + 1) = (RetryLimit - 1) * n + (RetryLimit - 1)
  <1>1. RetryLimit - 1 \in Nat
    BY SenderRetryAssumption
  <1>2. \A a, n \in Nat : a * n \in Nat /\ a * (n + 1) = a * n + a
    OBVIOUS
  <1> QED BY <1>1, <1>2

\* A step of one handler changes at most its place in the two sets.
LEMMA SetsOfAStep ==
    ASSUME PermitInv, NEW h \in Handlers, NEW step \in Steps, pc' = [pc EXCEPT ![h] = step],
           job' \in [Handlers -> Requests \cup {Nil}], \A g \in Handlers : g # h => job'[g] = job[g]
    PROVE  /\ pc' \in [Handlers -> Steps] /\ pc'[h] = step /\ \A g \in Handlers : g # h => pc'[g] = pc[g]
           /\ AtWork' = IF step \in {"idle", "acquiring"} THEN AtWork \ {h} ELSE AtWork \cup {h}
           /\ \A r \in Requests : Answering(r)' = IF job'[h] = r /\ step \in {"preparing", "sending"}
                                                 THEN Answering(r) \cup {h} ELSE Answering(r) \ {h}
  <1>1. pc' \in [Handlers -> Steps] /\ pc'[h] = step /\ \A g \in Handlers : g # h => pc'[g] = pc[g]
    BY DEF PermitInv
  <1>2. AtWork' = IF step \in {"idle", "acquiring"} THEN AtWork \ {h} ELSE AtWork \cup {h}
    BY <1>1 DEF AtWork
  <1>3. \A r \in Requests : Answering(r)' = IF job'[h] = r /\ step \in {"preparing", "sending"}
                                           THEN Answering(r) \cup {h} ELSE Answering(r) \ {h}
    BY <1>1 DEF Answering
  <1> QED BY <1>1, <1>2, <1>3

\* Those that answer are at work, and finitely many.
LEMMA AnsweringFacts ==
    ASSUME PermitInv, NEW r
    PROVE  /\ Answering(r) \subseteq AtWork /\ IsFiniteSet(Answering(r)) /\ IsFiniteSet(AtWork)
           /\ Cardinality(Answering(r)) \in Nat /\ Cardinality(AtWork) \in Nat
  <1>1. Answering(r) \subseteq AtWork
    BY DEF Answering, AtWork
  <1>2. IsFiniteSet(AtWork)
    BY DEF PermitInv
  <1> QED BY <1>1, <1>2, FS_Subset, FS_CardinalityType

\* The permits of a handler that goes on, starts to wait for one, or gives up waiting.
LEMMA PermitsStay ==
    ASSUME PermitInv, NEW h \in Handlers, NEW step \in Steps, pc' = [pc EXCEPT ![h] = step],
           job' \in [Handlers -> Requests \cup {Nil}], \A g \in Handlers : g # h => job'[g] = job[g],
           step = "idle" <=> job'[h] = Nil,
           pc[h] \in {"idle", "acquiring"} <=> step \in {"idle", "acquiring"},
           UNCHANGED permits
    PROVE  PermitInv'
  <1>1. AtWork' = AtWork
    BY SetsOfAStep DEF AtWork
  <1>2. \A g \in Handlers : pc'[g] = "idle" <=> job'[g] = Nil
    BY SetsOfAStep DEF PermitInv
  <1> QED BY <1>1, <1>2, SetsOfAStep DEF PermitInv

\* A handler that returns gives its permit back.
LEMMA PermitsReturned ==
    ASSUME PermitInv, NEW h \in Handlers, pc[h] \notin {"idle", "acquiring"}, Return(h)
    PROVE  /\ PermitInv' /\ \A r \in Requests : Answering(r)' = Answering(r) \ {h}
           /\ job' \in [Handlers -> Requests \cup {Nil}]
  <1>1. /\ job' \in [Handlers -> Requests \cup {Nil}] /\ job'[h] = Nil
        /\ \A g \in Handlers : g # h => job'[g] = job[g]
    BY DEF Return, PermitInv
  <1>2. /\ pc' \in [Handlers -> Steps] /\ pc'[h] = "idle" /\ \A g \in Handlers : g # h => pc'[g] = pc[g]
        /\ AtWork' = AtWork \ {h}
        /\ \A r \in Requests : Answering(r)' = Answering(r) \ {h}
    BY <1>1, SetsOfAStep DEF Return, Steps
  <1>3. h \in AtWork /\ IsFiniteSet(AtWork) /\ Cardinality(AtWork) \in Nat
    BY AnsweringFacts DEF AtWork
  <1>4. IsFiniteSet(AtWork') /\ Cardinality(AtWork') = Cardinality(AtWork) - 1
    BY <1>2, <1>3, FS_RemoveElement
  <1>5. Cardinality(AtWork') \in Nat
    BY <1>4, FS_CardinalityType
  <1>6. permits' \in 0..Parallel /\ permits' + Cardinality(AtWork') = Parallel
    BY <1>3, <1>4, <1>5, SenderRetryAssumption DEF PermitInv, Return
  <1>7. \A g \in Handlers : pc'[g] = "idle" <=> job'[g] = Nil
    BY <1>1, <1>2 DEF PermitInv
  <1> QED BY <1>1, <1>2, <1>4, <1>6, <1>7 DEF PermitInv

\* A handler takes a permit.
LEMMA PermitsTaken ==
    ASSUME PermitInv, NEW h \in Handlers, pc[h] = "acquiring", permits > 0,
           permits' = permits - 1, pc' = [pc EXCEPT ![h] = "looking"], UNCHANGED job
    PROVE  PermitInv'
  <1>1. job' \in [Handlers -> Requests \cup {Nil}] /\ job[h] # Nil
    BY DEF PermitInv
  <1>2. /\ pc' \in [Handlers -> Steps] /\ pc'[h] = "looking" /\ \A g \in Handlers : g # h => pc'[g] = pc[g]
        /\ AtWork' = AtWork \cup {h}
    BY <1>1, SetsOfAStep DEF Steps
  <1>3. h \notin AtWork /\ IsFiniteSet(AtWork) /\ Cardinality(AtWork) \in Nat
    BY AnsweringFacts DEF AtWork
  <1>4. IsFiniteSet(AtWork') /\ Cardinality(AtWork') = Cardinality(AtWork) + 1
    BY <1>2, <1>3, FS_AddElement
  <1>5. permits' \in 0..Parallel /\ permits' + Cardinality(AtWork') = Parallel
    BY <1>3, <1>4, SenderRetryAssumption DEF PermitInv
  <1>6. \A g \in Handlers : pc'[g] = "idle" <=> job'[g] = Nil
    BY <1>1, <1>2 DEF PermitInv
  <1> QED BY <1>1, <1>2, <1>4, <1>5, <1>6 DEF PermitInv

\* The limit holds on when nothing is let through.
LEMMA LimitStays ==
    ASSUME HandlerInv, CounterInv', PermitInv', UNCHANGED <<windows, resent>>,
           \A r \in Requests : Answering(r)' \subseteq Answering(r),
           ~windowOver' => ~windowOver /\ UNCHANGED counter
    PROVE  LimitInv'
  <1> SUFFICES ASSUME NEW r \in Requests
               PROVE  /\ Passed(r)' <= (RetryLimit - 1) * windows
                      /\ ~windowOver' => Passed(r)' + (RetryLimit - 1) <= (RetryLimit - 1) * windows + counter'[r]
    BY DEF LimitInv
  <1>1. resent[r] \in Nat /\ windows \in Nat /\ (RetryLimit - 1) * windows \in Nat /\ RetryLimit - 1 \in Nat
        /\ counter[r] \in Nat
    BY Product, SenderRetryAssumption DEF HandlerInv, CounterInv
  <1>2. Cardinality(Answering(r)) \in Nat /\ Cardinality(Answering(r)') \in Nat
        /\ Cardinality(Answering(r)') <= Cardinality(Answering(r))
    <2>1. IsFiniteSet(Answering(r)) /\ Answering(r)' \in SUBSET Answering(r)
      BY AnsweringFacts DEF HandlerInv
    <2> QED BY <2>1, FS_Subset, FS_CardinalityType
  <1>3. Passed(r) \in Nat /\ Passed(r)' \in Nat /\ Passed(r)' <= Passed(r)
    BY <1>1, <1>2 DEF Passed
  <1>4. /\ Passed(r) <= (RetryLimit - 1) * windows
        /\ ~windowOver => Passed(r) + (RetryLimit - 1) <= (RetryLimit - 1) * windows + counter[r]
    BY DEF HandlerInv, LimitInv
  <1> HIDE DEF Passed
  <1> QED BY <1>1, <1>3, <1>4

\* The counter as incrementBoundedCounter leaves it.
Counted(r) == IF accepted(r) THEN [counterNow EXCEPT ![r] = @ + 1] ELSE counterNow

\* It has no more entries than it may.
LEMMA CountedFacts ==
    ASSUME CounterInv, NEW r \in Requests
    PROVE  /\ Counted(r) \in [Requests -> Nat]
           /\ counterNow \in [Requests -> Nat]
           /\ accepted(r) => Counted(r)[r] = counterNow[r] + 1
           /\ \A q \in Requests : counterNow[q] <= Counted(r)[q]
           /\ IsFiniteSet({q \in Requests : Counted(r)[q] > 0})
           /\ Cardinality({q \in Requests : Counted(r)[q] > 0}) <= maxIncomingRetryEntries
  <1>1. counterNow \in [Requests -> Nat]
    BY DEF CounterInv, counterNow
  <1>2. IsFiniteSet(Entries) /\ Cardinality(Entries) \in Nat /\ Cardinality(Entries) <= maxIncomingRetryEntries
        /\ maxIncomingRetryEntries \in Nat
    <2>1. maxIncomingRetryEntries \in Nat
      BY SenderRetryAssumption
    <2>2. CASE windowOver
      <3>1. Entries = {}
        BY <2>2 DEF Entries, counterNow
      <3> QED BY <2>1, <3>1, FS_EmptySet
    <2>3. CASE ~windowOver
      <3>1. Entries = {q \in Requests : counter[q] > 0}
        BY <2>3 DEF Entries, counterNow
      <3> QED BY <2>1, <3>1, FS_CardinalityType DEF CounterInv
    <2> QED BY <2>2, <2>3
  <1>3. CASE accepted(r)
    <2>1. Counted(r) = [counterNow EXCEPT ![r] = @ + 1]
      BY <1>3 DEF Counted
    <2>2. /\ Counted(r) \in [Requests -> Nat] /\ Counted(r)[r] = counterNow[r] + 1
          /\ \A q \in Requests : q # r => Counted(r)[q] = counterNow[q]
      BY <1>1, <2>1
    <2>3. {q \in Requests : Counted(r)[q] > 0} = Entries \cup {r}
      BY <1>1, <2>2 DEF Entries
    <2>4. IsFiniteSet(Entries \cup {r}) /\ Cardinality(Entries \cup {r}) <= maxIncomingRetryEntries
      BY <1>2, <1>3, FS_AddElement DEF accepted
    <2>5. \A q \in Requests : counterNow[q] <= Counted(r)[q]
      BY <1>1, <2>2
    <2> QED BY <1>1, <2>2, <2>3, <2>4, <2>5
  <1>4. CASE ~accepted(r)
    <2>1. Counted(r) = counterNow
      BY <1>4 DEF Counted
    <2>2. \A q \in Requests : counterNow[q] <= Counted(r)[q]
      BY <1>1, <2>1
    <2> QED BY <1>1, <1>2, <1>4, <2>1, <2>2 DEF Entries
  <1> QED BY <1>3, <1>4

\* A request is counted, and let through if its count is below the limit.
LEMMA acceptIncomingRetryStep ==
    ASSUME HandlerInv, NEW h \in Handlers, acceptIncomingRetry(h)
    PROVE  HandlerInv'
  <1> DEFINE r == job[h]
             through == accepted(r) /\ withinLimit(Counted(r)[r])
  <1>0. /\ pc[h] = "counting" /\ counter' = Counted(r) /\ windowOver' = FALSE
        /\ windows' = IF windowOver THEN windows + 1 ELSE windows
        /\ IF through THEN Goto(h, "preparing") /\ UNCHANGED <<permits, job>> ELSE Return(h)
        /\ UNCHANGED resent
    BY DEF acceptIncomingRetry, Counted
  <1>1. r \in Requests
    BY <1>0 DEF HandlerInv, PermitInv
  <1>9. /\ Counted(r) \in [Requests -> Nat] /\ counterNow \in [Requests -> Nat]
        /\ \A q \in Requests : counterNow[q] <= Counted(r)[q]
        /\ IsFiniteSet({q \in Requests : Counted(r)[q] > 0})
        /\ Cardinality({q \in Requests : Counted(r)[q] > 0}) <= maxIncomingRetryEntries
    BY <1>1, CountedFacts DEF HandlerInv
  <1>2. CounterInv'
    <2> HIDE DEF Counted
    <2>1. resent' \in [Requests -> Nat] /\ windows' \in Nat
      BY <1>0 DEF HandlerInv, CounterInv
    <2> QED BY <1>0, <1>9, <2>1 DEF CounterInv
  <1>3. /\ PermitInv'
        /\ \A q \in Requests : Answering(q)' = IF through /\ q = r THEN Answering(q) \cup {h} ELSE Answering(q)
    <2>0. \A q \in Requests : h \notin Answering(q)
      BY <1>0 DEF Answering
    <2>1. CASE through
      <3>1. pc' = [pc EXCEPT ![h] = "preparing"] /\ UNCHANGED <<permits, job>>
        BY <1>0, <2>1 DEF Goto
      <3>2. job' \in [Handlers -> Requests \cup {Nil}] /\ job'[h] = r /\ r # Nil
        BY <1>1, <3>1, SenderRetryAssumption DEF HandlerInv, PermitInv
      <3>3. PermitInv'
        BY <1>0, <3>1, <3>2, PermitsStay DEF HandlerInv, Steps
      <3>4. \A q \in Requests : Answering(q)' = IF q = r THEN Answering(q) \cup {h} ELSE Answering(q) \ {h}
        BY <3>1, <3>2, SetsOfAStep DEF HandlerInv, Steps
      <3> QED BY <2>0, <2>1, <3>3, <3>4
    <2>2. CASE ~through
      <3>1. PermitInv' /\ \A q \in Requests : Answering(q)' = Answering(q) \ {h}
        BY <1>0, <2>2, PermitsReturned DEF HandlerInv
      <3> QED BY <2>0, <2>2, <3>1
    <2> QED BY <2>1, <2>2
  <1>4. LimitInv'
    <2> SUFFICES ASSUME NEW q \in Requests
                 PROVE  /\ Passed(q)' <= (RetryLimit - 1) * windows'
                        /\ Passed(q)' + (RetryLimit - 1) <= (RetryLimit - 1) * windows' + counter'[q]
      BY DEF LimitInv
    <2> DEFINE per == RetryLimit - 1
               total == per * windows
    <2>1. /\ windows \in Nat /\ per \in Nat /\ total \in Nat /\ resent[q] \in Nat
          /\ counter[q] \in Nat /\ counterNow[q] \in Nat /\ Counted(r)[q] \in Nat /\ counterNow[q] <= Counted(r)[q]
      BY <1>9, Product, SenderRetryAssumption DEF HandlerInv, CounterInv
    <2>2. per * windows' = IF windowOver THEN total + per ELSE total
      BY <1>0, <2>1, Product
    <2>3. Cardinality(Answering(q)) \in Nat /\ IsFiniteSet(Answering(q))
      BY AnsweringFacts DEF HandlerInv
    <2>4. Passed(q) \in Nat /\ Passed(q) <= total /\ (~windowOver => Passed(q) + per <= total + counter[q])
      BY <2>1, <2>3 DEF HandlerInv, LimitInv, Passed
    <2>5. counterNow[q] = IF windowOver THEN 0 ELSE counter[q]
      BY DEF counterNow
    <2>6. CASE through /\ q = r
      <3>1. Cardinality(Answering(q)') = Cardinality(Answering(q)) + 1
        <4>1. h \notin Answering(q) /\ Answering(q)' = Answering(q) \cup {h}
          BY <1>0, <1>3, <2>6 DEF Answering
        <4> QED BY <2>3, <4>1, FS_AddElement
      <3>2. Passed(q)' = Passed(q) + 1
        BY <1>0, <2>1, <2>3, <3>1 DEF Passed
      <3>3. Counted(r)[q] = counterNow[q] + 1 /\ Counted(r)[q] < RetryLimit
        BY <1>1, <2>6, CountedFacts DEF withinLimit, HandlerInv
      <3>4. RetryLimit \in Nat
        BY SenderRetryAssumption
      <3> HIDE DEF total, Passed, Counted
      <3> QED BY <1>0, <2>1, <2>2, <2>4, <2>5, <3>2, <3>3, <3>4
    <2>7. CASE ~(through /\ q = r)
      <3>1. Answering(q)' = Answering(q)
        BY <1>3, <2>7
      <3>2. Passed(q)' = Passed(q)
        BY <1>0, <3>1 DEF Passed
      <3> HIDE DEF total, Passed, Counted
      <3> QED BY <1>0, <2>1, <2>2, <2>4, <2>5, <3>2
    <2> QED BY <2>6, <2>7
  <1> QED BY <1>2, <1>3, <1>4 DEF HandlerInv

\* A handler that is through sends and returns: what it had been let through for
\* becomes one answer more, or none.
LEMMA SendRetryStep ==
    ASSUME HandlerInv, NEW h \in Handlers, SendRetry(h)
    PROVE  HandlerInv'
  <1>0. /\ pc[h] = "sending" /\ Return(h) /\ UNCHANGED <<counter, windowOver, windows>>
        /\ resent' = [resent EXCEPT ![job[h]] = @ + 1] \/ UNCHANGED resent
    BY DEF SendRetry
  <1>1. job[h] \in Requests
    BY <1>0 DEF HandlerInv, PermitInv
  <1>2. CounterInv'
    BY <1>0, <1>1 DEF HandlerInv, CounterInv
  <1>3. PermitInv' /\ \A q \in Requests : Answering(q)' = Answering(q) \ {h}
    BY <1>0, PermitsReturned DEF HandlerInv
  <1>4. CASE UNCHANGED resent
    BY <1>0, <1>2, <1>3, <1>4, LimitStays DEF HandlerInv
  <1>5. CASE resent' = [resent EXCEPT ![job[h]] = @ + 1]
    <2>1. \A q \in Requests : Passed(q)' = Passed(q)
      <3> TAKE q \in Requests
      <3>1. Cardinality(Answering(q)) \in Nat /\ IsFiniteSet(Answering(q)) /\ resent[q] \in Nat
        BY AnsweringFacts DEF HandlerInv, CounterInv
      <3>2. CASE q = job[h]
        <4>1. h \in Answering(q)
          BY <1>0, <3>2 DEF Answering
        <4>2. Cardinality(Answering(q)') = Cardinality(Answering(q)) - 1
          BY <1>3, <3>1, <4>1, FS_RemoveElement
        <4>3. resent'[q] = resent[q] + 1
          BY <1>5, <3>2 DEF HandlerInv, CounterInv
        <4> QED BY <3>1, <4>2, <4>3 DEF Passed
      <3>3. CASE q # job[h]
        <4>1. h \notin Answering(q)
          BY <3>3 DEF Answering
        <4>2. Answering(q)' = Answering(q) /\ resent'[q] = resent[q]
          BY <1>3, <1>5, <3>3, <4>1 DEF HandlerInv, CounterInv
        <4> QED BY <4>2 DEF Passed
      <3> QED BY <3>2, <3>3
    <2>2. LimitInv'
      <3> HIDE DEF Passed
      <3> QED BY <1>0, <2>1 DEF HandlerInv, LimitInv
    <2> QED BY <1>2, <1>3, <2>2 DEF HandlerInv
  <1> QED BY <1>0, <1>2, <1>3, <1>4, <1>5 DEF HandlerInv

\* The other steps of a handler let nothing through.
LEMMA OtherHandlerSteps ==
    ASSUME HandlerInv, NEW h \in Handlers,
           \/ \E r \in Requests : ReceiveRetry(h, r)
           \/ Acquire(h) \/ AcquireFails(h) \/ getMessageForRetry(h) \/ PrepareRetry(h)
    PROVE  HandlerInv'
  <1>0. UNCHANGED <<counter, windowOver, windows, resent>>
    BY DEF ReceiveRetry, Acquire, AcquireFails, getMessageForRetry, PrepareRetry, limits
  <1>1. CounterInv'
    BY <1>0 DEF HandlerInv, CounterInv
  <1>2. ASSUME PermitInv', \A r \in Requests : Answering(r)' \subseteq Answering(r)
        PROVE  HandlerInv'
    BY <1>0, <1>1, <1>2, LimitStays DEF HandlerInv
  <1>3. ASSUME NEW r \in Requests, ReceiveRetry(h, r)
        PROVE  HandlerInv'
    <2>1. pc[h] = "idle" /\ pc' = [pc EXCEPT ![h] = "acquiring"] /\ job' = [job EXCEPT ![h] = r] /\ UNCHANGED permits
      BY <1>3 DEF ReceiveRetry, Goto, limits
    <2>2. /\ job' \in [Handlers -> Requests \cup {Nil}] /\ \A g \in Handlers : g # h => job'[g] = job[g]
          /\ job'[h] = r /\ r # Nil
      BY <2>1, SenderRetryAssumption DEF HandlerInv, PermitInv
    <2>3. PermitInv'
      BY <2>1, <2>2, PermitsStay DEF HandlerInv, Steps
    <2>4. \A q \in Requests : Answering(q)' = Answering(q) \ {h}
      BY <2>1, <2>2, SetsOfAStep DEF HandlerInv, Steps
    <2> QED BY <1>2, <2>3, <2>4
  <1>4. ASSUME Acquire(h)
        PROVE  HandlerInv'
    <2>1. /\ pc[h] = "acquiring" /\ permits > 0 /\ permits' = permits - 1
          /\ pc' = [pc EXCEPT ![h] = "looking"] /\ UNCHANGED job
      BY <1>4 DEF Acquire, Goto
    <2>2. PermitInv'
      BY <2>1, PermitsTaken DEF HandlerInv
    <2>3. \A q \in Requests : Answering(q)' = Answering(q) \ {h}
      BY <2>1, <2>2, SetsOfAStep DEF HandlerInv, PermitInv, Steps
    <2> QED BY <1>2, <2>2, <2>3
  <1>5. ASSUME AcquireFails(h)
        PROVE  HandlerInv'
    <2>1. pc[h] = "acquiring" /\ pc' = [pc EXCEPT ![h] = "idle"] /\ job' = [job EXCEPT ![h] = Nil] /\ UNCHANGED permits
      BY <1>5 DEF AcquireFails, Goto, limits
    <2>2. /\ job' \in [Handlers -> Requests \cup {Nil}] /\ \A g \in Handlers : g # h => job'[g] = job[g]
          /\ job'[h] = Nil
      BY <2>1 DEF HandlerInv, PermitInv
    <2>3. PermitInv'
      BY <2>1, <2>2, PermitsStay DEF HandlerInv, Steps
    <2>4. \A q \in Requests : Answering(q)' = Answering(q) \ {h}
      BY <2>1, <2>2, SetsOfAStep DEF HandlerInv, Steps
    <2> QED BY <1>2, <2>3, <2>4
  <1>6. ASSUME Return(h), pc[h] \notin {"idle", "acquiring"}
        PROVE  HandlerInv'
    BY <1>2, <1>6, PermitsReturned DEF HandlerInv
  <1>7. ASSUME NEW step \in {"counting", "sending"}, Goto(h, step), UNCHANGED <<permits, job>>,
               pc[h] = IF step = "counting" THEN "looking" ELSE "preparing"
        PROVE  HandlerInv'
    <2>1. pc' = [pc EXCEPT ![h] = step] /\ step \in Steps
      BY <1>7 DEF Goto, Steps
    <2>2. job' \in [Handlers -> Requests \cup {Nil}] /\ job'[h] # Nil /\ \A g \in Handlers : job'[g] = job[g]
      BY <1>7 DEF HandlerInv, PermitInv
    <2>3. PermitInv'
      BY <1>7, <2>1, <2>2, PermitsStay DEF HandlerInv
    <2>4. \A q \in Requests : Answering(q)' = IF job'[h] = q /\ step \in {"preparing", "sending"}
                                             THEN Answering(q) \cup {h} ELSE Answering(q) \ {h}
      BY <2>1, <2>2, SetsOfAStep DEF HandlerInv
    <2>5. \A q \in Requests : Answering(q)' \subseteq Answering(q)
      BY <1>7, <2>2, <2>4 DEF Answering
    <2> QED BY <1>2, <2>3, <2>5
  <1>8. ASSUME getMessageForRetry(h)
        PROVE  HandlerInv'
    BY <1>6, <1>7, <1>8 DEF getMessageForRetry
  <1>9. ASSUME PrepareRetry(h)
        PROVE  HandlerInv'
    BY <1>6, <1>7, <1>9 DEF PrepareRetry
  <1> QED BY <1>3, <1>4, <1>5, <1>8, <1>9

\* No handler is at work and nothing is counted.
LEMMA CrashStep ==
    ASSUME HandlerInv, Crash
    PROVE  HandlerInv'
  <1>0. /\ counter' = [r \in Requests |-> 0] /\ windowOver' = TRUE /\ permits' = Parallel
        /\ pc' = [h \in Handlers |-> "idle"] /\ job' = [h \in Handlers |-> Nil]
        /\ UNCHANGED <<resent, windows>>
    BY DEF Crash
  <1>1. AtWork' = {} /\ \A r \in Requests : Answering(r)' = {}
    BY <1>0 DEF AtWork, Answering
  <1>2. {r \in Requests : counter'[r] > 0} = {}
    BY <1>0
  <1>3. CounterInv'
    BY <1>0, <1>2, FS_EmptySet, SenderRetryAssumption DEF HandlerInv, CounterInv
  <1>4. PermitInv'
    BY <1>0, <1>1, FS_EmptySet, SenderRetryAssumption DEF PermitInv, Steps
  <1>5. LimitInv'
    BY <1>0, <1>1, <1>3, <1>4, LimitStays
  <1> QED BY <1>3, <1>4, <1>5 DEF HandlerInv

\* Every step keeps the permits and the limit.
LEMMA HandlerStep ==
    ASSUME HandlerInv, [Next]_vars
    PROVE  HandlerInv'
  <1>1. ASSUME UNCHANGED <<counter, permits, pc, job, resent, windows>>, windowOver' \in {windowOver, TRUE}
        PROVE  HandlerInv'
    <2>1. CounterInv'
      BY <1>1 DEF HandlerInv, CounterInv
    <2>2. PermitInv' /\ \A r \in Requests : Answering(r)' = Answering(r)
      BY <1>1 DEF HandlerInv, PermitInv, AtWork, Answering
    <2>3. LimitInv'
      BY <1>1, <2>1, <2>2, LimitStays DEF HandlerInv, CounterInv
    <2> QED BY <2>1, <2>2, <2>3 DEF HandlerInv
  <1>2. CASE UNCHANGED vars
    BY <1>1, <1>2 DEF vars, limits
  <1>3. CASE \E m \in Messages : AddOutgoingEvent(m) \/ WeekPasses(m)
    BY <1>1, <1>3 DEF AddOutgoingEvent, WeekPasses, limits
  <1>4. CASE addRecentMessage \/ HourPasses
    BY <1>1, <1>4 DEF addRecentMessage, HourPasses, limits
  <1>5. CASE \E h \in Handlers : \/ \E r \in Requests : ReceiveRetry(h, r)
                                 \/ Acquire(h) \/ AcquireFails(h) \/ Handle(h)
    BY <1>5, OtherHandlerSteps, acceptIncomingRetryStep, SendRetryStep DEF Handle
  <1>6. CASE Crash
    BY <1>6, CrashStep
  <1> QED BY <1>2, <1>3, <1>4, <1>5, <1>6 DEF Next

-----------------------------------------------------------------------------
(* The theorems                                                            *)

\* The invariants hold at the start.
LEMMA InitIInv == Init => IInv
  <1> SUFFICES ASSUME Init PROVE IInv
    OBVIOUS
  <1>1. RingInv
    BY EmptyRing DEF Init
  <1>2. StoreInv
    BY DEF Init, StoreInv
  <1>3. AtWork = {} /\ \A r \in Requests : Answering(r) = {}
    BY DEF Init, AtWork, Answering
  <1>4. CounterInv
    <2>1. {r \in Requests : counter[r] > 0} = {}
      BY DEF Init
    <2>2. IsFiniteSet({r \in Requests : counter[r] > 0})
          /\ Cardinality({r \in Requests : counter[r] > 0}) = 0
      BY <2>1, FS_EmptySet
    <2>3. /\ counter \in [Requests -> Nat] /\ windowOver \in BOOLEAN
          /\ resent \in [Requests -> Nat] /\ windows \in Nat
      BY DEF Init
    <2>4. maxIncomingRetryEntries \in Nat
      BY SenderRetryAssumption
    <2> QED BY <2>2, <2>3, <2>4 DEF Init, CounterInv
  <1>5. PermitInv
    BY <1>3, FS_EmptySet, SenderRetryAssumption DEF Init, PermitInv, Steps
  <1>6. LimitInv
    <2> SUFFICES ASSUME NEW r \in Requests
                 PROVE  Passed(r) <= (RetryLimit - 1) * windows /\ windowOver
      BY DEF LimitInv
    <2>1. Passed(r) = 0 /\ windowOver /\ windows \in Nat
      BY <1>3, FS_EmptySet DEF Passed, Init
    <2> QED BY <2>1, Product
  <1> QED BY <1>1, <1>2, <1>4, <1>5, <1>6 DEF IInv, HandlerInv

\* The inductive invariant holds in every state.
THEOREM Invariance == Spec => []IInv
  <1>1. IInv /\ [Next]_vars => IInv'
    BY RingStep, StoreStep, HandlerStep DEF IInv
  <1> QED BY InitIInv, <1>1, PTL DEF Spec

\* Every variable keeps its type, and incomingRetryRequestCounter never has more
\* than maxIncomingRetryEntries entries, for any number of requests.
THEOREM TypeCorrect == Spec => []TypeOK
  <1>1. ASSUME IInv
        PROVE  TypeOK
    <2>1. recentMessagesMap \subseteq Messages
      BY <1>1, RangeOfSeq DEF IInv, RingInv
    <2> QED BY <1>1, <2>1 DEF IInv, RingInv, StoreInv, HandlerInv, CounterInv, PermitInv, TypeOK
  <1> QED BY <1>1, Invariance, PTL

\* However long addRecentMessage has been used, whatever the size of the ring, it
\* holds exactly the last messages that were put into it.
THEOREM RingKeepsTheLast == Spec => []RecentAreKept
  <1>1. ASSUME IInv
        PROVE  RecentAreKept
    BY <1>1, SameRange DEF IInv, RingInv, RecentAreKept
  <1> QED BY <1>1, Invariance, PTL

\* With UseRetryMessageStore what SendMessage went on to send is in the store for a
\* week, whatever fails or crashes.
THEOREM SentAreStored == Spec => []SentSurviveRestart
  <1>1. ASSUME IInv
        PROVE  SentSurviveRestart
    BY <1>1 DEF IInv, StoreInv, SentSurviveRestart
  <1> QED BY <1>1, Invariance, PTL

\* Any number of handlers that count, prepare and send at once answer one requester
\* fewer than RetryLimit times in a window.
THEOREM AnswersAreLimited == Spec => []ResendsBounded
  <1>1. ASSUME IInv
        PROVE  ResendsBounded
    <2> SUFFICES ASSUME NEW r \in Requests
                 PROVE  resent[r] <= (RetryLimit - 1) * windows
      BY DEF ResendsBounded
    <2>1. /\ resent[r] \in Nat /\ Cardinality(Answering(r)) \in Nat /\ (RetryLimit - 1) * windows \in Nat
          /\ resent[r] + Cardinality(Answering(r)) <= (RetryLimit - 1) * windows
      BY <1>1, AnsweringFacts, Product DEF IInv, HandlerInv, CounterInv, LimitInv, Passed
    <2> QED BY <2>1
  <1> QED BY <1>1, Invariance, PTL

\* No way out of tryHandleRetryReceipt loses a permit of retrySema or gives one back
\* that it did not have.
THEOREM NoPermitIsLost == Spec => []PermitsAreHeld
  <1>1. ASSUME IInv
        PROVE  PermitsAreHeld
    BY <1>1 DEF IInv, HandlerInv, PermitInv, AtWork, PermitsAreHeld
  <1> QED BY <1>1, Invariance, PTL
=============================================================================
