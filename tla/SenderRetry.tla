----------------------------- MODULE SenderRetry -----------------------------
(***************************************************************************)
(* Answering retry receipts: SendMessage keeps what it sends in a ring     *)
(* buffer and, with UseRetryMessageStore, in a table; a recipient that     *)
(* cannot decrypt a message asks for it again, and a handler goroutine     *)
(* looks the message up, counts the request and sends the message again.   *)
(*                                                                         *)
(* Which Signal session the answer is encrypted with is the subject of     *)
(* Sessions.  A receipt that is not acknowledged comes again, which is a   *)
(* receipt like any other here.                                            *)
(***************************************************************************)
EXTENDS Naturals, Sequences, FiniteSets, Functions

CONSTANTS
    Messages,                \* (chat, id) of outgoing messages
    Requests,                \* (requester, message id) of retry receipts
    MessageOf(_),            \* the message a request asks for
    Handlers,                \* goroutines running tryHandleRetryReceipt
    Nil,
    UseRetryMessageStore,
    recentMessagesSize,      \* 256
    maxIncomingRetryEntries, \* 1024
    RetryLimit,              \* 10
    Parallel,                \* permits of retrySema; without one, the default, as many as Handlers
    MaxHours, MaxReceipts, MaxFaults  \* bounds: hours that pass, receipts, faults

ASSUME SenderRetryAssumption ==
    /\ \A r \in Requests : MessageOf(r) \in Messages
    /\ Nil \notin Messages \cup Requests
    /\ UseRetryMessageStore \in BOOLEAN
    /\ recentMessagesSize \in Nat \ {0} /\ maxIncomingRetryEntries \in Nat
    /\ RetryLimit \in Nat \ {0} /\ Parallel \in Nat \ {0}
    /\ MaxHours \in Nat /\ MaxReceipts \in Nat /\ MaxFaults \in Nat

VARIABLES
    recentMessagesList, recentMessagesPtr,
    recentMessagesMap,  \* the messages it has
    outgoing,           \* rows of the retry store: "none", "fresh", or "old" after a week
    adding,             \* the message SendMessage is adding, under messageSendLock
    counter,            \* incomingRetryRequestCounter, 0 where it has no entry
    windowOver,         \* resetAt is zero or an hour ago
    permits,            \* of retrySema
    pc, job,            \* where a handler is, and with which request
    hours, receipts, faults,
    order,              \* history: the last recentMessagesSize messages put into the ring
    kept,               \* history: messages kept by addRecentMessage in the last week
    resent,             \* history: how often a request was answered
    windows             \* history: how often the counter was reset

ring == <<recentMessagesList, recentMessagesPtr, recentMessagesMap>>
limits == <<counter, windowOver, permits>>
bounds == <<hours, receipts, faults>>
vars == <<ring, outgoing, adding, limits, pc, job, bounds, order, kept, resent, windows>>

Steps == {"idle", "acquiring", "looking", "counting", "preparing", "sending"}

TypeOK ==
    /\ recentMessagesList \in Seq(Messages) /\ Len(recentMessagesList) <= recentMessagesSize
    /\ recentMessagesPtr \in 0..(recentMessagesSize - 1)
    /\ recentMessagesMap \subseteq Messages
    /\ outgoing \in [Messages -> {"none", "fresh", "old"}]
    /\ adding \in Messages \cup {Nil}
    /\ counter \in [Requests -> Nat] /\ windowOver \in BOOLEAN
    /\ Cardinality({r \in Requests : counter[r] > 0}) <= maxIncomingRetryEntries
    /\ permits \in 0..Parallel
    /\ pc \in [Handlers -> Steps] /\ job \in [Handlers -> Requests \cup {Nil}]
    /\ \A h \in Handlers : pc[h] = "idle" <=> job[h] = Nil

Init ==
    /\ recentMessagesList = <<>> /\ recentMessagesPtr = 0 /\ recentMessagesMap = {}
    /\ outgoing = [m \in Messages |-> "none"] /\ adding = Nil
    /\ counter = [r \in Requests |-> 0] /\ windowOver = TRUE
    /\ permits = Parallel
    /\ pc = [h \in Handlers |-> "idle"] /\ job = [h \in Handlers |-> Nil]
    /\ hours = 0 /\ receipts = 0 /\ faults = 0
    /\ order = <<>> /\ kept = {} /\ resent = [r \in Requests |-> 0] /\ windows = 0

Fault == faults < MaxFaults /\ faults' = faults + 1 /\ UNCHANGED <<hours, receipts>>

-----------------------------------------------------------------------------
(* addRecentMessage                                                        *)

\* AddOutgoingEvent, then DeleteOldOutgoingEvents: lastRetryStoreClear is never set,
\* so every message clears the rows that are a week old.
Stored(m) ==
    [n \in Messages |-> IF n = m THEN "fresh" ELSE IF outgoing[n] = "old" THEN "none" ELSE outgoing[n]]

\* Mutant: a failure of the store is ignored.
AddOutgoingEventAnyway(m) ==
    /\ adding = Nil
    /\ \/ outgoing' = (IF UseRetryMessageStore THEN Stored(m) ELSE outgoing) /\ UNCHANGED bounds
       \/ UseRetryMessageStore /\ Fault /\ UNCHANGED outgoing
    /\ adding' = m
    /\ UNCHANGED <<ring, limits, pc, job, order, kept, resent, windows>>

\* The store comes first: when it fails, SendMessage returns.
AddOutgoingEvent(m) ==
    /\ adding = Nil
    /\ \/ /\ outgoing' = (IF UseRetryMessageStore THEN Stored(m) ELSE outgoing)
          /\ adding' = m /\ UNCHANGED bounds
       \/ /\ UseRetryMessageStore /\ Fault   \* the insert or the clearing fails
          /\ outgoing' \in {outgoing, [outgoing EXCEPT ![m] = "fresh"]}
          /\ UNCHANGED adding
    /\ UNCHANGED <<ring, limits, pc, job, order, kept, resent, windows>>

\* Mutant: the pointer stays.
ReplaceInPlace(m) ==
    /\ recentMessagesList' = [recentMessagesList EXCEPT ![recentMessagesPtr + 1] = m]
    /\ recentMessagesMap' = (recentMessagesMap \ {recentMessagesList[recentMessagesPtr + 1]}) \cup {m}
    /\ UNCHANGED recentMessagesPtr

\* The message in the slot at recentMessagesPtr makes room.
Replace(m) ==
    /\ recentMessagesList' = [recentMessagesList EXCEPT ![recentMessagesPtr + 1] = m]
    /\ recentMessagesMap' = (recentMessagesMap \ {recentMessagesList[recentMessagesPtr + 1]}) \cup {m}
    /\ recentMessagesPtr' = (recentMessagesPtr + 1) % recentMessagesSize

LastOnes(s) == IF Len(s) > recentMessagesSize THEN Tail(s) ELSE s

\* The critical section of recentMessagesLock.
addRecentMessage ==
    /\ adding # Nil
    /\ IF adding \in recentMessagesMap
       THEN UNCHANGED <<ring, order>>
       ELSE /\ order' = LastOnes(Append(order, adding))
            /\ IF Len(recentMessagesList) < recentMessagesSize
               THEN /\ recentMessagesList' = Append(recentMessagesList, adding)
                    /\ recentMessagesMap' = recentMessagesMap \cup {adding}
                    /\ UNCHANGED recentMessagesPtr
               ELSE Replace(adding)
    /\ kept' = kept \cup {adding} /\ adding' = Nil
    /\ UNCHANGED <<outgoing, limits, pc, job, bounds, resent, windows>>

-----------------------------------------------------------------------------
(* tryHandleRetryReceipt                                                   *)

Goto(h, step) == pc' = [pc EXCEPT ![h] = step]

ReceiveRetry(h, r) ==
    /\ pc[h] = "idle" /\ receipts < MaxReceipts
    /\ job' = [job EXCEPT ![h] = r]
    /\ Goto(h, "acquiring")
    /\ receipts' = receipts + 1
    /\ UNCHANGED <<ring, outgoing, adding, limits, hours, faults, order, kept, resent, windows>>

Acquire(h) ==
    /\ pc[h] = "acquiring" /\ permits > 0
    /\ permits' = permits - 1
    /\ Goto(h, "looking")
    /\ UNCHANGED <<ring, outgoing, adding, counter, windowOver, job, bounds, order, kept, resent, windows>>

\* The context of the connection ends while the handler waits.
AcquireFails(h) ==
    /\ pc[h] = "acquiring"
    /\ Goto(h, "idle") /\ job' = [job EXCEPT ![h] = Nil]
    /\ UNCHANGED <<ring, outgoing, adding, limits, bounds, order, kept, resent, windows>>

\* Mutant: the permit is not given back.
ReturnHolding(h) ==
    /\ pc' = [pc EXCEPT ![h] = "idle"] /\ job' = [job EXCEPT ![h] = Nil]
    /\ UNCHANGED permits

\* Every way out, a panic included, releases the permit.
Return(h) ==
    /\ pc' = [pc EXCEPT ![h] = "idle"] /\ job' = [job EXCEPT ![h] = Nil]
    /\ permits' = permits + 1

\* getMessageForRetry: the ring under the chat's address or its alternate, then the
\* store, or without it the application's GetMessageForRetry.
Findable(m) == m \in recentMessagesMap \/ ~UseRetryMessageStore \/ outgoing[m] # "none"

\* It is not found either when the receipt names neither address it was sent to, and
\* a failing lookup of the alternate address or of the store is an error.
getMessageForRetry(h) ==
    /\ pc[h] = "looking"
    /\ \/ Findable(MessageOf(job[h])) /\ Goto(h, "counting") /\ UNCHANGED <<permits, job>>
       \/ Return(h)
    /\ UNCHANGED <<ring, outgoing, adding, counter, windowOver, bounds, order, kept, resent, windows>>

\* incrementBoundedCounter: the entries of the last window are dropped, then a new
\* entry needs room.
counterNow == IF windowOver THEN [r \in Requests |-> 0] ELSE counter
Entries == {r \in Requests : counterNow[r] > 0}
\* Mutant: the counter grows without bound.
AcceptAlways(r) == TRUE

accepted(r) == r \in Entries \/ Cardinality(Entries) < maxIncomingRetryEntries

\* Mutant: the limit is the last number allowed.
AcceptOneMore(count) == count <= RetryLimit

withinLimit(count) == count < RetryLimit

acceptIncomingRetry(h) ==
    LET r == job[h]
        counted == IF accepted(r) THEN [counterNow EXCEPT ![r] = @ + 1] ELSE counterNow IN
    /\ pc[h] = "counting"
    /\ counter' = counted /\ windowOver' = FALSE
    /\ windows' = IF windowOver THEN windows + 1 ELSE windows
    /\ IF accepted(r) /\ withinLimit(counted[r])
       THEN Goto(h, "preparing") /\ UNCHANGED <<permits, job>>
       ELSE Return(h)
    /\ UNCHANGED <<ring, outgoing, adding, bounds, order, kept, resent>>

\* PreRetryCallback may cancel; reading the bundle, fetching prekeys or encrypting
\* may fail.
PrepareRetry(h) ==
    /\ pc[h] = "preparing"
    /\ \/ Goto(h, "sending") /\ UNCHANGED <<permits, job>>
       \/ Return(h)
    /\ UNCHANGED <<ring, outgoing, adding, counter, windowOver, bounds, order, kept, resent, windows>>

SendRetry(h) ==
    /\ pc[h] = "sending"
    /\ \/ resent' = [resent EXCEPT ![job[h]] = @ + 1] /\ UNCHANGED bounds
       \/ Fault /\ UNCHANGED resent
    /\ Return(h)
    /\ UNCHANGED <<ring, outgoing, adding, counter, windowOver, order, kept, windows>>

-----------------------------------------------------------------------------
(* Time and the end of the process                                         *)

HourPasses ==
    /\ hours < MaxHours /\ hours' = hours + 1
    /\ windowOver' = TRUE
    /\ UNCHANGED <<ring, outgoing, adding, counter, permits, pc, job, receipts, faults, order, kept, resent, windows>>

\* Rows that DeleteOldOutgoingEvents will remove.
WeekPasses(m) ==
    /\ outgoing[m] = "fresh" /\ m # adding /\ hours < MaxHours /\ hours' = hours + 1
    /\ outgoing' = [outgoing EXCEPT ![m] = "old"]
    /\ windowOver' = TRUE /\ kept' = kept \ {m}
    /\ UNCHANGED <<ring, adding, counter, permits, pc, job, receipts, faults, order, resent, windows>>

Crash ==
    /\ Fault
    /\ recentMessagesList' = <<>> /\ recentMessagesPtr' = 0 /\ recentMessagesMap' = {}
    /\ adding' = Nil
    /\ counter' = [r \in Requests |-> 0] /\ windowOver' = TRUE /\ permits' = Parallel
    /\ pc' = [h \in Handlers |-> "idle"] /\ job' = [h \in Handlers |-> Nil]
    /\ order' = <<>>
    /\ UNCHANGED <<outgoing, kept, resent, windows>>

-----------------------------------------------------------------------------
Handle(h) ==
    \/ getMessageForRetry(h) \/ acceptIncomingRetry(h) \/ PrepareRetry(h) \/ SendRetry(h)

Next ==
    \/ \E m \in Messages : AddOutgoingEvent(m) \/ WeekPasses(m)
    \/ addRecentMessage
    \/ \E h \in Handlers :
          \/ \E r \in Requests : ReceiveRetry(h, r)
          \/ Acquire(h) \/ AcquireFails(h) \/ Handle(h)
    \/ HourPasses \/ Crash

Spec == Init /\ [][Next]_vars

-----------------------------------------------------------------------------
(* Properties                                                              *)

\* The ring and its map hold exactly the last recentMessagesSize messages that were
\* put into them, each once: a message is not forgotten before its turn, and the two
\* never disagree although they are changed by three different branches.
RecentAreKept ==
    /\ recentMessagesMap = Range(order) /\ Range(recentMessagesList) = Range(order)
    /\ Len(recentMessagesList) = Len(order)

\* With UseRetryMessageStore a message that SendMessage went on to send can be sent
\* again after a restart, for a week.
SentSurviveRestart ==
    UseRetryMessageStore => \A m \in kept : outgoing[m] # "none"

\* However many receipts arrive for a message, and whichever handlers deal with them
\* at once, one requester is answered fewer than RetryLimit times for each window.
ResendsBounded == \A r \in Requests : resent[r] <= (RetryLimit - 1) * windows

\* Every permit of retrySema is free or with a handler that is at work, whichever
\* way the earlier ones came to their end: none is lost, so a receipt that waits for
\* a permit waits for a handler that will give one back.
PermitsAreHeld ==
    permits + Cardinality({h \in Handlers : pc[h] \notin {"idle", "acquiring"}}) = Parallel
=============================================================================
