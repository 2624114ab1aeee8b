--------------------------- MODULE MessageReceive ---------------------------
(***************************************************************************)
(* Receiving messages: handleEncryptedMessage, decryptMessages and          *)
(* bufferedDecrypt with the decrypted event buffer, the receipts, acks and  *)
(* retry receipts that answer a stanza, and the request to the phone.       *)
(*                                                                         *)
(* The server keeps a stanza until it is acknowledged and delivers it again *)
(* on the next connection.  The process can crash between any two steps:    *)
(* the Signal store and the event buffer survive, counters and goroutines   *)
(* do not.  The handler queue runs one handler at a time, but it gives up   *)
(* waiting for one after five minutes and a reconnect after five seconds    *)
(* (module Connection), so that a stanza may be handled beside others, and  *)
(* beside itself when it is delivered again.                                *)
(***************************************************************************)
EXTENDS Naturals, Sequences, FiniteSets, Bags

CONSTANTS
    Handlers,        \* the goroutines of the handler queues
    Messages,
    Encs,            \* the number of <enc> children of a message
    Unavailable,     \* messages whose stanza has an <unavailable> child
    Plaintext,       \* newsletter messages, which are not encrypted
    Unparsable,      \* messages whose stanza parseMessageInfo rejects
    Undecodable,     \* children whose plaintext is missing or not a valid protobuf
    BadPadding,      \* ciphertexts whose plaintext has invalid padding
    UnknownType, UnknownVersion,   \* children of a type or a version nobody handles
    RetryLimit,      \* the retry count at which sendRetryReceipt gives up (5)
    RetryCapacity,   \* maxMessageRetryEntries
    Configs,         \* the client configurations to consider
    Inboxes,         \* the sets of messages that may wait on the server
    NoStanza,
    Fallible,        \* bound: the messages whose decryption may fail
    Beside,          \* bound: the messages a second handler may take up
    MaxCrashes, MaxDrops    \* bounds: restarts and lost connections

ASSUME ReceiveAssumption ==
    /\ Encs \in [Messages -> Nat]
    /\ Plaintext \subseteq Messages /\ Unavailable \subseteq Messages
    /\ Unparsable \subseteq Messages
    /\ RetryLimit \in Nat \ {0} /\ RetryCapacity \in Nat
    /\ Configs \subseteq [sync : BOOLEAN, buffer : BOOLEAN, rerequest : BOOLEAN]
    /\ Inboxes \subseteq SUBSET Messages
    /\ MaxCrashes \in Nat /\ MaxDrops \in Nat

\* The original stanza of a message is attempt 0; the sender's answer to a retry
\* receipt with count n is attempt n.
Stanzas == [msg : Messages, attempt : 0..RetryLimit - 1]
ASSUME NoStanzaAssumption == NoStanza \notin Stanzas

Children(s) == IF s.attempt = 0 /\ s.msg \notin Plaintext THEN Encs[s.msg] ELSE 1
Cipher(s, k) == <<s.msg, s.attempt, k>>
CiphersOf(s) == {Cipher(s, k) : k \in 1..Children(s)}

VARIABLES
    config,       \* SynchronousAck, EnableDecryptedEventBuffer, AutomaticMessageRerequestFromPhone
    held,         \* stanzas the server keeps until they are acknowledged
    asked,        \* retry receipts the server has received: <<message, count>>
    phoned,       \* messages the phone was asked for
    resent,       \* retry receipts the sender has answered
    receipted,    \* stanzas acknowledged as received
    dropped,      \* stanzas acknowledged although they were not decrypted
    up,           \* the connection is up
    delivered,    \* stanzas delivered on this connection
    consumed,     \* store: ciphertexts whose Signal message key is used up
    buffer,       \* store: the event buffer, ciphertexts with a row
    cleared,      \* store: rows whose plaintext has been set to NULL
    pc, cur, child,   \* of a handler: its place, its stanza, the current child
    failed,       \* of a handler: protobufFailed
    todo,         \* of a handler: what it still has to send
    goroutines,   \* what background goroutines still have to send
    retries,      \* cli.messageRetries; 0 stands for no entry
    phone,        \* delayedRequestMessageFromPhone of a message
    handled,      \* history: ciphertexts that every event handler accepted
    times,        \* history: how often a ciphertext was dispatched
    unclear,      \* history: ciphertexts whose plaintext could not be cleared
    overlapped,   \* history: two handlers were at work at once
    twice,        \* history: stanzas that two handlers were at at once
    crashes, drops

server == <<held, asked, phoned, resent, receipted, dropped>>
stored == <<consumed, buffer, cleared>>
frame == <<pc, cur, child, failed>>
sends == <<todo, goroutines, retries, phone>>
history == <<handled, times, unclear, overlapped, twice>>
network == <<up, delivered, crashes, drops>>
vars == <<config, server, stored, frame, sends, history, network>>

AllCiphers == UNION {CiphersOf(s) : s \in Stanzas}
Places == {"idle", "plaintext", "unavailable", "lookup", "decrypt", "unpad", "dispatch",
           "clear", "next", "send", "event"}
Steps == [do : {"retry", "phone", "delayed", "ack", "nack", "receipt"}, count : {0}]
            \cup [do : {"ask"}, count : 1..RetryLimit]

Do(what) == [do |-> what, count |-> 0]
Goroutine(s, steps) == [stanza |-> s, todo |-> steps]

TypeOK ==
    /\ config \in Configs
    /\ held \subseteq Stanzas /\ receipted \subseteq Stanzas /\ dropped \subseteq Stanzas
    /\ asked \subseteq Messages \X (1..RetryLimit - 1)
    /\ phoned \subseteq Messages /\ resent \subseteq asked
    /\ up \in BOOLEAN /\ delivered \subseteq Stanzas
    /\ consumed \subseteq AllCiphers /\ buffer \subseteq AllCiphers /\ cleared \subseteq buffer
    /\ pc \in [Handlers -> Places] /\ cur \in [Handlers -> Stanzas \cup {NoStanza}]
    /\ child \in [Handlers -> Nat] /\ failed \in [Handlers -> BOOLEAN]
    /\ todo \in [Handlers -> Seq(Steps)]
    /\ IsABag(goroutines) /\ BagToSet(goroutines) \subseteq [stanza : Stanzas, todo : Seq(Steps)]
    /\ retries \in [Messages -> Nat]
    /\ phone \in [Messages -> {"none", "waiting", "cancelled"}]
    /\ handled \subseteq AllCiphers /\ times \in [AllCiphers -> Nat] /\ unclear \subseteq AllCiphers
    /\ overlapped \in BOOLEAN /\ twice \subseteq Stanzas
    /\ crashes \in 0..MaxCrashes /\ drops \in 0..MaxDrops

Init ==
    /\ config \in Configs
    /\ \E inbox \in Inboxes : held = {[msg |-> m, attempt |-> 0] : m \in inbox}
    /\ asked = {} /\ phoned = {} /\ resent = {} /\ receipted = {} /\ dropped = {}
    /\ up = TRUE /\ delivered = {}
    /\ consumed = {} /\ buffer = {} /\ cleared = {}
    /\ pc = [h \in Handlers |-> "idle"] /\ cur = [h \in Handlers |-> NoStanza]
    /\ child = [h \in Handlers |-> 1] /\ failed = [h \in Handlers |-> FALSE]
    /\ todo = [h \in Handlers |-> <<>>] /\ goroutines = EmptyBag
    /\ retries = [m \in Messages |-> 0] /\ phone = [m \in Messages |-> "none"]
    /\ handled = {} /\ times = [x \in AllCiphers |-> 0] /\ unclear = {}
    /\ overlapped = FALSE /\ twice = {}
    /\ crashes = 0 /\ drops = 0

-----------------------------------------------------------------------------
(* The handler                                                             *)

This(h) == Cipher(cur[h], child[h])
Goto(h, place) == pc' = [pc EXCEPT ![h] = place] /\ UNCHANGED <<cur, child, failed>>
Returns(h) ==
    /\ pc' = [pc EXCEPT ![h] = "idle"] /\ cur' = [cur EXCEPT ![h] = NoStanza]
    /\ child' = [child EXCEPT ![h] = 1] /\ failed' = [failed EXCEPT ![h] = FALSE]
ToSend(h, steps) == todo' = [todo EXCEPT ![h] = steps]

\* Where a child goes that is done with: its buffered plaintext is cleared.
Cleared == IF config.buffer THEN "clear" ELSE "next"

\* backgroundIfAsyncAck: the handler sends itself, or starts a goroutine.
Background(h, steps, then) ==
    /\ IF config.sync
       THEN ToSend(h, steps) /\ Goto(h, "send") /\ UNCHANGED goroutines
       ELSE /\ goroutines' = goroutines (+) SetToBag({Goroutine(cur[h], steps)})
            /\ IF then = "idle" THEN Returns(h) ELSE Goto(h, then)
            /\ UNCHANGED todo
    /\ UNCHANGED <<retries, phone>>

\* parseMessageInfo succeeds.
parseMessageInfo(s) == s.msg \notin Unparsable

\* handleNode hands a stanza to handleEncryptedMessage, which refuses one that
\* it cannot parse.
handleEncryptedMessage(h, s) ==
    LET others == {cur[g] : g \in {g \in Handlers : pc[g] # "idle"}} IN
    /\ up /\ pc[h] = "idle" /\ s \in held \ delivered
    /\ others = {} \/ s.msg \in Beside
    /\ delivered' = delivered \cup {s}
    /\ cur' = [cur EXCEPT ![h] = s]
    /\ ToSend(h, IF parseMessageInfo(s) THEN <<>> ELSE <<Do("nack")>>)
    /\ pc' = [pc EXCEPT ![h] =
                 CASE ~parseMessageInfo(s) -> "send"
                   [] s.msg \in Plaintext -> "plaintext"
                   [] Children(s) = 0 /\ s.msg \in Unavailable -> "unavailable"
                   [] Children(s) = 0 /\ parseMessageInfo(s) /\ s.msg \notin Plaintext \cup Unavailable -> "next"
                   [] OTHER -> "lookup"]
    \* maybeDeferredAck acknowledges at once unless SynchronousAck is set.
    /\ goroutines' = IF s.msg \in Plaintext /\ ~config.sync
                     THEN goroutines (+) SetToBag({Goroutine(s, <<Do("receipt")>>)})
                     ELSE goroutines
    /\ overlapped' = (overlapped \/ others # {}) /\ twice' = twice \cup (others \cap {s})
    /\ UNCHANGED <<config, server, stored, child, failed, handled, times, unclear,
                   up, crashes, drops, retries, phone>>

\* dispatchEvent: a handler that panics counts as one that succeeded.
Dispatched(h, ok) ==
    /\ times' = [times EXCEPT ![This(h)] = @ + 1]
    /\ handled' = IF ok THEN handled \cup {This(h)} ELSE handled
    /\ UNCHANGED <<unclear, overlapped, twice>>

\* A plaintext that cannot be decoded is acknowledged without an event.
handlePlaintextMessage(h) ==
    /\ pc[h] = "plaintext"
    /\ \E ok \in BOOLEAN :
          /\ IF This(h) \in Undecodable THEN ok /\ UNCHANGED history ELSE Dispatched(h, ok)
          /\ IF ok /\ config.sync
             THEN ToSend(h, <<Do("receipt")>>) /\ Goto(h, "send")
             ELSE Returns(h) /\ UNCHANGED todo
    /\ UNCHANGED <<config, server, stored, network, goroutines, retries, phone>>

\* A stanza without <enc> is asked from the phone.
UnavailableMessage(h) ==
    /\ pc[h] = "unavailable"
    /\ Background(h, <<Do("phone"), Do("ack")>>, "event")
    /\ UNCHANGED <<config, server, stored, history, network>>

\* Mutant: a row without plaintext is taken for a row with an empty one.
GetBufferedEventCleared(h) ==
    /\ pc[h] = "lookup"
    /\ Goto(h, IF config.buffer /\ This(h) \in buffer THEN "unpad" ELSE "decrypt")
    /\ UNCHANGED <<config, server, stored, sends, history, network>>

\* The next child is of a type that decryptMessages knows.
Recognized(h) == This(h) \notin UnknownType

\* bufferedDecrypt reads the event buffer: a row whose plaintext
\* was cleared means the event was already processed.
GetBufferedEvent(h) ==
    /\ pc[h] = "lookup"
    /\ Goto(h, CASE ~Recognized(h) -> "next"
                 [] This(h) \in buffer /\ config.buffer -> IF This(h) \in cleared THEN "next" ELSE "unpad"
                 [] OTHER -> "decrypt")
    /\ UNCHANGED <<config, server, stored, sends, history, network>>

\* Mutant: the plaintext is buffered after the transaction, and is lost.
DecryptionBuffersLate(h) ==
    /\ pc[h] = "decrypt" /\ This(h) \notin consumed
    /\ consumed' = consumed \cup {This(h)}
    /\ Goto(h, "unpad")
    /\ UNCHANGED <<config, server, buffer, cleared, sends, history, network>>

\* Mutant: the session is not stored after the decryption.
DecryptionKeepsKey(h) ==
    /\ pc[h] = "decrypt" /\ This(h) \notin consumed
    /\ buffer' = IF config.buffer THEN buffer \cup {This(h)} ELSE buffer
    /\ Goto(h, "unpad")
    /\ UNCHANGED <<config, server, consumed, cleared, sends, history, network>>

\* Decryption and the insertion into the buffer are one transaction.  A used
\* message key is ErrOldCounter, which is ignored; any other error is answered.
\* Handlers that loaded one session before either stored it (module Sessions) can
\* use the key both, and the later store brings back keys the earlier one used up.
DoDecryptionTxn(h) ==
    /\ pc[h] = "decrypt" /\ (This(h) \notin consumed \/ cur[h] \in twice)
    /\ \E back \in IF overlapped THEN SUBSET consumed ELSE {{}} :
          consumed' = (consumed \ back) \cup {This(h)}
    /\ buffer' = IF config.buffer THEN buffer \cup {This(h)} ELSE buffer
    /\ Goto(h, "unpad")
    /\ UNCHANGED <<config, server, cleared, sends, history, network>>

ErrOldCounter(h) ==
    /\ pc[h] = "decrypt" /\ This(h) \in consumed
    /\ Goto(h, "next")
    /\ UNCHANGED <<config, server, stored, sends, history, network>>

\* How a message that cannot be decrypted is answered: a retry receipt and an ack,
\* in this order or in two goroutines, and then an UndecryptableMessage event.
Fails(h) ==
    IF config.sync
    THEN ToSend(h, <<Do("retry"), Do("ack")>>) /\ Goto(h, "send") /\ UNCHANGED <<goroutines, retries, phone>>
    ELSE /\ goroutines' = goroutines (+) SetToBag({Goroutine(cur[h], <<Do("retry")>>),
                                                  Goroutine(cur[h], <<Do("ack")>>)})
         /\ Goto(h, "event")
         /\ UNCHANGED <<todo, retries, phone>>

\* A decryption error is not answered once the application has cancelled the
\* context it connected with, which outlives the connection.
FailsUnlessCancelled(h) == Fails(h) \/ (Returns(h) /\ UNCHANGED sends)

ResolveLIDFails(h) ==
    /\ pc[h] = "lookup" /\ child[h] = 1 /\ cur[h].msg \in Fallible
    /\ Fails(h)
    /\ UNCHANGED <<config, server, stored, history, network>>

\* GetBufferedEvent or the decryption itself fails.
DecryptionFails(h) ==
    /\ \/ pc[h] = "lookup" /\ config.buffer /\ Recognized(h)
       \/ pc[h] = "decrypt" /\ This(h) \notin consumed
    /\ cur[h].msg \in Fallible /\ FailsUnlessCancelled(h)
    /\ UNCHANGED <<config, server, stored, history, network>>

\* unpadMessage succeeds.
unpadMessage(h) == This(h) \notin BadPadding

cancelDelayedRequestFromPhone(m) ==
    phone' = [phone EXCEPT ![m] = IF @ = "waiting" THEN "cancelled" ELSE @]

\* unpadMessage, cancelDelayedRequestFromPhone and proto.Unmarshal.
Unpad(h) ==
    /\ pc[h] = "unpad"
    /\ IF ~unpadMessage(h)
       THEN FailsUnlessCancelled(h)
       ELSE /\ cancelDelayedRequestFromPhone(cur[h].msg)
            /\ UNCHANGED <<todo, goroutines, retries>>
            /\ UNCHANGED <<cur, child>>
            /\ failed' = [failed EXCEPT ![h] = IF This(h) \in UnknownVersion THEN @ ELSE This(h) \in Undecodable]
            /\ pc' = [pc EXCEPT ![h] = CASE This(h) \in Undecodable -> "next"
                                         [] This(h) \in UnknownVersion -> Cleared
                                         [] OTHER -> "dispatch"]
    /\ UNCHANGED <<config, server, stored, history, network>>

\* handleDecryptedMessage: when a handler fails the stanza stays unacknowledged.
handleDecryptedMessage(h) ==
    /\ pc[h] = "dispatch"
    /\ \E ok \in BOOLEAN :
          /\ Dispatched(h, ok)
          /\ IF ok THEN Goto(h, Cleared) ELSE Returns(h)
    /\ UNCHANGED <<config, server, stored, sends, network>>

\* ClearBufferedEventPlaintext; its failure is only logged.
ClearBufferedEventPlaintext(h) ==
    /\ pc[h] = "clear"
    /\ \/ cleared' = cleared \cup (buffer \cap {This(h)}) /\ UNCHANGED unclear
       \/ unclear' = unclear \cup {This(h)} /\ UNCHANGED cleared
    /\ Goto(h, "next")
    /\ UNCHANGED <<config, server, consumed, buffer, sends, handled, times, overlapped, twice, network>>

\* The end of the loop body, and the receipt after the last child.
NextChild(h) ==
    /\ pc[h] = "next"
    /\ IF child[h] < Children(cur[h])
       THEN /\ pc' = [pc EXCEPT ![h] = "lookup"] /\ child' = [child EXCEPT ![h] = @ + 1]
            /\ UNCHANGED <<cur, failed, sends>>
       ELSE Background(h, <<Do(IF failed[h] \/ Children(cur[h]) = 0 THEN "nack" ELSE "receipt")>>, "idle")
    /\ UNCHANGED <<config, server, stored, history, network>>

\* UndecryptableMessage: whatever the handlers return is ignored.
DispatchUndecryptable(h) ==
    /\ pc[h] = "event"
    /\ Returns(h)
    /\ UNCHANGED <<config, server, stored, sends, history, network>>

-----------------------------------------------------------------------------
(* What is sent                                                            *)

Acknowledged(s) == held' = held \ {s}

\* sendNode reaches the server while a connection is up, or fails: there is none, or
\* its context has been cancelled.  A failure is only logged.
Reaches(s, step) ==
    \/ UNCHANGED server
    \/ /\ up /\ step.do = "receipt" /\ Acknowledged(s)
       /\ receipted' = receipted \cup {s} /\ UNCHANGED <<asked, phoned, resent, dropped>>
    \/ /\ up /\ step.do = "ack" /\ Acknowledged(s)
       /\ dropped' = dropped \cup {s} /\ UNCHANGED <<asked, phoned, resent, receipted>>
    \/ /\ up /\ step.do = "nack" /\ Acknowledged(s)
       /\ UNCHANGED <<asked, phoned, resent, receipted, dropped>>
    \/ /\ up /\ step.do = "ask" /\ asked' = asked \cup {<<s.msg, step.count>>}
       /\ UNCHANGED <<held, phoned, resent, receipted, dropped>>
    \/ /\ up /\ step.do = "phone" /\ phoned' = phoned \cup {s.msg}
       /\ UNCHANGED <<held, asked, resent, receipted, dropped>>

\* incrementBoundedCounter: the counters are forgotten every hour, and a new
\* entry is refused when the map is full.  The result 0 stands for a refusal.
Forgotten == [m \in Messages |-> 0]
Tracked(counters) == {m \in Messages : counters[m] > 0}
incrementBoundedCounter(counters, m) ==
    IF counters[m] = 0 /\ Cardinality(Tracked(counters)) >= RetryCapacity
    THEN 0 ELSE counters[m] + 1

\* Mutant: the limit itself is still sent.
sendRetryReceiptAtLimit(s) ==
    {[retries |-> [counters EXCEPT ![s.msg] = @ + 1],
      steps |-> IF counters[s.msg] < RetryLimit
                THEN <<[do |-> "ask", count |-> counters[s.msg] + 1]>> ELSE <<>>,
      delayed |-> EmptyBag] : counters \in {retries, Forgotten}}

\* sendRetryReceipt takes the count of a resent message when it has no counter,
\* and gives up at RetryLimit.  Its possible outcomes: the counters, what is to
\* be sent, and whether the goroutine of delayedRequestMessageFromPhone starts.
sendRetryReceipt(s) ==
    {LET incremented == incrementBoundedCounter(counters, s.msg)
         count == IF incremented = 1 /\ s.attempt > 0 THEN s.attempt + 1 ELSE incremented
         sent == count \in 1..RetryLimit - 1
         first == sent /\ count = 1 IN
     [retries |-> IF count = 0 THEN counters ELSE [counters EXCEPT ![s.msg] = count],
      steps |-> IF ~sent THEN <<>>
                ELSE (IF first /\ config.sync THEN <<Do("phone")>> ELSE <<>>)
                        \o <<[do |-> "ask", count |-> count]>>,
      delayed |-> IF first /\ ~config.sync
                  THEN SetToBag({Goroutine(s, <<Do("delayed")>>)}) ELSE EmptyBag]
     : counters \in {retries, Forgotten}}

\* delayedRequestMessageFromPhone, up to its select.
delayedRequestMessageFromPhone(m) ==
    phone' = IF config.rerequest /\ phone[m] = "none"
             THEN [phone EXCEPT ![m] = "waiting"] ELSE phone

\* The handler sends; a failure ends in an UndecryptableMessage event.
HandlerSends(h) ==
    /\ pc[h] = "send" /\ todo[h] # <<>>
    /\ \/ /\ Head(todo[h]).do = "retry"
          /\ \E o \in sendRetryReceipt(cur[h]) :
                retries' = o.retries /\ ToSend(h, o.steps \o Tail(todo[h]))
          /\ UNCHANGED <<frame, server>>
       \/ /\ Head(todo[h]).do # "retry"
          /\ Reaches(cur[h], Head(todo[h])) /\ ToSend(h, Tail(todo[h]))
          /\ IF Tail(todo[h]) # <<>> THEN UNCHANGED frame
             ELSE IF Head(todo[h]).do = "ack" THEN Goto(h, "event") ELSE Returns(h)
          /\ UNCHANGED retries
    /\ UNCHANGED <<config, stored, goroutines, phone, history, network>>

\* A goroutine sends.
Rest(g, steps) ==
    goroutines (-) SetToBag({g}) (+) (IF steps = <<>> THEN EmptyBag
                                      ELSE SetToBag({Goroutine(g.stanza, steps)}))

GoroutineSends(g) ==
    /\ \/ /\ Head(g.todo).do = "retry"
          /\ \E o \in sendRetryReceipt(g.stanza) :
                /\ retries' = o.retries
                /\ goroutines' = Rest(g, o.steps \o Tail(g.todo)) (+) o.delayed
          /\ UNCHANGED <<phone, server>>
       \/ /\ Head(g.todo).do = "delayed"
          /\ delayedRequestMessageFromPhone(g.stanza.msg)
          /\ goroutines' = Rest(g, Tail(g.todo))
          /\ UNCHANGED <<retries, server>>
       \/ /\ Head(g.todo).do \notin {"retry", "delayed"}
          /\ Reaches(g.stanza, Head(g.todo))
          /\ goroutines' = Rest(g, Tail(g.todo))
          /\ UNCHANGED <<retries, phone>>
    /\ UNCHANGED <<config, stored, frame, todo, history, network>>

\* The select of delayedRequestMessageFromPhone.
RequestFromPhone(m) ==
    /\ phone[m] # "none"
    /\ phone' = [phone EXCEPT ![m] = "none"]
    /\ phoned' = IF phone[m] = "waiting" /\ up THEN phoned \cup {m} ELSE phoned
    /\ UNCHANGED <<config, held, asked, resent, receipted, dropped, stored, frame, todo,
                   goroutines, retries, history, network>>

-----------------------------------------------------------------------------
(* The surroundings                                                        *)

\* The sender answers a retry receipt with a new ciphertext.
SenderResends(m, count) ==
    /\ <<m, count>> \in asked \ resent
    /\ resent' = resent \cup {<<m, count>>}
    /\ held' = held \cup {[msg |-> m, attempt |-> count]}
    /\ UNCHANGED <<config, asked, phoned, receipted, dropped, stored, frame, sends, history, network>>

\* The server keeps stanzas for 14 days, so the rows older than that belong to
\* stanzas that will not be delivered any more.
DeleteOldBufferedHashes ==
    /\ LET old == {c \in buffer : \A s \in (held \cup {cur[h] : h \in Handlers}) \ {NoStanza} :
                                     c \notin CiphersOf(s)} IN
          /\ old # {} /\ buffer' = buffer \ old /\ cleared' = cleared \ old
    /\ UNCHANGED <<config, server, consumed, frame, sends, history, network>>

\* The connection ends; Disconnect also cancels the delayed requests to the phone.
Drop ==
    /\ up /\ drops < MaxDrops
    /\ up' = FALSE /\ drops' = drops + 1
    /\ \/ UNCHANGED phone
       \/ phone' = [m \in Messages |-> IF phone[m] = "waiting" THEN "cancelled" ELSE phone[m]]
    /\ UNCHANGED <<config, server, stored, frame, todo, goroutines, retries, history,
                   delivered, crashes>>

\* What is held is delivered again.  The reconnect waits for the handler queue, but
\* not for ever, and not for a handler that the queue has given up.
Reconnect ==
    /\ ~up /\ up' = TRUE /\ delivered' = {}
    /\ UNCHANGED <<config, server, stored, frame, sends, history, drops, crashes>>

Crash ==
    /\ crashes < MaxCrashes /\ crashes' = crashes + 1
    /\ up' = FALSE
    /\ pc' = [h \in Handlers |-> "idle"] /\ cur' = [h \in Handlers |-> NoStanza]
    /\ child' = [h \in Handlers |-> 1] /\ failed' = [h \in Handlers |-> FALSE]
    /\ todo' = [h \in Handlers |-> <<>>] /\ goroutines' = EmptyBag
    /\ retries' = Forgotten /\ phone' = [m \in Messages |-> "none"]
    /\ UNCHANGED <<config, server, stored, history, delivered, drops>>

-----------------------------------------------------------------------------
HandlerSteps(h) ==
    \/ \E s \in Stanzas : handleEncryptedMessage(h, s)
    \/ handlePlaintextMessage(h) \/ UnavailableMessage(h) \/ GetBufferedEvent(h)
    \/ DoDecryptionTxn(h) \/ ErrOldCounter(h) \/ ResolveLIDFails(h) \/ DecryptionFails(h) \/ Unpad(h)
    \/ handleDecryptedMessage(h) \/ ClearBufferedEventPlaintext(h) \/ NextChild(h)
    \/ DispatchUndecryptable(h) \/ HandlerSends(h)

Next ==
    \/ \E h \in Handlers : HandlerSteps(h)
    \/ \E g \in BagToSet(goroutines) : GoroutineSends(g)
    \/ \E m \in Messages : RequestFromPhone(m)
    \/ \E m \in Messages, count \in 1..RetryLimit - 1 : SenderResends(m, count)
    \/ DeleteOldBufferedHashes
    \/ Drop \/ Reconnect \/ Crash

Spec == Init /\ [][Next]_vars

-----------------------------------------------------------------------------
(* Properties                                                              *)

\* An acknowledgement is the promise that the event handlers accepted every
\* child of the stanza, or that the client cannot read it: with the decrypted event
\* buffer no crash, lost connection or redelivery makes the client acknowledge an
\* encrypted message the application has not seen, unless a stanza was delivered
\* again while a handler was still at it.  SynchronousAck promises it for newsletter
\* messages, which are not encrypted.
ReceiptMeansHandled ==
    \A s \in receipted \ twice :
        (IF s.msg \in Plaintext THEN config.sync ELSE config.buffer) =>
            CiphersOf(s) \subseteq handled \cup Undecodable \cup UnknownType \cup UnknownVersion

\* Without the buffer a ciphertext reaches the handlers at most once, however
\* often its stanza is delivered, as long as no two handlers are at work at once:
\* the message key is used up by the first.
AtMostOnce ==
    ~config.buffer /\ ~overlapped => \A c \in AllCiphers : c[1] \notin Plaintext => times[c] <= 1

\* With the buffer, an encrypted event the application has accepted is dispatched
\* again only after a crash, after a failure to clear its plaintext, or if its stanza
\* was delivered again while a handler was still at it: not because an
\* acknowledgement was lost, because another child of the stanza was refused, or
\* because other stanzas were handled at the same time.
AcceptedOnce ==
    [][\A s \in Stanzas \ twice : \A c \in CiphersOf(s) \cap handled :
          config.buffer /\ s.msg \notin Plaintext /\ times'[c] # times[c] =>
              crashes > 0 \/ c \in unclear]_vars

\* A message whose stanza the client gave up was asked again from its sender, or
\* will be: "The library will automatically ask the sender to retry."
\* (events.UndecryptableMessage)
Asking(m) ==
    \/ \E count \in 1..RetryLimit - 1 : <<m, count>> \in asked
    \/ \E g \in BagToSet(goroutines) :
          g.stanza.msg = m /\ \E k \in DOMAIN g.todo : g.todo[k].do \in {"retry", "ask"}
AskedBeforeGivingUp ==
    \A s \in dropped : Children(s) > 0 => Asking(s.msg)

=============================================================================
