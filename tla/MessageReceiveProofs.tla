------------------------ MODULE MessageReceiveProofs ------------------------
(***************************************************************************)
(* Proofs about MessageReceive, for any number of handlers.  A receipt is  *)
(* decided long before it is sent: PromiseAt and PromiseInv follow the     *)
(* promise from the child a handler is at to the step that waits in the    *)
(* handler or in a goroutine.  They rest on StoreInv: while the server may *)
(* still deliver a stanza, a message key that was used up has its row in   *)
(* the event buffer, and a row without plaintext belongs to an event that  *)
(* was settled; on ProgressAt: the children in front of the current one    *)
(* are settled; and on SerialInv: handlers that are at the same stanza     *)
(* have put it into twice, so that what a handler knows of the rows of its *)
(* stanza is changed by no other.                                          *)
(***************************************************************************)
EXTENDS MessageReceive, TLAPS

\* What is to be sent, and what of it is not a receipt.
SendSteps ==
    [do : {"retry", "phone", "delayed", "ack", "nack", "receipt"}, count : {0}]
        \cup [do : {"ask"}, count : 1..RetryLimit - 1]
Quiet == {step \in SendSteps : step.do # "receipt"}

ServerType ==
    /\ config \in Configs
    /\ held \subseteq Stanzas /\ receipted \subseteq Stanzas /\ dropped \subseteq Stanzas
    /\ asked \subseteq Messages \X (1..RetryLimit - 1)
    /\ phoned \subseteq Messages /\ resent \subseteq asked

StoreType ==
    /\ consumed \subseteq AllCiphers /\ buffer \subseteq AllCiphers /\ cleared \subseteq buffer

HistoryType ==
    /\ handled \subseteq AllCiphers /\ times \in [AllCiphers -> Nat] /\ unclear \subseteq AllCiphers
    /\ overlapped \in BOOLEAN /\ twice \subseteq Stanzas

FrameType ==
    /\ pc \in [Handlers -> Places] /\ cur \in [Handlers -> Stanzas \cup {NoStanza}]
    /\ child \in [Handlers -> Nat \ {0}] /\ failed \in [Handlers -> BOOLEAN]

NetworkType ==
    /\ up \in BOOLEAN /\ delivered \subseteq Stanzas
    /\ crashes \in 0..MaxCrashes /\ drops \in 0..MaxDrops

Routine == [stanza : Stanzas, todo : Seq(SendSteps)]
TodoType == todo \in [Handlers -> Seq(SendSteps)]
SendType ==
    /\ IsABag(goroutines)
    /\ \A g \in BagToSet(goroutines) : g \in Routine /\ g.todo # <<>>
    /\ retries \in [Messages -> Nat]
    /\ phone \in [Messages -> {"none", "waiting", "cancelled"}]

Types == ServerType /\ StoreType /\ HistoryType /\ FrameType /\ NetworkType /\ TodoType /\ SendType

\* The event is handled, or there is nothing the client could hand on.
Settled(c) == c \in handled \cup Undecodable \cup UnknownType \cup UnknownVersion

\* The stanza was on the server from the start, or the sender made it.
Offered(s) == s.attempt = 0 \/ <<s.msg, s.attempt>> \in resent
Deliverable == (held \cup {cur[h] : h \in Handlers}) \ {NoStanza}

\* What a receipt for the stanza says.
Promised(s) ==
    s \notin twice /\ (IF s.msg \in Plaintext THEN config.sync ELSE config.buffer)
        => \A c \in CiphersOf(s) : Settled(c)

-----------------------------------------------------------------------------
(* What holds of one handler                                               *)

\* Its place says what it works on.
PlaceAt(h) ==
    /\ pc[h] = "idle" <=> cur[h] = NoStanza
    /\ pc[h] = "idle" => child[h] = 1
    /\ pc[h] \in {"lookup", "decrypt", "unpad", "dispatch", "clear"} =>
          child[h] \in 1..Children(cur[h]) /\ cur[h].msg \notin Plaintext
    /\ pc[h] = "next" => cur[h].msg \notin Plaintext
    /\ pc[h] = "plaintext" => cur[h].msg \in Plaintext /\ child[h] = 1
    /\ pc[h] = "clear" => config.buffer

\* What it knows of the row of its child.
StoreAt(h) ==
    /\ pc[h] = "decrypt" /\ config.buffer /\ cur[h] \notin twice => This(h) \notin buffer
    /\ pc[h] \in {"unpad", "dispatch"} /\ cur[h] \notin twice => This(h) \notin cleared
    /\ pc[h] \in {"unpad", "dispatch", "clear"} /\ config.buffer => This(h) \in buffer
    /\ pc[h] = "clear" => Settled(This(h))

PromiseAt(h) == todo[h] \in Seq(Quiet) \/ (pc[h] = "send" /\ Promised(cur[h]))

\* The children before the current one are settled, and so is the current one when
\* the handler leaves it.
ProgressAt(h) ==
    config.buffer /\ cur[h] \notin twice =>
        /\ pc[h] \in {"lookup", "decrypt", "unpad", "dispatch"} =>
              \A k \in 1..Children(cur[h]) : k < child[h] => Settled(Cipher(cur[h], k))
        /\ pc[h] \in {"clear", "next"} =>
              \A k \in 1..Children(cur[h]) : k <= child[h] => Settled(Cipher(cur[h], k))

\* Without the buffer, a decrypted child has used up its message key.
CountAt(h) ==
    ~config.buffer /\ ~overlapped /\ pc[h] \in {"unpad", "dispatch"} =>
        times[This(h)] = 0 /\ This(h) \in consumed

At(h) == PlaceAt(h) /\ StoreAt(h) /\ PromiseAt(h) /\ ProgressAt(h) /\ CountAt(h)

-----------------------------------------------------------------------------
(* What the handlers share                                                 *)

\* Handlers that are at work at once are recorded.
SerialInv ==
    /\ twice # {} => overlapped
    /\ \A g, h \in Handlers : g # h /\ pc[g] # "idle" /\ pc[h] # "idle" =>
          overlapped /\ (cur[g] = cur[h] => cur[h] \in twice)

StoreInv ==
    /\ \A s \in Deliverable : Offered(s)
    /\ \A s \in Stanzas : CiphersOf(s) \cap (consumed \cup handled) # {} => Offered(s)
    /\ \A c \in buffer : c[1] \notin Plaintext
    /\ ~config.buffer => buffer = {}
    /\ config.buffer => \A s \in Deliverable : CiphersOf(s) \cap consumed \subseteq buffer
    /\ \A c \in cleared : Settled(c)

PromiseInv ==
    /\ \A s \in receipted : Promised(s)
    /\ \A g \in BagToSet(goroutines) : g.todo \in Seq(Quiet) \/ Promised(g.stanza)

CountInv ==
    ~config.buffer /\ ~overlapped =>
        \A c \in AllCiphers : c[1] \notin Plaintext =>
            times[c] <= 1 /\ (times[c] = 1 => c \in consumed)

\* An accepted event whose stanza may come again is cleared, or about to be, or
\* the clearing failed or was cut off by a crash.
Recorded(c) ==
    \/ c \in cleared \/ c \in unclear \/ crashes > 0
    \/ \E h \in Handlers : pc[h] = "clear" /\ This(h) = c
AcceptInv ==
    config.buffer =>
        \A s \in Deliverable : s \notin twice /\ s.msg \notin Plaintext =>
            \A c \in CiphersOf(s) : c \in handled => Recorded(c)

Shared == SerialInv /\ StoreInv /\ PromiseInv /\ CountInv /\ AcceptInv
IInv == Types /\ Shared /\ \A h \in Handlers : At(h)

-----------------------------------------------------------------------------
(* Operators                                                               *)

\* Bags of goroutines: starting some adds them.
LEMMA BagPlus ==
    ASSUME NEW A, NEW B, IsABag(A), IsABag(B)
    PROVE  IsABag(A (+) B) /\ BagToSet(A (+) B) = BagToSet(A) \cup BagToSet(B)
  <1>1. BagToSet(A (+) B) = BagToSet(A) \cup BagToSet(B)
    BY DEF BagToSet, (+)
  <1>2. IsABag(A (+) B)
    BY DEF IsABag, (+)
  <1> QED BY <1>1, <1>2

\* Ending one adds none.
LEMMA BagMinus ==
    ASSUME NEW A, NEW B, IsABag(A), IsABag(B)
    PROVE  IsABag(A (-) B) /\ BagToSet(A (-) B) \subseteq BagToSet(A)
  BY DEF IsABag, (-), BagToSet

\* The bag of a set has its elements.
LEMMA BagOfSet ==
    ASSUME NEW S
    PROVE  /\ IsABag(SetToBag(S)) /\ BagToSet(SetToBag(S)) = S
           /\ IsABag(EmptyBag) /\ BagToSet(EmptyBag) = {}
  BY DEF IsABag, SetToBag, EmptyBag, BagToSet

\* The steps a handler or a goroutine can be given.
LEMMA StepFacts ==
    /\ \A what \in {"retry", "phone", "delayed", "ack", "nack"} : Do(what) \in Quiet
    /\ Do("receipt") \in SendSteps /\ Do("receipt").do = "receipt"
    /\ Quiet \subseteq SendSteps /\ Seq(Quiet) \subseteq Seq(SendSteps)
    /\ \A count \in 1..RetryLimit - 1 : [do |-> "ask", count |-> count] \in Quiet
  <1>1. \A what \in {"retry", "phone", "delayed", "ack", "nack"} : Do(what) \in Quiet
    BY DEF Do, Quiet, SendSteps
  <1>2. Do("receipt") \in SendSteps /\ Do("receipt").do = "receipt"
    BY DEF Do, SendSteps
  <1>3. Quiet \subseteq SendSteps
    BY DEF Quiet
  <1>4. Seq(Quiet) \subseteq Seq(SendSteps)
    BY <1>3
  <1>5. \A count \in 1..RetryLimit - 1 : [do |-> "ask", count |-> count] \in Quiet
    BY DEF Quiet, SendSteps
  <1> QED BY <1>1, <1>2, <1>3, <1>4, <1>5

\* A stanza has a number of children, and its ciphertexts are its own.
LEMMA CipherFacts ==
    ASSUME NEW s \in Stanzas
    PROVE  /\ s.msg \in Messages /\ s.attempt \in 0..RetryLimit - 1 /\ Children(s) \in Nat
           /\ s.msg \in Plaintext => Children(s) = 1
           /\ \A k : Cipher(s, k)[1] = s.msg
           /\ \A k \in 1..Children(s) : Cipher(s, k) \in CiphersOf(s) /\ Cipher(s, k) \in AllCiphers
           /\ \A c \in CiphersOf(s) : \E k \in 1..Children(s) : c = Cipher(s, k)
           /\ \A t \in Stanzas : \A k : Cipher(s, k) \in CiphersOf(t) => t = s
  <1>1. s.msg \in Messages /\ s.attempt \in 0..RetryLimit - 1
    BY DEF Stanzas
  <1>2. Children(s) \in Nat
    BY <1>1, ReceiveAssumption DEF Children
  <1>3. s.msg \in Plaintext => Children(s) = 1
    BY DEF Children
  <1>4. \A k \in 1..Children(s) : Cipher(s, k) \in CiphersOf(s) /\ Cipher(s, k) \in AllCiphers
    BY DEF CiphersOf, AllCiphers
  <1>5. \A c \in CiphersOf(s) : \E k \in 1..Children(s) : c = Cipher(s, k)
    BY DEF CiphersOf
  <1>6. ASSUME NEW t \in Stanzas, NEW k, Cipher(s, k) \in CiphersOf(t) PROVE t = s
    <2>1. PICK j \in 1..Children(t) : Cipher(s, k) = Cipher(t, j)
      BY <1>6 DEF CiphersOf
    <2>2. s.msg = t.msg /\ s.attempt = t.attempt
      BY <2>1 DEF Cipher
    <2> QED BY <2>2 DEF Stanzas
  <1>7. \A k : Cipher(s, k)[1] = s.msg
    BY DEF Cipher
  <1> QED BY <1>1, <1>2, <1>3, <1>4, <1>5, <1>6, <1>7

\* What the handler is at.
LEMMA ThisFacts ==
    ASSUME FrameType, NEW h \in Handlers, PlaceAt(h)
    PROVE  /\ pc[h] # "idle" => cur[h] \in Stanzas /\ cur[h] # NoStanza
           /\ pc[h] \in {"lookup", "decrypt", "unpad", "dispatch", "clear", "plaintext"} =>
                 /\ child[h] \in 1..Children(cur[h])
                 /\ This(h) \in CiphersOf(cur[h]) /\ This(h) \in AllCiphers
                 /\ This(h)[1] = cur[h].msg
  <1>1. pc[h] # "idle" => cur[h] \in Stanzas /\ cur[h] # NoStanza
    BY NoStanzaAssumption DEF FrameType, PlaceAt
  <1>2. ASSUME pc[h] \in {"lookup", "decrypt", "unpad", "dispatch", "clear", "plaintext"}
        PROVE  child[h] \in 1..Children(cur[h])
    <2>1. cur[h] \in Stanzas
      BY <1>1, <1>2
    <2>2. CASE pc[h] = "plaintext"
      <3>1. Children(cur[h]) = 1 /\ child[h] = 1
        BY <2>1, <2>2, CipherFacts DEF PlaceAt
      <3> QED BY <3>1
    <2>3. CASE pc[h] # "plaintext"
      BY <1>2, <2>3 DEF PlaceAt
    <2> QED BY <2>2, <2>3
  <1> QED BY <1>1, <1>2, CipherFacts DEF This

\* Two handlers are at the same ciphertext only if they are at the same stanza.
LEMMA OwnCipher ==
    ASSUME NEW g \in Handlers, NEW h \in Handlers, cur[g] \in Stanzas, cur[h] \in Stanzas,
           This(g) = This(h)
    PROVE  cur[g] = cur[h]
  <1>1. cur[g].msg = cur[h].msg /\ cur[g].attempt = cur[h].attempt
    BY DEF This, Cipher
  <1> QED BY <1>1 DEF Stanzas

\* What was settled or promised stays so.
LEMMA Monotone ==
    ASSUME UNCHANGED config, handled \subseteq handled', twice \subseteq twice'
    PROVE  /\ \A c : Settled(c) => Settled(c)'
           /\ \A s : Promised(s) => Promised(s)'
  BY DEF Settled, Promised

-----------------------------------------------------------------------------
(* What leaves an invariant alone                                          *)

\* A handler that the step leaves alone, and a step of one handler.
Still(g) ==
    /\ pc'[g] = pc[g] /\ cur'[g] = cur[g] /\ child'[g] = child[g] /\ failed'[g] = failed[g]
    /\ todo'[g] = todo[g]
Only(h) == \A g \in Handlers : g # h => Still(g)

\* A handler that is left alone keeps what it knows, if the rows of its child do.
LEMMA StillAt ==
    ASSUME NEW g \in Handlers, At(g), Still(g), UNCHANGED config,
           handled \subseteq handled', twice \subseteq twice',
           pc[g] = "decrypt" /\ config.buffer /\ cur[g] \notin twice /\ This(g) \notin buffer
               => This(g) \notin buffer',
           pc[g] \in {"unpad", "dispatch"} /\ cur[g] \notin twice /\ This(g) \notin cleared
               => This(g) \notin cleared',
           pc[g] \in {"unpad", "dispatch", "clear"} /\ This(g) \in buffer => This(g) \in buffer',
           pc[g] \in {"unpad", "dispatch"} /\ ~overlapped' =>
               ~overlapped /\ times'[This(g)] = times[This(g)] /\ (This(g) \in consumed => This(g) \in consumed')
    PROVE  At(g)'
  <1>1. This(g)' = This(g) /\ Children(cur[g])' = Children(cur[g])
    BY DEF This, Cipher, Children, Still
  <1>2. \A c : Settled(c) => Settled(c)'
    BY Monotone
  <1>3. PlaceAt(g)'
    BY <1>1 DEF At, PlaceAt, Still
  <1>4. StoreAt(g)'
    BY <1>1, <1>2 DEF At, StoreAt, Still
  <1>5. PromiseAt(g)'
    <2>1. CiphersOf(cur[g])' = CiphersOf(cur[g])
      BY DEF CiphersOf, Cipher, Children, Still
    <2>2. Promised(cur[g]) => Promised(cur[g])'
      BY <1>2, <2>1 DEF Promised, Still
    <2> QED BY <2>2 DEF At, PromiseAt, Still
  <1>6. ProgressAt(g)'
    <2>1. \A k : Cipher(cur[g], k)' = Cipher(cur[g], k)
      BY DEF Cipher, Still
    <2>2. \A k : Settled(Cipher(cur[g], k)) => Settled(Cipher(cur[g], k))'
      BY <2>1 DEF Settled
    <2> QED BY <1>1, <2>2 DEF At, ProgressAt, Still
  <1>7. CountAt(g)'
    BY <1>1 DEF At, CountAt, Still
  <1> QED BY <1>3, <1>4, <1>5, <1>6, <1>7 DEF At

\* Another handler changes at most the row of its own child.
LEMMA OthersAt ==
    ASSUME IInv, NEW h \in Handlers, pc[h] # "idle", NEW g \in Handlers, g # h, Still(g),
           UNCHANGED <<config, overlapped, twice>>, handled \subseteq handled',
           buffer \subseteq buffer', buffer' \subseteq buffer \cup {This(h)},
           cleared' \subseteq cleared \cup {This(h)}
    PROVE  At(g)'
  <1>1. At(g) /\ At(h) /\ FrameType
    BY DEF IInv, Types
  <1>2. CASE pc[g] = "idle"
    BY <1>1, <1>2, StillAt
  <1>3. CASE pc[g] # "idle"
    <2>1. cur[g] \in Stanzas /\ cur[h] \in Stanzas
      BY <1>1, <1>3, ThisFacts DEF At
    <2>2. overlapped /\ (cur[g] = cur[h] => cur[g] \in twice)
      BY <1>3 DEF IInv, Shared, SerialInv
    <2>3. cur[g] \notin twice => This(g) # This(h)
      BY <2>1, <2>2, OwnCipher
    <2> QED BY <1>1, <2>2, <2>3, StillAt
  <1> QED BY <1>2, <1>3

\* A step of one handler with its stanza.
LEMMA HandlerStep ==
    ASSUME IInv, NEW h \in Handlers, pc[h] # "idle", Types', Only(h),
           UNCHANGED <<config, overlapped, twice>>, handled \subseteq handled',
           pc'[h] = "idle" \/ cur'[h] = cur[h],
           buffer \subseteq buffer', buffer' \subseteq buffer \cup {This(h)},
           cleared' \subseteq cleared \cup {This(h)},
           At(h)', StoreInv', PromiseInv', CountInv', AcceptInv'
    PROVE  IInv'
  <1>1. SerialInv'
    BY DEF IInv, Shared, SerialInv, Only, Still
  <1>2. ASSUME NEW g \in Handlers PROVE At(g)'
    <2>1. CASE g # h
      <3>1. Still(g)
        BY <2>1 DEF Only
      <3> QED BY <2>1, <3>1, OthersAt
    <2> QED BY <2>1
  <1> QED BY <1>1, <1>2 DEF IInv, Shared

\* Steps that use up no key, change no row and deliver nothing new.
LEMMA StoreFrame ==
    ASSUME StoreInv, UNCHANGED <<config, buffer, cleared, resent>>, consumed' \subseteq consumed,
           handled \subseteq handled', Deliverable' \subseteq Deliverable,
           \A t \in Stanzas : CiphersOf(t) \cap handled' # {} => CiphersOf(t) \cap handled # {} \/ Offered(t)
    PROVE  StoreInv'
  <1>2. \A s : Offered(s)' = Offered(s)
    BY DEF Offered
  <1>3. \A c : Settled(c) => Settled(c)'
    BY DEF Settled
  <1> QED BY <1>2, <1>3 DEF StoreInv

\* A handler that keeps or leaves its stanza makes nothing deliverable.
LEMMA DeliverableFrame ==
    ASSUME NEW h \in Handlers, Only(h), held' \subseteq held, cur'[h] \in {cur[h], NoStanza}
    PROVE  Deliverable' \subseteq Deliverable
  BY DEF Deliverable, Only, Still

\* Steps that send nothing and start nothing but what may be sent.
LEMMA PromiseFrame ==
    ASSUME PromiseInv, UNCHANGED <<config, receipted>>, handled \subseteq handled',
           twice \subseteq twice',
           \A g \in BagToSet(goroutines)' :
               g \in BagToSet(goroutines) \/ g.todo \in Seq(Quiet) \/ Promised(g.stanza)'
    PROVE  PromiseInv'
  BY Monotone DEF PromiseInv

\* Steps that dispatch nothing.
LEMMA CountFrame ==
    ASSUME CountInv, UNCHANGED <<config, times>>, overlapped => overlapped',
           overlapped \/ consumed \subseteq consumed'
    PROVE  CountInv'
  BY DEF CountInv

\* Steps that accept nothing and do not end a clearing.
LEMMA AcceptFrame ==
    ASSUME AcceptInv, UNCHANGED <<config, handled>>, twice \subseteq twice', Deliverable' \subseteq Deliverable,
           cleared \subseteq cleared', unclear \subseteq unclear', crashes > 0 => crashes' > 0,
           \A g \in Handlers : pc[g] = "clear" => Still(g)
    PROVE  AcceptInv'
  <1>1. ASSUME NEW c, Recorded(c) PROVE Recorded(c)'
    <2>1. CASE \E g \in Handlers : pc[g] = "clear" /\ This(g) = c
      <3>1. PICK g \in Handlers : pc[g] = "clear" /\ This(g) = c
        BY <2>1
      <3>2. This(g)' = This(g) /\ pc'[g] = "clear"
        BY <3>1 DEF This, Cipher, Still
      <3> QED BY <3>1, <3>2 DEF Recorded
    <2> QED BY <1>1, <2>1 DEF Recorded
  <1> QED BY <1>1 DEF AcceptInv

\* A handler's step that leaves the stores and the histories alone.
LEMMA QuietStep ==
    ASSUME IInv, NEW h \in Handlers, pc[h] \notin {"idle", "clear"}, Types', Only(h),
           UNCHANGED <<config, stored, history, resent, crashes>>, held' \subseteq held,
           cur'[h] \in {cur[h], NoStanza}, At(h)', PromiseInv'
    PROVE  IInv'
  <1>1. Deliverable' \subseteq Deliverable
    BY DeliverableFrame
  <1>2. UNCHANGED <<consumed, buffer, cleared, handled, times, unclear, overlapped, twice>>
    BY DEF stored, history
  <1>3. StoreInv'
    BY <1>1, <1>2, StoreFrame DEF IInv, Shared
  <1>4. CountInv'
    BY <1>2, CountFrame DEF IInv, Shared
  <1>5. AcceptInv'
    <2>1. \A g \in Handlers : pc[g] = "clear" => Still(g)
      BY DEF Only
    <2> QED BY <1>1, <1>2, <2>1, AcceptFrame DEF IInv, Shared
  <1>6. pc'[h] = "idle" \/ cur'[h] = cur[h]
    BY DEF At, PlaceAt
  <1> QED BY <1>2, <1>3, <1>4, <1>5, <1>6, HandlerStep

\* A handler that is not sending has no receipt left to send.
LEMMA NothingToSend ==
    ASSUME NEW h \in Handlers, PromiseAt(h), pc[h] # "send" PROVE todo[h] \in Seq(Quiet)
  BY DEF PromiseAt

-----------------------------------------------------------------------------
(* Moving, starting goroutines and answering                               *)

\* The frames of the other handlers are left alone.
OtherFrames(h) ==
    \A g \in Handlers : g # h =>
        pc'[g] = pc[g] /\ cur'[g] = cur[g] /\ child'[g] = child[g] /\ failed'[g] = failed[g]

\* The handler goes to another place.
LEMMA GotoFacts ==
    ASSUME FrameType, NEW h \in Handlers, NEW place \in Places, Goto(h, place)
    PROVE  /\ FrameType' /\ OtherFrames(h)
           /\ pc'[h] = place /\ cur'[h] = cur[h] /\ child'[h] = child[h] /\ failed'[h] = failed[h]
  BY DEF FrameType, Goto, OtherFrames

\* The handler returns.
LEMMA ReturnsFacts ==
    ASSUME FrameType, NEW h \in Handlers, Returns(h)
    PROVE  /\ FrameType' /\ OtherFrames(h)
           /\ pc'[h] = "idle" /\ cur'[h] = NoStanza /\ child'[h] = 1
  <1>1. "idle" \in Places /\ 1 \in Nat \ {0}
    BY DEF Places
  <1>2. /\ pc' \in [Handlers -> Places] /\ cur' \in [Handlers -> Stanzas \cup {NoStanza}]
        /\ child' \in [Handlers -> Nat \ {0}]
    BY <1>1 DEF FrameType, Returns
  <1>3. failed' \in [Handlers -> BOOLEAN]
    BY DEF FrameType, Returns
  <1>4. pc'[h] = "idle" /\ cur'[h] = NoStanza /\ child'[h] = 1
    BY DEF FrameType, Returns
  <1>5. OtherFrames(h)
    BY DEF FrameType, Returns, OtherFrames
  <1> QED BY <1>2, <1>3, <1>4, <1>5 DEF FrameType

\* The handler is given something to send.
LEMMA ToSendFacts ==
    ASSUME TodoType, NEW h \in Handlers, NEW steps \in Seq(SendSteps), ToSend(h, steps)
    PROVE  TodoType' /\ todo'[h] = steps /\ \A g \in Handlers : g # h => todo'[g] = todo[g]
  BY DEF TodoType, ToSend

\* Goroutines that have something to send keep the bag typed.
LEMMA Starts ==
    ASSUME SendType, NEW S, \A g \in S : g \in Routine /\ g.todo # <<>>,
           goroutines' = goroutines (+) SetToBag(S)
    PROVE  /\ IsABag(goroutines') /\ BagToSet(goroutines)' = BagToSet(goroutines) \cup S
           /\ \A g \in BagToSet(goroutines)' : g \in Routine /\ g.todo # <<>>
  <1>1. IsABag(goroutines) /\ IsABag(SetToBag(S)) /\ BagToSet(SetToBag(S)) = S
    BY BagOfSet DEF SendType
  <1>2. IsABag(goroutines') /\ BagToSet(goroutines') = BagToSet(goroutines) \cup S
    BY <1>1, BagPlus
  <1> QED BY <1>2 DEF SendType

\* A goroutine of one stanza.
LEMMA RoutineFacts ==
    ASSUME NEW s \in Stanzas, NEW steps \in Seq(SendSteps)
    PROVE  /\ Goroutine(s, steps) \in Routine
           /\ Goroutine(s, steps).stanza = s /\ Goroutine(s, steps).todo = steps
  BY DEF Goroutine, Routine

\* backgroundIfAsyncAck.
LEMMA BackgroundFacts ==
    ASSUME FrameType, TodoType, SendType, NEW h \in Handlers, cur[h] \in Stanzas,
           NEW steps \in Seq(SendSteps), steps # <<>>,
           NEW then \in {"idle", "event"}, Background(h, steps, then)
    PROVE  /\ FrameType' /\ TodoType' /\ SendType' /\ Only(h)
           /\ \/ todo'[h] = steps /\ pc'[h] = "send" /\ cur'[h] = cur[h]
                 /\ BagToSet(goroutines)' = BagToSet(goroutines)
              \/ /\ todo'[h] = todo[h]
                 /\ BagToSet(goroutines)' = BagToSet(goroutines) \cup {Goroutine(cur[h], steps)}
                 /\ pc'[h] = then
                 /\ IF then = "idle" THEN cur'[h] = NoStanza /\ child'[h] = 1 ELSE cur'[h] = cur[h]
  <1>1. CASE config.sync
    <2>1. ToSend(h, steps) /\ Goto(h, "send") /\ UNCHANGED <<goroutines, retries, phone>> /\ "send" \in Places
      BY <1>1 DEF Background, Places
    <2>2. FrameType' /\ OtherFrames(h) /\ pc'[h] = "send" /\ cur'[h] = cur[h]
      BY <2>1, GotoFacts
    <2>3. TodoType' /\ todo'[h] = steps /\ \A g \in Handlers : g # h => todo'[g] = todo[g]
      BY <2>1, ToSendFacts
    <2> QED BY <2>1, <2>2, <2>3 DEF SendType, Only, Still, OtherFrames
  <1>2. CASE ~config.sync
    <2>1. Goroutine(cur[h], steps) \in Routine /\ Goroutine(cur[h], steps).todo = steps
      BY RoutineFacts
    <2>2. /\ goroutines' = goroutines (+) SetToBag({Goroutine(cur[h], steps)})
          /\ UNCHANGED <<todo, retries, phone>>
          /\ IF then = "idle" THEN Returns(h) ELSE Goto(h, then)
      BY <1>2 DEF Background
    <2>3. /\ IsABag(goroutines')
          /\ BagToSet(goroutines)' = BagToSet(goroutines) \cup {Goroutine(cur[h], steps)}
          /\ \A g \in BagToSet(goroutines)' : g \in Routine /\ g.todo # <<>>
      <3> DEFINE S == {Goroutine(cur[h], steps)}
      <3>1. \A g \in S : g \in Routine /\ g.todo # <<>>
        BY <2>1
      <3>2. goroutines' = goroutines (+) SetToBag(S)
        BY <2>2
      <3> HIDE DEF S
      <3>3. /\ IsABag(goroutines') /\ BagToSet(goroutines)' = BagToSet(goroutines) \cup S
            /\ \A g \in BagToSet(goroutines)' : g \in Routine /\ g.todo # <<>>
        BY <3>1, <3>2, Starts
      <3> QED BY <3>3 DEF S
    <2>4. SendType'
      BY <2>2, <2>3 DEF SendType
    <2>5. /\ FrameType' /\ OtherFrames(h) /\ pc'[h] = then
          /\ IF then = "idle" THEN cur'[h] = NoStanza /\ child'[h] = 1 ELSE cur'[h] = cur[h]
      <3>1. CASE then = "idle"
        BY <2>2, <3>1, ReturnsFacts
      <3>2. CASE then = "event"
        <4>1. then \in Places /\ Goto(h, then)
          BY <2>2, <3>2 DEF Places
        <4> QED BY <3>2, <4>1, GotoFacts
      <3> QED BY <3>1, <3>2
    <2>6. Only(h) /\ TodoType'
      BY <2>2, <2>5 DEF Only, Still, OtherFrames, TodoType
    <2> QED BY <2>2, <2>3, <2>4, <2>5, <2>6
  <1> QED BY <1>1, <1>2

\* A stanza that cannot be decrypted is answered without a receipt.
LEMMA FailsFacts ==
    ASSUME FrameType, TodoType, SendType, NEW h \in Handlers, cur[h] \in Stanzas,
           todo[h] \in Seq(Quiet), Fails(h)
    PROVE  /\ FrameType' /\ TodoType' /\ SendType' /\ Only(h) /\ todo'[h] \in Seq(Quiet)
           /\ \A g \in BagToSet(goroutines)' : g \in BagToSet(goroutines) \/ g.todo \in Seq(Quiet)
           /\ pc'[h] \in {"send", "event"} /\ cur'[h] = cur[h]
  <1>1. Do("retry") \in Quiet /\ Do("ack") \in Quiet
    BY StepFacts
  <1>2. /\ <<Do("retry"), Do("ack")>> \in Seq(Quiet)
        /\ <<Do("retry")>> \in Seq(Quiet) /\ <<Do("ack")>> \in Seq(Quiet)
    BY <1>1
  <1>3. \A steps \in Seq(Quiet) : steps \in Seq(SendSteps)
    BY StepFacts
  <1>4. CASE config.sync
    <2>1. /\ ToSend(h, <<Do("retry"), Do("ack")>>) /\ Goto(h, "send") /\ "send" \in Places
          /\ UNCHANGED <<goroutines, retries, phone>>
      BY <1>4 DEF Fails, Places
    <2>2. FrameType' /\ OtherFrames(h) /\ pc'[h] = "send" /\ cur'[h] = cur[h]
      BY <2>1, GotoFacts
    <2>3. /\ TodoType' /\ todo'[h] = <<Do("retry"), Do("ack")>>
          /\ \A g \in Handlers : g # h => todo'[g] = todo[g]
      BY <1>2, <1>3, <2>1, ToSendFacts
    <2> QED BY <1>2, <2>1, <2>2, <2>3 DEF SendType, Only, Still, OtherFrames
  <1>5. CASE ~config.sync
    <2> DEFINE S == {Goroutine(cur[h], <<Do("retry")>>), Goroutine(cur[h], <<Do("ack")>>)}
    <2>1. \A g \in S : g \in Routine /\ g.todo # <<>> /\ g.todo \in Seq(Quiet)
      <3>1. <<Do("retry")>> # <<>> /\ <<Do("ack")>> # <<>>
        OBVIOUS
      <3>2. <<Do("retry")>> \in Seq(SendSteps) /\ <<Do("ack")>> \in Seq(SendSteps)
        BY <1>2, <1>3
      <3>3. Goroutine(cur[h], <<Do("retry")>>) \in Routine
            /\ Goroutine(cur[h], <<Do("retry")>>).todo = <<Do("retry")>>
        BY <3>2, RoutineFacts
      <3>4. Goroutine(cur[h], <<Do("ack")>>) \in Routine
            /\ Goroutine(cur[h], <<Do("ack")>>).todo = <<Do("ack")>>
        BY <3>2, RoutineFacts
      <3> QED BY <1>2, <3>1, <3>3, <3>4
    <2>2. /\ goroutines' = goroutines (+) SetToBag(S) /\ UNCHANGED <<todo, retries, phone>>
          /\ Goto(h, "event") /\ "event" \in Places
      BY <1>5 DEF Fails, Places
    <2> HIDE DEF S
    <2>3. /\ IsABag(goroutines') /\ BagToSet(goroutines)' = BagToSet(goroutines) \cup S
          /\ \A g \in BagToSet(goroutines)' : g \in Routine /\ g.todo # <<>>
      BY <2>1, <2>2, Starts
    <2>4. SendType'
      BY <2>2, <2>3 DEF SendType
    <2>5. FrameType' /\ OtherFrames(h) /\ pc'[h] = "event" /\ cur'[h] = cur[h]
      BY <2>2, GotoFacts
    <2> QED BY <2>1, <2>2, <2>3, <2>4, <2>5 DEF Only, Still, OtherFrames, TodoType
  <1> QED BY <1>4, <1>5

\* The types of what a handler's step leaves alone.
LEMMA QuietTypes ==
    ASSUME Types, UNCHANGED <<config, server, stored, history, network>>,
           FrameType', TodoType', SendType'
    PROVE  Types'
  BY DEF Types, ServerType, StoreType, HistoryType, NetworkType, server, stored, history, network

\* The handler leaves the loop and promises nothing: it answers, dispatches an
\* UndecryptableMessage or returns.
LEMMA QuietAnswer ==
    ASSUME IInv, NEW h \in Handlers, pc[h] \notin {"idle", "send", "clear"},
           UNCHANGED <<config, server, stored, history, network>>, Only(h),
           FrameType', TodoType', SendType', todo'[h] \in Seq(Quiet),
           \A g \in BagToSet(goroutines)' : g \in BagToSet(goroutines) \/ g.todo \in Seq(Quiet),
           \/ pc'[h] \in {"send", "event"} /\ cur'[h] = cur[h]
           \/ pc'[h] = "idle" /\ cur'[h] = NoStanza /\ child'[h] = 1
    PROVE  IInv'
  <1>1. cur[h] \in Stanzas /\ cur[h] # NoStanza
    BY ThisFacts DEF IInv, Types, At
  <1>2. Types'
    BY QuietTypes DEF IInv
  <1>3. At(h)'
    <2>1. PlaceAt(h)'
      BY <1>1 DEF PlaceAt
    <2>2. StoreAt(h)' /\ PromiseAt(h)' /\ ProgressAt(h)' /\ CountAt(h)'
      BY DEF StoreAt, PromiseAt, ProgressAt, CountAt
    <2> QED BY <2>1, <2>2 DEF At
  <1>4. PromiseInv'
    BY PromiseFrame DEF IInv, Shared, server, history
  <1> QED BY <1>2, <1>3, <1>4, QuietStep DEF server, network

\* A stanza without <enc> is asked from the phone, and its event follows.
LEMMA UnavailableMessageStep ==
    ASSUME IInv, NEW h \in Handlers, UnavailableMessage(h) PROVE IInv'
  <1>1. <<Do("phone"), Do("ack")>> \in Seq(Quiet) /\ <<Do("phone"), Do("ack")>> \in Seq(SendSteps)
        /\ <<Do("phone"), Do("ack")>> # <<>>
    <2>1. Do("phone") \in Quiet /\ Do("ack") \in Quiet /\ Quiet \subseteq SendSteps
      BY StepFacts
    <2> QED BY <2>1
  <1>2. pc[h] = "unavailable" /\ At(h)
    BY DEF UnavailableMessage, IInv
  <1>3. cur[h] \in Stanzas /\ todo[h] \in Seq(Quiet)
    BY <1>2, ThisFacts, NothingToSend DEF IInv, Types, At
  <1>4. /\ FrameType' /\ TodoType' /\ SendType' /\ Only(h)
        /\ \/ todo'[h] = <<Do("phone"), Do("ack")>> /\ pc'[h] = "send" /\ cur'[h] = cur[h]
              /\ BagToSet(goroutines)' = BagToSet(goroutines)
           \/ /\ todo'[h] = todo[h] /\ pc'[h] = "event" /\ cur'[h] = cur[h]
              /\ BagToSet(goroutines)' = BagToSet(goroutines)
                                            \cup {Goroutine(cur[h], <<Do("phone"), Do("ack")>>)}
    <2>1. Background(h, <<Do("phone"), Do("ack")>>, "event")
      BY DEF UnavailableMessage
    <2> QED BY <1>1, <1>3, <2>1, BackgroundFacts DEF IInv, Types
  <1>5. Goroutine(cur[h], <<Do("phone"), Do("ack")>>).todo \in Seq(Quiet)
    BY <1>1, <1>3, RoutineFacts
  <1> QED BY <1>1, <1>2, <1>3, <1>4, <1>5, QuietAnswer DEF UnavailableMessage

\* The handler fails, or stops because its context is cancelled.
LEMMA FailsStep ==
    ASSUME IInv, NEW h \in Handlers, pc[h] \in {"lookup", "decrypt", "unpad", "event"},
           UNCHANGED <<config, server, stored, history, network>>,
           Fails(h) \/ (Returns(h) /\ UNCHANGED sends)
    PROVE  IInv'
  <1>1. cur[h] \in Stanzas /\ todo[h] \in Seq(Quiet)
    BY ThisFacts, NothingToSend DEF IInv, Types, At
  <1>2. CASE Fails(h)
    BY <1>1, <1>2, FailsFacts, QuietAnswer DEF IInv, Types
  <1>3. CASE Returns(h) /\ UNCHANGED sends
    <2>1. SendType' /\ TodoType' /\ todo' = todo /\ goroutines' = goroutines
      BY <1>3 DEF IInv, Types, SendType, TodoType, sends
    <2>2. FrameType' /\ OtherFrames(h) /\ pc'[h] = "idle" /\ cur'[h] = NoStanza /\ child'[h] = 1
      BY <1>3, ReturnsFacts DEF IInv, Types
    <2>3. Only(h)
      BY <2>1, <2>2 DEF Only, Still, OtherFrames
    <2> QED BY <1>1, <2>1, <2>2, <2>3, QuietAnswer
  <1> QED BY <1>2, <1>3

\* The failures before and during the decryption.
LEMMA FailureStep ==
    ASSUME IInv, NEW h \in Handlers, ResolveLIDFails(h) \/ DecryptionFails(h) PROVE IInv'
  BY FailsStep DEF ResolveLIDFails, DecryptionFails, FailsUnlessCancelled

\* The end of the handler of an undecryptable message.
LEMMA DispatchUndecryptableStep ==
    ASSUME IInv, NEW h \in Handlers, DispatchUndecryptable(h) PROVE IInv'
  BY FailsStep DEF DispatchUndecryptable

-----------------------------------------------------------------------------
(* The handler                                                             *)

\* The server delivers a stanza it holds, perhaps beside other handlers.
LEMMA handleEncryptedMessageStep ==
    ASSUME IInv, NEW h \in Handlers, NEW s \in Stanzas, handleEncryptedMessage(h, s) PROVE IInv'
  <1> DEFINE others == {cur[g] : g \in {g \in Handlers : pc[g] # "idle"}}
             steps == IF parseMessageInfo(s) THEN <<>> ELSE <<Do("nack")>>
             place == CASE ~parseMessageInfo(s) -> "send"
                        [] s.msg \in Plaintext -> "plaintext"
                        [] Children(s) = 0 /\ s.msg \in Unavailable -> "unavailable"
                        [] Children(s) = 0 /\ parseMessageInfo(s) /\ s.msg \notin Plaintext \cup Unavailable -> "next"
                        [] OTHER -> "lookup"
  <1>1. /\ s \in held /\ cur' = [cur EXCEPT ![h] = s] /\ pc' = [pc EXCEPT ![h] = place]
        /\ pc[h] = "idle" /\ ToSend(h, steps) /\ delivered' = delivered \cup {s}
        /\ overlapped' = (overlapped \/ others # {}) /\ twice' = twice \cup (others \cap {s})
        /\ UNCHANGED <<config, server, stored, child, failed, handled, times, unclear,
                       up, crashes, drops, retries, phone>>
        /\ s # NoStanza
    BY NoStanzaAssumption DEF handleEncryptedMessage
  <1>2. Children(s) \in Nat /\ (s.msg \in Plaintext => Children(s) = 1)
    BY CipherFacts
  <1>3. /\ place \in {"send", "plaintext", "unavailable", "next", "lookup"}
        /\ place = "plaintext" => s.msg \in Plaintext
        /\ place = "next" => Children(s) = 0 /\ s.msg \notin Plaintext
        /\ place = "lookup" => Children(s) # 0 /\ s.msg \notin Plaintext
    BY <1>2
  <1>4. steps \in Seq(Quiet) /\ steps \in Seq(SendSteps)
    <2>1. Do("nack") \in Quiet /\ Do("nack") \in SendSteps
      BY StepFacts
    <2>2. <<Do("nack")>> \in Seq(Quiet) /\ <<Do("nack")>> \in Seq(SendSteps)
      BY <2>1
    <2>3. <<>> \in Seq(Quiet) /\ <<>> \in Seq(SendSteps)
      OBVIOUS
    <2> QED BY <2>2, <2>3
  <1> HIDE DEF steps, place
  <1>5. TodoType' /\ todo'[h] = steps /\ \A g \in Handlers : g # h => todo'[g] = todo[g]
    BY <1>1, <1>4, ToSendFacts DEF IInv, Types
  <1>6. /\ FrameType' /\ pc'[h] = place /\ cur'[h] = s /\ child'[h] = 1
        /\ OtherFrames(h)
    BY <1>1, <1>3 DEF IInv, Types, FrameType, Places, At, PlaceAt, OtherFrames
  <1>7. Only(h)
    BY <1>5, <1>6 DEF Only, Still, OtherFrames
  <1>8. /\ SendType'
        /\ \A g \in BagToSet(goroutines)' :
              g \in BagToSet(goroutines) \/ (g.stanza = s /\ s.msg \in Plaintext /\ ~config.sync)
    <2>1. CASE s.msg \in Plaintext /\ ~config.sync
      <3>1. <<Do("receipt")>> \in Seq(SendSteps) /\ <<Do("receipt")>> # <<>>
        BY StepFacts
      <3>2. /\ Goroutine(s, <<Do("receipt")>>) \in Routine
            /\ Goroutine(s, <<Do("receipt")>>).stanza = s
            /\ Goroutine(s, <<Do("receipt")>>).todo = <<Do("receipt")>>
        BY <3>1, RoutineFacts
      <3> DEFINE S == {Goroutine(s, <<Do("receipt")>>)}
      <3>3. \A g \in S : g \in Routine /\ g.todo # <<>> /\ g.stanza = s
        BY <3>1, <3>2
      <3>4. goroutines' = goroutines (+) SetToBag(S)
        BY <2>1 DEF handleEncryptedMessage
      <3> HIDE DEF S
      <3>5. /\ IsABag(goroutines') /\ BagToSet(goroutines)' = BagToSet(goroutines) \cup S
            /\ \A g \in BagToSet(goroutines)' : g \in Routine /\ g.todo # <<>>
        BY <3>3, <3>4, Starts DEF IInv, Types
      <3>6. SendType'
        BY <1>1, <3>5 DEF IInv, Types, SendType
      <3> QED BY <2>1, <3>3, <3>5, <3>6
    <2>2. CASE ~(s.msg \in Plaintext /\ ~config.sync)
      <3>1. goroutines' = goroutines
        BY <2>2 DEF handleEncryptedMessage
      <3> QED BY <1>1, <3>1 DEF IInv, Types, SendType
    <2> QED BY <2>1, <2>2
  <1>9. /\ twice \subseteq twice' /\ twice' \subseteq Stanzas /\ overlapped' \in BOOLEAN
        /\ (overlapped => overlapped') /\ (twice' # {} => overlapped')
        /\ \A g \in Handlers : pc[g] # "idle" => overlapped' /\ (cur[g] = s => s \in twice')
    <2>1. overlapped' \in BOOLEAN
      BY <1>1
    <2>2. \A g \in Handlers : pc[g] # "idle" => cur[g] \in others
      OBVIOUS
    <2>3. twice \subseteq Stanzas /\ (twice # {} => overlapped)
      BY DEF IInv, Types, HistoryType, Shared, SerialInv
    <2> QED BY <1>1, <2>1, <2>2, <2>3
  <1> HIDE DEF others
  <1>10. Types'
    <2>1. NetworkType'
      BY <1>1 DEF IInv, Types, NetworkType
    <2>2. HistoryType'
      BY <1>1, <1>9 DEF IInv, Types, HistoryType
    <2> QED BY <1>1, <1>5, <1>6, <1>8, <2>1, <2>2 DEF IInv, Types, ServerType, StoreType, server, stored
  <1>11. SerialInv'
    BY <1>1, <1>3, <1>6, <1>9 DEF IInv, Shared, SerialInv, OtherFrames
  <1>12. ASSUME NEW g \in Handlers PROVE At(g)'
    <2>1. CASE g # h
      <3>1. Still(g) /\ At(g)
        BY <1>7, <2>1 DEF Only, IInv
      <3> QED BY <1>1, <1>9, <3>1, StillAt DEF stored
    <2>2. CASE g = h
      <3>1. PlaceAt(h)'
        BY <1>1, <1>2, <1>3, <1>6 DEF PlaceAt
      <3>2. StoreAt(h)' /\ CountAt(h)' /\ PromiseAt(h)'
        BY <1>3, <1>4, <1>5, <1>6 DEF StoreAt, CountAt, PromiseAt
      <3>3. ProgressAt(h)'
        <4>1. \A k \in 1..Children(s) : ~(k < 1) /\ (place = "next" => FALSE)
          BY <1>2, <1>3
        <4> QED BY <1>3, <1>6, <4>1 DEF ProgressAt
      <3> QED BY <2>2, <3>1, <3>2, <3>3 DEF At
    <2> QED BY <2>1, <2>2
  <1>13. Deliverable' \subseteq Deliverable
    BY <1>1, <1>6 DEF Deliverable, OtherFrames, server
  <1>14. StoreInv'
    BY <1>1, <1>13, StoreFrame DEF IInv, Shared, server, stored
  <1>15. PromiseInv'
    <2>1. \A g : g.stanza = s /\ s.msg \in Plaintext /\ ~config.sync => Promised(g.stanza)'
      BY <1>1 DEF Promised
    <2> QED BY <1>1, <1>8, <1>9, <2>1, PromiseFrame DEF IInv, Shared, server
  <1>16. CountInv'
    BY <1>1, <1>9, CountFrame DEF IInv, Shared, stored
  <1>17. AcceptInv'
    <2>1. \A g \in Handlers : pc[g] = "clear" => Still(g)
      BY <1>1, <1>7 DEF Only
    <2> QED BY <1>1, <1>9, <1>13, <2>1, AcceptFrame DEF IInv, Shared, stored
  <1> QED BY <1>10, <1>11, <1>12, <1>14, <1>15, <1>16, <1>17 DEF IInv, Shared

\* The handlers get an event: what they accept is settled, and it is counted.
LEMMA DispatchedFacts ==
    ASSUME HistoryType, NEW h \in Handlers, This(h) \in AllCiphers, NEW ok \in BOOLEAN, Dispatched(h, ok)
    PROVE  /\ HistoryType' /\ handled \subseteq handled' /\ handled' \subseteq handled \cup {This(h)}
           /\ ok => This(h) \in handled'
           /\ ~ok => handled' = handled
           /\ \A c \in AllCiphers : c # This(h) => times'[c] = times[c]
           /\ times'[This(h)] = times[This(h)] + 1
           /\ UNCHANGED <<unclear, overlapped, twice>>
  BY DEF HistoryType, Dispatched

\* What a handler accepts belongs to a stanza it was given.
LEMMA DispatchStore ==
    ASSUME IInv, NEW h \in Handlers, pc[h] \in {"plaintext", "dispatch"},
           UNCHANGED <<config, stored, resent>>, Deliverable' \subseteq Deliverable,
           handled \subseteq handled', handled' \subseteq handled \cup {This(h)}
    PROVE  StoreInv'
  <1>1. cur[h] \in Stanzas /\ cur[h] # NoStanza /\ This(h) = Cipher(cur[h], child[h])
    BY ThisFacts DEF IInv, Types, At, This
  <1>2. \A t \in Stanzas : This(h) \in CiphersOf(t) => t = cur[h]
    BY <1>1, CipherFacts
  <1>3. Offered(cur[h])
    BY <1>1 DEF IInv, Shared, StoreInv, Deliverable
  <1>4. \A t \in Stanzas : CiphersOf(t) \cap handled' # {} => CiphersOf(t) \cap handled # {} \/ Offered(t)
    BY <1>2, <1>3
  <1> QED BY <1>4, StoreFrame DEF IInv, Shared, stored

\* A newsletter message is receipted only after its handlers accepted it, when the
\* acknowledgement waits for them.
LEMMA handlePlaintextMessageStep ==
    ASSUME IInv, NEW h \in Handlers, handlePlaintextMessage(h) PROVE IInv'
  <1>1. pc[h] = "plaintext" /\ UNCHANGED <<config, server, stored, network, goroutines, retries, phone>>
    BY DEF handlePlaintextMessage
  <1>2. PICK ok \in BOOLEAN :
           /\ IF This(h) \in Undecodable THEN ok /\ UNCHANGED history ELSE Dispatched(h, ok)
           /\ IF ok /\ config.sync
              THEN ToSend(h, <<Do("receipt")>>) /\ Goto(h, "send")
              ELSE Returns(h) /\ UNCHANGED todo
    BY DEF handlePlaintextMessage
  <1>3. /\ cur[h] \in Stanzas /\ This(h) \in AllCiphers /\ This(h)[1] = cur[h].msg
        /\ cur[h].msg \in Plaintext /\ child[h] = 1 /\ Children(cur[h]) = 1 /\ cur[h] # NoStanza
        /\ todo[h] \in Seq(Quiet) /\ This(h) \in CiphersOf(cur[h])
    BY <1>1, ThisFacts, CipherFacts, NothingToSend DEF IInv, Types, At, PlaceAt
  <1>4. /\ HistoryType' /\ handled \subseteq handled' /\ handled' \subseteq handled \cup {This(h)}
        /\ ok => This(h) \in handled' \cup Undecodable
        /\ \A c \in AllCiphers : c # This(h) => times'[c] = times[c]
        /\ UNCHANGED <<unclear, overlapped, twice>>
    <2>1. CASE This(h) \in Undecodable
      BY <1>2, <2>1 DEF history, IInv, Types, HistoryType
    <2>2. CASE This(h) \notin Undecodable
      <3>1. Dispatched(h, ok)
        BY <1>2, <2>2
      <3> QED BY <1>3, <3>1, DispatchedFacts DEF IInv, Types
    <2> QED BY <2>1, <2>2
  <1>5. /\ FrameType' /\ TodoType' /\ Only(h)
        /\ \/ ok /\ todo'[h] = <<Do("receipt")>> /\ pc'[h] = "send" /\ cur'[h] = cur[h]
           \/ todo'[h] = todo[h] /\ pc'[h] = "idle" /\ cur'[h] = NoStanza /\ child'[h] = 1
    <2>1. CASE ok /\ config.sync
      <3>1. Do("receipt") \in SendSteps
        BY StepFacts
      <3>2. <<Do("receipt")>> \in Seq(SendSteps) /\ "send" \in Places
        BY <3>1 DEF Places
      <3>3. /\ TodoType' /\ todo'[h] = <<Do("receipt")>>
            /\ \A g \in Handlers : g # h => todo'[g] = todo[g]
        BY <1>2, <2>1, <3>2, ToSendFacts DEF IInv, Types
      <3>4. FrameType' /\ OtherFrames(h) /\ pc'[h] = "send" /\ cur'[h] = cur[h]
        BY <1>2, <2>1, <3>2, GotoFacts DEF IInv, Types
      <3> QED BY <2>1, <3>3, <3>4 DEF Only, Still, OtherFrames
    <2>2. CASE ~(ok /\ config.sync)
      <3>1. FrameType' /\ OtherFrames(h) /\ pc'[h] = "idle" /\ cur'[h] = NoStanza /\ child'[h] = 1
        BY <1>2, <2>2, ReturnsFacts DEF IInv, Types
      <3> QED BY <1>2, <2>2, <3>1 DEF Only, Still, OtherFrames, IInv, Types, TodoType
    <2> QED BY <2>1, <2>2
  <1>6. Types'
    <2>1. SendType'
      BY <1>1 DEF IInv, Types, SendType
    <2> QED BY <1>1, <1>4, <1>5, <2>1 DEF IInv, Types, ServerType, StoreType, NetworkType, server, stored, network
  <1>7. At(h)'
    <2>1. PlaceAt(h)'
      BY <1>3, <1>5 DEF PlaceAt
    <2>2. StoreAt(h)' /\ ProgressAt(h)' /\ CountAt(h)'
      BY <1>5 DEF StoreAt, ProgressAt, CountAt
    <2>3. PromiseAt(h)'
      <3>1. CASE ok /\ todo'[h] = <<Do("receipt")>> /\ pc'[h] = "send" /\ cur'[h] = cur[h]
        <4>1. CiphersOf(cur[h]) = {This(h)}
          BY <1>3 DEF CiphersOf, This
        <4>2. CiphersOf(cur[h])' = CiphersOf(cur[h])
          BY <3>1 DEF Cipher, CiphersOf, Children
        <4>3. This(h) \in handled' \cup Undecodable
          BY <1>4, <3>1
        <4>4. \A c \in CiphersOf(cur[h])' : Settled(c)'
          BY <4>1, <4>2, <4>3 DEF Settled
        <4>5. Promised(cur[h])'
          BY <4>4 DEF Promised
        <4> QED BY <3>1, <4>5 DEF PromiseAt
      <3>2. CASE todo'[h] = todo[h]
        BY <1>3, <3>2 DEF PromiseAt
      <3> QED BY <1>5, <3>1, <3>2
    <2> QED BY <2>1, <2>2, <2>3 DEF At
  <1>8. Deliverable' \subseteq Deliverable
    BY <1>1, <1>5, DeliverableFrame DEF server
  <1>9. StoreInv'
    BY <1>1, <1>4, <1>8, DispatchStore DEF server
  <1>10. PromiseInv'
    BY <1>1, <1>4, PromiseFrame DEF IInv, Shared, server
  <1>11. CountInv'
    BY <1>1, <1>3, <1>4 DEF IInv, Shared, CountInv, stored
  <1>12. AcceptInv'
    <2>1. ASSUME NEW t \in Deliverable, t.msg \notin Plaintext, NEW c \in CiphersOf(t) PROVE c # This(h)
      <3>1. c[1] = t.msg
        BY DEF CiphersOf, Cipher
      <3> QED BY <1>3, <2>1, <3>1
    <2>2. ASSUME NEW c, Recorded(c) PROVE Recorded(c)'
      <3>1. \A g \in Handlers : pc[g] = "clear" => This(g)' = This(g) /\ pc'[g] = "clear"
        BY <1>1, <1>5 DEF Only, Still, This, Cipher
      <3>2. UNCHANGED <<cleared, unclear, crashes>>
        BY <1>1, <1>4 DEF stored, network
      <3> QED BY <2>2, <3>1, <3>2 DEF Recorded
    <2> QED BY <1>1, <1>4, <1>8, <2>1, <2>2 DEF IInv, Shared, AcceptInv
  <1> QED BY <1>1, <1>4, <1>5, <1>6, <1>7, <1>9, <1>10, <1>11, <1>12, HandlerStep DEF stored

\* The handler goes on with the child it is at.
LEMMA Moves ==
    ASSUME IInv, NEW h \in Handlers, pc[h] \in {"lookup", "decrypt", "unpad"},
           UNCHANGED <<config, server, stored, history, network, todo, goroutines, retries>>,
           phone' \in [Messages -> {"none", "waiting", "cancelled"}], FrameType', OtherFrames(h),
           cur'[h] = cur[h], child'[h] = child[h],
           pc'[h] \in {"decrypt", "unpad", "dispatch", "clear", "next"},
           pc'[h] = "clear" => config.buffer,
           pc'[h] \in {"clear", "next"} /\ config.buffer /\ cur[h] \notin twice => Settled(This(h)),
           pc'[h] = "clear" => Settled(This(h)),
           pc'[h] = "decrypt" /\ config.buffer => This(h) \notin buffer,
           pc'[h] \in {"unpad", "dispatch"} /\ cur[h] \notin twice => This(h) \notin cleared,
           pc'[h] \in {"unpad", "dispatch", "clear"} /\ config.buffer => This(h) \in buffer,
           pc'[h] \in {"unpad", "dispatch"} /\ ~config.buffer /\ ~overlapped =>
               times[This(h)] = 0 /\ This(h) \in consumed
    PROVE  IInv'
  <1>1. /\ cur[h] \in Stanzas /\ cur[h] # NoStanza /\ child[h] \in 1..Children(cur[h])
        /\ cur[h].msg \notin Plaintext /\ todo[h] \in Seq(Quiet)
    BY ThisFacts, NothingToSend DEF IInv, Types, At, PlaceAt
  <1>2. This(h)' = This(h) /\ Children(cur[h])' = Children(cur[h])
    BY DEF This, Cipher, Children
  <1>3. UNCHANGED <<consumed, buffer, cleared, handled, times, unclear, overlapped, twice, held,
                    receipted, resent, crashes>>
    BY DEF stored, history, server, network
  <1>4. Types'
    <2>1. TodoType' /\ SendType'
      BY DEF IInv, Types, TodoType, SendType
    <2> QED BY <2>1, QuietTypes DEF IInv
  <1>5. At(h)'
    <2>1. PlaceAt(h)'
      BY <1>1, <1>2 DEF PlaceAt
    <2>2. StoreAt(h)'
      BY <1>2, <1>3 DEF StoreAt, Settled
    <2>3. PromiseAt(h)'
      BY <1>1 DEF PromiseAt
    <2>4. ProgressAt(h)'
      <3>1. ASSUME config.buffer, cur[h] \notin twice, NEW k \in 1..Children(cur[h]), k < child[h]
            PROVE  Settled(Cipher(cur[h], k))'
        BY <1>3, <3>1 DEF IInv, At, ProgressAt, Settled, Cipher
      <3>2. ASSUME config.buffer, cur[h] \notin twice, pc'[h] \in {"clear", "next"}
            PROVE  Settled(Cipher(cur[h], child[h]))'
        BY <1>3, <3>2 DEF Settled, This, Cipher
      <3>3. \A k \in 1..Children(cur[h]) : k <= child[h] => k < child[h] \/ k = child[h]
        BY <1>1, CipherFacts
      <3> QED BY <1>2, <1>3, <3>1, <3>2, <3>3 DEF ProgressAt
    <2>5. CountAt(h)'
      BY <1>2, <1>3 DEF CountAt
    <2> QED BY <2>1, <2>2, <2>3, <2>4, <2>5 DEF At
  <1>6. Only(h)
    BY DEF Only, Still, OtherFrames
  <1>7. PromiseInv'
    BY <1>3, PromiseFrame DEF IInv, Shared
  <1> QED BY <1>3, <1>4, <1>5, <1>6, <1>7, QuietStep

\* The event buffer is read: a row without plaintext is an event that was settled.
LEMMA GetBufferedEventStep == ASSUME IInv, NEW h \in Handlers, GetBufferedEvent(h) PROVE IInv'
  <1> DEFINE place == CASE ~Recognized(h) -> "next"
                        [] This(h) \in buffer /\ config.buffer -> IF This(h) \in cleared THEN "next" ELSE "unpad"
                        [] OTHER -> "decrypt"
  <1>1. /\ pc[h] = "lookup" /\ UNCHANGED <<config, server, stored, sends, history, network>>
        /\ Goto(h, place)
    BY DEF GetBufferedEvent
  <1>2. /\ place \in {"next", "unpad", "decrypt"} /\ place \in Places
        /\ place = "next" => ~Recognized(h) \/ This(h) \in cleared
        /\ place = "unpad" => config.buffer /\ This(h) \notin cleared /\ This(h) \in buffer
        /\ place = "decrypt" /\ config.buffer => This(h) \notin buffer
    BY DEF Places
  <1> HIDE DEF place
  <1>3. place = "next" => Settled(This(h))
    BY <1>2 DEF Recognized, Settled, IInv, Shared, StoreInv
  <1>4. /\ phone' \in [Messages -> {"none", "waiting", "cancelled"}]
        /\ UNCHANGED <<todo, goroutines, retries>>
    BY <1>1 DEF sends, IInv, Types, SendType
  <1>5. /\ FrameType' /\ OtherFrames(h)
        /\ pc'[h] = place /\ cur'[h] = cur[h] /\ child'[h] = child[h]
    BY <1>1, <1>2, GotoFacts DEF IInv, Types
  <1> QED BY <1>1, <1>2, <1>3, <1>4, <1>5, Moves

\* With the buffer, a key that was used up has a row that was found before: unless
\* another handler is at the stanza, a message is skipped as ErrOldCounter only
\* without it.
LEMMA ErrOldCounterStep == ASSUME IInv, NEW h \in Handlers, ErrOldCounter(h) PROVE IInv'
  <1>1. /\ pc[h] = "decrypt" /\ UNCHANGED <<config, server, stored, sends, history, network>>
        /\ Goto(h, "next") /\ This(h) \in consumed /\ "next" \in Places
    BY DEF ErrOldCounter, Places
  <1>2. ~config.buffer \/ cur[h] \in twice
    <2>1. cur[h] \in Stanzas /\ cur[h] # NoStanza /\ This(h) \in CiphersOf(cur[h])
      BY <1>1, ThisFacts DEF IInv, Types, At
    <2>2. config.buffer => This(h) \in buffer
      BY <1>1, <2>1 DEF IInv, Shared, StoreInv, Deliverable
    <2> QED BY <1>1, <2>2 DEF IInv, At, StoreAt
  <1>3. /\ phone' \in [Messages -> {"none", "waiting", "cancelled"}]
        /\ UNCHANGED <<todo, goroutines, retries>>
    BY <1>1 DEF sends, IInv, Types, SendType
  <1>4. /\ FrameType' /\ OtherFrames(h)
        /\ pc'[h] = "next" /\ cur'[h] = cur[h] /\ child'[h] = child[h]
    BY <1>1, GotoFacts DEF IInv, Types
  <1> QED BY <1>1, <1>2, <1>3, <1>4, Moves

\* The message key is used up and its plaintext buffered in one transaction.
LEMMA DoDecryptionTxnStep == ASSUME IInv, NEW h \in Handlers, DoDecryptionTxn(h) PROVE IInv'
  <1>1. /\ pc[h] = "decrypt" /\ (This(h) \notin consumed \/ cur[h] \in twice)
        /\ consumed' \subseteq consumed \cup {This(h)} /\ This(h) \in consumed'
        /\ overlapped \/ consumed \subseteq consumed'
        /\ buffer' = (IF config.buffer THEN buffer \cup {This(h)} ELSE buffer)
        /\ Goto(h, "unpad") /\ "unpad" \in Places
        /\ UNCHANGED <<config, server, cleared, sends, history, network>>
    BY DEF DoDecryptionTxn, Places
  <1>2. /\ cur[h] \in Stanzas /\ cur[h] # NoStanza /\ child[h] \in 1..Children(cur[h])
        /\ cur[h].msg \notin Plaintext /\ todo[h] \in Seq(Quiet)
        /\ This(h) \in AllCiphers /\ This(h) \in CiphersOf(cur[h]) /\ This(h)[1] = cur[h].msg
    BY <1>1, ThisFacts, NothingToSend DEF IInv, Types, At, PlaceAt
  <1>3. /\ FrameType' /\ OtherFrames(h)
        /\ pc'[h] = "unpad" /\ cur'[h] = cur[h] /\ child'[h] = child[h]
    BY <1>1, GotoFacts DEF IInv, Types
  <1>4. This(h)' = This(h) /\ Children(cur[h])' = Children(cur[h])
    BY <1>3 DEF This, Cipher, Children
  <1>5. UNCHANGED <<handled, times, unclear, overlapped, twice, held, receipted, resent, crashes,
                    todo, goroutines>>
    BY <1>1 DEF history, server, network, sends
  <1>6. Types'
    <2>1. StoreType'
      BY <1>1, <1>2 DEF IInv, Types, StoreType
    <2>2. TodoType' /\ SendType'
      BY <1>1 DEF IInv, Types, TodoType, SendType, sends
    <2>3. HistoryType'
      BY <1>5 DEF IInv, Types, HistoryType
    <2> QED BY <1>1, <1>3, <2>1, <2>2, <2>3 DEF IInv, Types, ServerType, NetworkType, server, network
  <1>7. Only(h)
    BY <1>3, <1>5 DEF Only, Still, OtherFrames
  <1>8. Deliverable' \subseteq Deliverable
    BY <1>3, <1>5, <1>7, DeliverableFrame
  <1>9. At(h)'
    <2>1. PlaceAt(h)'
      BY <1>2, <1>3, <1>4 DEF PlaceAt
    <2>2. StoreAt(h)'
      <3>1. cur[h] \notin twice => This(h) \notin cleared
        <4>1. config.buffer /\ cur[h] \notin twice => This(h) \notin buffer
          BY <1>1 DEF IInv, At, StoreAt
        <4>2. ~config.buffer => buffer = {}
          BY DEF IInv, Shared, StoreInv
        <4> QED BY <4>1, <4>2 DEF IInv, Types, StoreType
      <3> QED BY <1>1, <1>3, <1>4, <1>5, <3>1 DEF StoreAt
    <2>3. PromiseAt(h)'
      BY <1>2, <1>5 DEF PromiseAt
    <2>4. ProgressAt(h)'
      BY <1>1, <1>3, <1>4, <1>5 DEF IInv, At, ProgressAt, Settled, Cipher
    <2>5. CountAt(h)'
      <3>1. SUFFICES ASSUME ~config.buffer, ~overlapped PROVE times[This(h)] = 0
        BY <1>1, <1>3, <1>4, <1>5 DEF CountAt
      <3>2. This(h) \notin consumed
        <4>1. twice = {}
          BY <3>1 DEF IInv, Shared, SerialInv
        <4> QED BY <1>1, <4>1
      <3>3. times[This(h)] \in Nat /\ times[This(h)] <= 1 /\ (times[This(h)] = 1 => This(h) \in consumed)
        BY <1>2, <3>1 DEF IInv, Types, HistoryType, Shared, CountInv
      <3> QED BY <3>2, <3>3
    <2> QED BY <2>1, <2>2, <2>3, <2>4, <2>5 DEF At
  <1>10. StoreInv'
    <2>1. \A s : Offered(s)' = Offered(s)
      BY <1>5 DEF Offered
    <2>2. \A s \in Deliverable' : Offered(s)'
      BY <1>8, <2>1 DEF IInv, Shared, StoreInv
    <2>3. ASSUME NEW s \in Stanzas, CiphersOf(s) \cap (consumed' \cup handled') # {} PROVE Offered(s)'
      <3>1. CASE This(h) \in CiphersOf(s)
        <4>1. s = cur[h]
          BY <1>2, <3>1, CipherFacts DEF This
        <4> QED BY <1>2, <2>1, <4>1 DEF IInv, Shared, StoreInv, Deliverable
      <3>2. CASE This(h) \notin CiphersOf(s)
        <4>1. CiphersOf(s) \cap (consumed \cup handled) # {}
          BY <1>1, <1>5, <2>3, <3>2
        <4> QED BY <2>1, <4>1 DEF IInv, Shared, StoreInv
      <3> QED BY <3>1, <3>2
    <2>4. \A c \in buffer' : c[1] \notin Plaintext
      BY <1>1, <1>2 DEF IInv, Shared, StoreInv
    <2>5. config'.buffer => \A s \in Deliverable' : CiphersOf(s) \cap consumed' \subseteq buffer'
      BY <1>1, <1>8 DEF IInv, Shared, StoreInv
    <2>6. \A c \in cleared' : Settled(c)'
      BY <1>1, <1>5 DEF IInv, Shared, StoreInv, Settled
    <2>7. ~config'.buffer => buffer' = {}
      BY <1>1 DEF IInv, Shared, StoreInv
    <2> QED BY <2>2, <2>3, <2>4, <2>5, <2>6, <2>7 DEF StoreInv
  <1>11. PromiseInv'
    BY <1>1, <1>5, PromiseFrame DEF IInv, Shared
  <1>12. CountInv'
    BY <1>1, <1>5, CountFrame DEF IInv, Shared
  <1>13. AcceptInv'
    <2>1. \A g \in Handlers : pc[g] = "clear" => Still(g)
      BY <1>1, <1>7 DEF Only
    <2> QED BY <1>1, <1>5, <1>8, <2>1, AcceptFrame DEF IInv, Shared
  <1>14. buffer \subseteq buffer' /\ buffer' \subseteq buffer \cup {This(h)}
    BY <1>1
  <1> QED BY <1>1, <1>3, <1>5, <1>6, <1>7, <1>9, <1>10, <1>11, <1>12, <1>13, <1>14, HandlerStep

\* unpadMessage and the protobuf.
LEMMA UnpadStep == ASSUME IInv, NEW h \in Handlers, Unpad(h) PROVE IInv'
  <1>1. pc[h] = "unpad" /\ UNCHANGED <<config, server, stored, history, network>>
    BY DEF Unpad
  <1>2. CASE Fails(h) \/ (Returns(h) /\ UNCHANGED sends)
    BY <1>1, <1>2, FailsStep
  <1>3. CASE unpadMessage(h)
    <2> DEFINE place == CASE This(h) \in Undecodable -> "next"
                          [] This(h) \in UnknownVersion -> Cleared
                          [] OTHER -> "dispatch"
               bad == IF This(h) \in UnknownVersion THEN failed[h] ELSE This(h) \in Undecodable
    <2>1. /\ cancelDelayedRequestFromPhone(cur[h].msg)
          /\ UNCHANGED <<todo, goroutines, retries, cur, child>>
          /\ failed' = [failed EXCEPT ![h] = bad] /\ pc' = [pc EXCEPT ![h] = place]
      BY <1>3 DEF Unpad, FrameType
    <2>2. /\ place \in {"next", "clear", "dispatch"} /\ place \in Places
          /\ place \in {"next", "clear"} => This(h) \in Undecodable \cup UnknownVersion
          /\ place = "clear" => config.buffer
      BY DEF Cleared, Places
    <2>3. bad \in BOOLEAN
      <3>1. failed[h] \in BOOLEAN
        BY DEF IInv, Types, FrameType
      <3>2. bad = failed[h] \/ bad = (This(h) \in Undecodable)
        OBVIOUS
      <3>3. (This(h) \in Undecodable) \in BOOLEAN
        OBVIOUS
      <3> QED BY <3>1, <3>2, <3>3
    <2> HIDE DEF place, bad
    <2>4. FrameType' /\ OtherFrames(h) /\ pc'[h] = place /\ cur'[h] = cur[h] /\ child'[h] = child[h]
      BY <2>1, <2>2, <2>3 DEF IInv, Types, FrameType, OtherFrames
    <2>5. phone' \in [Messages -> {"none", "waiting", "cancelled"}]
      BY <2>1 DEF cancelDelayedRequestFromPhone, IInv, Types, SendType
    <2>6. place \in {"next", "clear"} => Settled(This(h))
      BY <2>2 DEF Settled
    <2>7. /\ cur[h] \notin twice => This(h) \notin cleared
          /\ config.buffer => This(h) \in buffer
          /\ ~config.buffer /\ ~overlapped => times[This(h)] = 0 /\ This(h) \in consumed
      BY <1>1 DEF IInv, At, StoreAt, CountAt
    <2> QED BY <1>1, <2>1, <2>2, <2>4, <2>5, <2>6, <2>7, Moves
  <1> QED BY <1>2, <1>3 DEF Unpad, FailsUnlessCancelled

\* The event handlers: an event they refuse leaves its stanza unacknowledged.
LEMMA handleDecryptedMessageStep ==
    ASSUME IInv, NEW h \in Handlers, handleDecryptedMessage(h) PROVE IInv'
  <1>1. pc[h] = "dispatch" /\ UNCHANGED <<config, server, stored, sends, network>>
    BY DEF handleDecryptedMessage
  <1>2. PICK ok \in BOOLEAN : Dispatched(h, ok) /\ IF ok THEN Goto(h, Cleared) ELSE Returns(h)
    BY DEF handleDecryptedMessage
  <1>3. /\ cur[h] \in Stanzas /\ cur[h] # NoStanza /\ child[h] \in 1..Children(cur[h])
        /\ cur[h].msg \notin Plaintext /\ todo[h] \in Seq(Quiet)
        /\ This(h) \in AllCiphers /\ This(h)[1] = cur[h].msg
    BY <1>1, ThisFacts, NothingToSend DEF IInv, Types, At, PlaceAt
  <1>4. /\ HistoryType' /\ handled \subseteq handled' /\ handled' \subseteq handled \cup {This(h)}
        /\ ok => This(h) \in handled'
        /\ ~ok => handled' = handled
        /\ \A c \in AllCiphers : c # This(h) => times'[c] = times[c]
        /\ times'[This(h)] = times[This(h)] + 1
        /\ UNCHANGED <<unclear, overlapped, twice>>
    BY <1>2, <1>3, DispatchedFacts DEF IInv, Types
  <1>5. /\ FrameType' /\ OtherFrames(h)
        /\ \/ /\ ok /\ pc'[h] \in {"clear", "next"} /\ (pc'[h] = "clear" <=> config.buffer)
              /\ cur'[h] = cur[h] /\ child'[h] = child[h]
           \/ ~ok /\ pc'[h] = "idle" /\ cur'[h] = NoStanza /\ child'[h] = 1
    <2>1. CASE ok
      <3>1. Cleared \in Places /\ Cleared \in {"clear", "next"} /\ (Cleared = "clear" <=> config.buffer)
        BY DEF Cleared, Places
      <3>2. Goto(h, Cleared)
        BY <1>2, <2>1
      <3>3. FrameType' /\ OtherFrames(h) /\ pc'[h] = Cleared /\ cur'[h] = cur[h] /\ child'[h] = child[h]
        BY <3>1, <3>2, GotoFacts DEF IInv, Types
      <3> QED BY <2>1, <3>1, <3>3
    <2>2. CASE ~ok
      BY <1>2, <2>2, ReturnsFacts DEF IInv, Types
    <2> QED BY <2>1, <2>2
  <1>6. Types'
    <2>1. TodoType' /\ SendType'
      BY <1>1 DEF IInv, Types, TodoType, SendType, sends
    <2> QED BY <1>1, <1>4, <1>5, <2>1
        DEF IInv, Types, ServerType, StoreType, NetworkType, server, stored, network
  <1>7. Only(h)
    BY <1>1, <1>5 DEF Only, Still, OtherFrames, sends
  <1>8. pc'[h] \in {"clear", "next"} => This(h)' = This(h) /\ Settled(This(h))'
    BY <1>4, <1>5 DEF This, Cipher, Settled
  <1>9. At(h)'
    <2>1. PlaceAt(h)'
      <3>1. CASE pc'[h] = "idle" /\ cur'[h] = NoStanza /\ child'[h] = 1
        BY <3>1 DEF PlaceAt
      <3>2. CASE /\ pc'[h] \in {"clear", "next"} /\ (pc'[h] = "clear" <=> config.buffer)
                 /\ cur'[h] = cur[h] /\ child'[h] = child[h]
        BY <1>1, <1>3, <3>2 DEF PlaceAt, Children
      <3> QED BY <1>5, <3>1, <3>2
    <2>2. StoreAt(h)'
      BY <1>1, <1>5, <1>8 DEF IInv, At, StoreAt, stored
    <2>3. PromiseAt(h)' /\ CountAt(h)'
      BY <1>1, <1>3, <1>5 DEF PromiseAt, CountAt, sends
    <2>4. ProgressAt(h)'
      <3>1. CASE pc'[h] = "idle"
        BY <3>1 DEF ProgressAt
      <3>2. CASE ok /\ pc'[h] \in {"clear", "next"} /\ cur'[h] = cur[h] /\ child'[h] = child[h]
        <4>1. \A k \in 1..Children(cur[h]) : k <= child[h] => k < child[h] \/ k = child[h]
          BY <1>3, CipherFacts
        <4>2. ASSUME config.buffer, cur[h] \notin twice, NEW k \in 1..Children(cur[h]), k <= child[h]
              PROVE  Cipher(cur[h], k) \in handled' \cup Undecodable \cup UnknownType \cup UnknownVersion
          <5>1. CASE k < child[h]
            BY <1>1, <1>4, <4>2, <5>1 DEF IInv, At, ProgressAt, Settled
          <5>2. CASE k = child[h]
            BY <1>4, <3>2, <5>2 DEF This
          <5> QED BY <4>1, <4>2, <5>1, <5>2
        <4> QED BY <1>1, <1>4, <3>2, <4>2 DEF ProgressAt, Settled, Cipher, Children
      <3> QED BY <1>5, <3>1, <3>2
    <2> QED BY <2>1, <2>2, <2>3, <2>4 DEF At
  <1>10. Deliverable' \subseteq Deliverable
    BY <1>1, <1>5, <1>7, DeliverableFrame DEF server
  <1>11. StoreInv'
    BY <1>1, <1>4, <1>10, DispatchStore DEF server
  <1>12. PromiseInv'
    BY <1>1, <1>4, PromiseFrame DEF IInv, Shared, server, sends
  <1>13. CountInv'
    <2>1. ~config.buffer /\ ~overlapped => times[This(h)] = 0 /\ This(h) \in consumed
      BY <1>1 DEF IInv, At, CountAt
    <2> QED BY <1>1, <1>4, <2>1 DEF IInv, Shared, CountInv, stored
  <1>14. AcceptInv'
    <2>1. ASSUME NEW c, Recorded(c) PROVE Recorded(c)'
      <3>1. \A g \in Handlers : pc[g] = "clear" => This(g)' = This(g) /\ pc'[g] = "clear"
        BY <1>1, <1>7 DEF Only, Still, This, Cipher
      <3>2. UNCHANGED <<cleared, unclear, crashes>>
        BY <1>1, <1>4 DEF stored, network
      <3> QED BY <2>1, <3>1, <3>2 DEF Recorded
    <2>2. ASSUME NEW c, config.buffer, ok, c = This(h) PROVE Recorded(c)'
      BY <1>5, <1>8, <2>2 DEF Recorded
    <2>3. \A c : c \in handled' => c \in handled \/ (ok /\ c = This(h))
      BY <1>4
    <2> QED BY <1>1, <1>4, <1>10, <2>1, <2>2, <2>3 DEF IInv, Shared, AcceptInv
  <1> QED BY <1>1, <1>4, <1>5, <1>6, <1>7, <1>9, <1>11, <1>12, <1>13, <1>14, HandlerStep DEF stored

\* Only the row of a settled event is cleared.
LEMMA ClearStep ==
    ASSUME IInv, NEW h \in Handlers, ClearBufferedEventPlaintext(h) PROVE IInv'
  <1>1. /\ pc[h] = "clear" /\ Goto(h, "next") /\ "next" \in Places
        /\ UNCHANGED <<config, server, consumed, buffer, sends, handled, times, overlapped, twice, network>>
        /\ \/ cleared' = cleared \cup (buffer \cap {This(h)}) /\ UNCHANGED unclear
           \/ unclear' = unclear \cup {This(h)} /\ UNCHANGED cleared
    BY DEF ClearBufferedEventPlaintext, Places
  <1>2. /\ cur[h] \in Stanzas /\ cur[h] # NoStanza /\ child[h] \in 1..Children(cur[h])
        /\ cur[h].msg \notin Plaintext /\ config.buffer /\ todo[h] \in Seq(Quiet)
        /\ This(h) \in AllCiphers
    BY <1>1, ThisFacts, NothingToSend DEF IInv, Types, At, PlaceAt
  <1>3. Settled(This(h)) /\ This(h) \in buffer
    BY <1>1, <1>2 DEF IInv, At, StoreAt
  <1>4. /\ FrameType' /\ OtherFrames(h)
        /\ pc'[h] = "next" /\ cur'[h] = cur[h] /\ child'[h] = child[h]
    BY <1>1, GotoFacts DEF IInv, Types
  <1>5. /\ cleared \subseteq cleared' /\ cleared' \subseteq cleared \cup {This(h)} /\ unclear \subseteq unclear'
        /\ This(h) \in cleared' \cup unclear'
    BY <1>1, <1>3
  <1>6. Types'
    <2>1. StoreType'
      BY <1>1, <1>3, <1>5 DEF IInv, Types, StoreType
    <2>2. HistoryType'
      BY <1>1, <1>2 DEF IInv, Types, HistoryType
    <2>3. TodoType' /\ SendType'
      BY <1>1 DEF IInv, Types, TodoType, SendType, sends
    <2> QED BY <1>1, <1>4, <2>1, <2>2, <2>3 DEF IInv, Types, ServerType, NetworkType, server, network
  <1>7. Only(h)
    BY <1>1, <1>4 DEF Only, Still, OtherFrames, sends
  <1>8. At(h)'
    <2>1. PlaceAt(h)'
      BY <1>2, <1>4 DEF PlaceAt
    <2>2. StoreAt(h)' /\ PromiseAt(h)' /\ CountAt(h)'
      BY <1>1, <1>2, <1>4 DEF StoreAt, PromiseAt, CountAt, sends
    <2>3. ProgressAt(h)'
      BY <1>1, <1>4 DEF IInv, At, ProgressAt, Settled, Cipher, Children
    <2> QED BY <2>1, <2>2, <2>3 DEF At
  <1>9. Deliverable' \subseteq Deliverable
    BY <1>1, <1>4, <1>7, DeliverableFrame DEF server
  <1>10. StoreInv'
    <2>1. \A s : Offered(s)' = Offered(s)
      BY <1>1 DEF Offered, server
    <2>2. \A c \in cleared' : Settled(c)'
      BY <1>1, <1>3, <1>5 DEF IInv, Shared, StoreInv, Settled
    <2> QED BY <1>1, <1>9, <2>1, <2>2 DEF IInv, Shared, StoreInv
  <1>11. PromiseInv'
    BY <1>1, PromiseFrame DEF IInv, Shared, server, sends
  <1>12. CountInv'
    BY <1>1, CountFrame DEF IInv, Shared
  <1>13. AcceptInv'
    <2>1. ASSUME NEW c, Recorded(c) PROVE Recorded(c)'
      <3>1. \A g \in Handlers : g # h /\ pc[g] = "clear" => This(g)' = This(g) /\ pc'[g] = "clear"
        BY <1>1, <1>7 DEF Only, Still, This, Cipher
      <3>2. UNCHANGED crashes
        BY <1>1 DEF network
      <3> QED BY <1>5, <2>1, <3>1, <3>2 DEF Recorded
    <2> QED BY <1>1, <1>9, <2>1 DEF IInv, Shared, AcceptInv
  <1> QED BY <1>1, <1>4, <1>5, <1>6, <1>7, <1>8, <1>10, <1>11, <1>12, <1>13, HandlerStep

\* The next child, or the receipt: by then every child is settled.
LEMMA NextChildStep == ASSUME IInv, NEW h \in Handlers, NextChild(h) PROVE IInv'
  <1>1. pc[h] = "next" /\ UNCHANGED <<config, server, stored, history, network>>
    BY DEF NextChild
  <1>2. /\ cur[h] \in Stanzas /\ cur[h] # NoStanza /\ cur[h].msg \notin Plaintext
        /\ todo[h] \in Seq(Quiet) /\ Children(cur[h]) \in Nat /\ child[h] \in Nat \ {0}
    BY <1>1, ThisFacts, CipherFacts, NothingToSend DEF IInv, Types, At, PlaceAt, FrameType
  <1>3. UNCHANGED <<handled, twice, overlapped, held, receipted, resent, crashes>>
    BY <1>1 DEF history, server, network
  <1>4. CASE child[h] < Children(cur[h])
    <2>1. /\ pc' = [pc EXCEPT ![h] = "lookup"] /\ child' = [child EXCEPT ![h] = child[h] + 1]
          /\ UNCHANGED <<cur, failed, sends>>
      BY <1>4 DEF NextChild
    <2>2. child[h] + 1 \in 1..Children(cur[h]) /\ child[h] + 1 \in Nat \ {0} /\ "lookup" \in Places
      BY <1>2, <1>4 DEF Places
    <2>3. /\ FrameType' /\ OtherFrames(h)
          /\ pc'[h] = "lookup" /\ cur'[h] = cur[h] /\ child'[h] = child[h] + 1
      BY <2>1, <2>2 DEF IInv, Types, FrameType, OtherFrames
    <2>4. TodoType' /\ SendType' /\ Only(h) /\ UNCHANGED <<todo, goroutines>>
      BY <2>1, <2>3 DEF IInv, Types, TodoType, SendType, sends, Only, Still, OtherFrames
    <2>5. Types'
      BY <1>1, <2>3, <2>4, QuietTypes DEF IInv
    <2>6. At(h)'
      <3>1. PlaceAt(h)'
        BY <1>2, <2>2, <2>3 DEF PlaceAt, Children
      <3>2. StoreAt(h)' /\ CountAt(h)' /\ PromiseAt(h)'
        BY <1>2, <2>3, <2>4 DEF StoreAt, CountAt, PromiseAt
      <3>3. ProgressAt(h)'
        <4>1. \A k \in 1..Children(cur[h]) : k < child[h] + 1 => k <= child[h]
          BY <1>2
        <4> QED BY <1>1, <1>3, <2>3, <4>1 DEF IInv, At, ProgressAt, Settled, Cipher, Children
      <3> QED BY <3>1, <3>2, <3>3 DEF At
    <2>7. PromiseInv'
      BY <1>1, <1>3, <2>4, PromiseFrame DEF IInv, Shared
    <2> QED BY <1>1, <1>3, <2>3, <2>4, <2>5, <2>6, <2>7, QuietStep
  <1>5. CASE ~(child[h] < Children(cur[h]))
    <2> DEFINE answer == <<Do(IF failed[h] \/ Children(cur[h]) = 0 THEN "nack" ELSE "receipt")>>
    <2>1. Promised(cur[h])
      <3>1. \A k \in 1..Children(cur[h]) : k <= child[h]
        BY <1>2, <1>5
      <3>2. config.buffer /\ cur[h] \notin twice => \A k \in 1..Children(cur[h]) : Settled(Cipher(cur[h], k))
        BY <1>1, <3>1 DEF IInv, At, ProgressAt
      <3> QED BY <1>2, <3>2, CipherFacts DEF Promised
    <2>2. answer \in Seq(SendSteps) /\ answer # <<>>
      <3>1. Do("nack") \in SendSteps /\ Do("receipt") \in SendSteps
        BY StepFacts
      <3> QED BY <3>1
    <2>3. Background(h, answer, "idle")
      BY <1>5 DEF NextChild
    <2>4. Goroutine(cur[h], answer).stanza = cur[h]
      BY DEF Goroutine
    <2> HIDE DEF answer
    <2>5. /\ FrameType' /\ TodoType' /\ SendType' /\ Only(h)
          /\ \/ todo'[h] = answer /\ pc'[h] = "send" /\ cur'[h] = cur[h]
                /\ BagToSet(goroutines)' = BagToSet(goroutines)
             \/ /\ todo'[h] = todo[h]
                /\ BagToSet(goroutines)' = BagToSet(goroutines) \cup {Goroutine(cur[h], answer)}
                /\ pc'[h] = "idle" /\ cur'[h] = NoStanza /\ child'[h] = 1
      BY <1>2, <2>2, <2>3, BackgroundFacts DEF IInv, Types
    <2>6. Types'
      BY <1>1, <2>5, QuietTypes DEF IInv
    <2>7. At(h)'
      <3>1. PlaceAt(h)'
        BY <1>2, <2>5 DEF PlaceAt
      <3>2. StoreAt(h)' /\ CountAt(h)' /\ ProgressAt(h)'
        BY <2>5 DEF StoreAt, CountAt, ProgressAt
      <3>3. PromiseAt(h)'
        <4>1. CASE todo'[h] = todo[h]
          BY <1>2, <4>1 DEF PromiseAt
        <4>2. CASE pc'[h] = "send" /\ cur'[h] = cur[h]
          BY <1>1, <1>3, <2>1, <4>2 DEF PromiseAt, Promised, Settled, CiphersOf, Cipher, Children
        <4> QED BY <2>5, <4>1, <4>2
      <3> QED BY <3>1, <3>2, <3>3 DEF At
    <2>8. PromiseInv'
      <3>1. \A g \in BagToSet(goroutines)' : g \in BagToSet(goroutines) \/ Promised(g.stanza)'
        <4> SUFFICES ASSUME NEW g \in BagToSet(goroutines)', g \notin BagToSet(goroutines)
                     PROVE  Promised(g.stanza)'
          OBVIOUS
        <4>1. g.stanza = cur[h]
          BY <2>4, <2>5
        <4>2. Promised(g.stanza)
          BY <2>1, <4>1
        <4> QED BY <1>1, <1>3, <4>2 DEF Promised, Settled
      <3> QED BY <1>1, <1>3, <3>1, PromiseFrame DEF IInv, Shared
    <2>9. cur'[h] \in {cur[h], NoStanza}
      BY <2>5
    <2> QED BY <1>1, <1>3, <2>5, <2>6, <2>7, <2>8, <2>9, QuietStep
  <1> QED BY <1>4, <1>5

-----------------------------------------------------------------------------
(* What is sent                                                            *)

\* sendNode: only the step "receipt" makes a receipt, and nothing becomes
\* deliverable.
LEMMA ReachesFacts ==
    ASSUME ServerType, UNCHANGED config, NEW s \in Stanzas, NEW step \in SendSteps, Reaches(s, step)
    PROVE  /\ ServerType' /\ held' \subseteq held /\ UNCHANGED resent
           /\ receipted' \subseteq receipted \cup {s}
           /\ step.do # "receipt" => receipted' = receipted
  <1>1. s.msg \in Messages
    BY CipherFacts
  <1>2. step.do = "ask" => step.count \in 1..RetryLimit - 1
    BY DEF SendSteps
  <1>3. CASE UNCHANGED server
    BY <1>3 DEF server, ServerType
  <1>4. CASE /\ step.do = "receipt" /\ Acknowledged(s)
             /\ receipted' = receipted \cup {s} /\ UNCHANGED <<asked, phoned, resent, dropped>>
    BY <1>4 DEF Acknowledged, ServerType
  <1>5. CASE /\ step.do = "ack" /\ Acknowledged(s)
             /\ dropped' = dropped \cup {s} /\ UNCHANGED <<asked, phoned, resent, receipted>>
    BY <1>5 DEF Acknowledged, ServerType
  <1>6. CASE Acknowledged(s) /\ UNCHANGED <<asked, phoned, resent, receipted, dropped>>
    BY <1>6 DEF Acknowledged, ServerType
  <1>7. CASE /\ step.do = "ask" /\ asked' = asked \cup {<<s.msg, step.count>>}
             /\ UNCHANGED <<held, phoned, resent, receipted, dropped>>
    BY <1>1, <1>2, <1>7 DEF ServerType
  <1>8. CASE /\ step.do = "phone" /\ phoned' = phoned \cup {s.msg}
             /\ UNCHANGED <<held, asked, resent, receipted, dropped>>
    BY <1>1, <1>8 DEF ServerType
  <1> QED BY <1>3, <1>4, <1>5, <1>6, <1>7, <1>8 DEF Reaches

\* A step that reached the server keeps the promises, if the one it made was kept.
LEMMA PromiseSent ==
    ASSUME PromiseInv, UNCHANGED <<config, handled, twice>>, NEW s, receipted' \subseteq receipted \cup {s},
           receipted' = receipted \/ Promised(s),
           \A g \in BagToSet(goroutines)' : g.todo \in Seq(Quiet) \/ Promised(g.stanza)'
    PROVE  PromiseInv'
  <1>1. ASSUME NEW t \in receipted' PROVE Promised(t)'
    <2>1. Promised(t)
      BY <1>1 DEF PromiseInv
    <2> QED BY <2>1 DEF Promised, Settled
  <1> QED BY <1>1 DEF PromiseInv

\* sendRetryReceipt asks the sender, perhaps the phone, and promises nothing.
LEMMA RetryFacts ==
    ASSUME SendType, NEW s \in Stanzas, NEW o \in sendRetryReceipt(s)
    PROVE  /\ o.retries \in [Messages -> Nat] /\ o.steps \in Seq(Quiet)
           /\ \/ o.delayed = EmptyBag
              \/ o.delayed = SetToBag({Goroutine(s, <<Do("delayed")>>)})
  <1>1. PICK counters \in {retries, Forgotten} :
          o = LET incremented == incrementBoundedCounter(counters, s.msg)
                  count == IF incremented = 1 /\ s.attempt > 0 THEN s.attempt + 1 ELSE incremented
                  sent == count \in 1..RetryLimit - 1
                  first == sent /\ count = 1 IN
              [retries |-> IF count = 0 THEN counters ELSE [counters EXCEPT ![s.msg] = count],
               steps |-> IF ~sent THEN <<>>
                         ELSE (IF first /\ config.sync THEN <<Do("phone")>> ELSE <<>>)
                                 \o <<[do |-> "ask", count |-> count]>>,
               delayed |-> IF first /\ ~config.sync
                           THEN SetToBag({Goroutine(s, <<Do("delayed")>>)}) ELSE EmptyBag]
    BY DEF sendRetryReceipt
  <1> DEFINE incremented == incrementBoundedCounter(counters, s.msg)
             count == IF incremented = 1 /\ s.attempt > 0 THEN s.attempt + 1 ELSE incremented
             first == count \in 1..RetryLimit - 1 /\ count = 1
  <1>2. counters \in [Messages -> Nat] /\ s.msg \in Messages /\ s.attempt \in Nat
    <2>1. s.msg \in Messages /\ s.attempt \in 0..RetryLimit - 1
      BY CipherFacts
    <2>2. counters \in [Messages -> Nat]
      BY DEF Forgotten, SendType
    <2> QED BY <2>1, <2>2
  <1>3. count \in Nat
    <2>1. incremented \in Nat
      BY <1>2 DEF incrementBoundedCounter
    <2> QED BY <1>2, <2>1
  <1>4. /\ o.retries = IF count = 0 THEN counters ELSE [counters EXCEPT ![s.msg] = count]
        /\ o.steps = IF ~(count \in 1..RetryLimit - 1) THEN <<>>
                     ELSE (IF first /\ config.sync THEN <<Do("phone")>> ELSE <<>>)
                             \o <<[do |-> "ask", count |-> count]>>
        /\ o.delayed = IF first /\ ~config.sync
                       THEN SetToBag({Goroutine(s, <<Do("delayed")>>)}) ELSE EmptyBag
    BY <1>1
  <1> HIDE DEF count, first
  <1>5. o.retries \in [Messages -> Nat]
    BY <1>2, <1>3, <1>4
  <1>6. o.steps \in Seq(Quiet)
    <2>1. CASE ~(count \in 1..RetryLimit - 1)
      BY <1>4, <2>1
    <2>2. CASE count \in 1..RetryLimit - 1
      <3>1. Do("phone") \in Quiet /\ [do |-> "ask", count |-> count] \in Quiet
        BY <2>2, StepFacts
      <3> DEFINE ask == [do |-> "ask", count |-> count]
                 phoneFirst == IF first /\ config.sync THEN <<Do("phone")>> ELSE <<>>
      <3>2. phoneFirst \in Seq(Quiet) /\ <<ask>> \in Seq(Quiet)
        BY <3>1
      <3>3. o.steps = phoneFirst \o <<ask>>
        BY <1>4, <2>2
      <3> HIDE DEF ask, phoneFirst
      <3> QED BY <3>2, <3>3
    <2> QED BY <2>1, <2>2
  <1>7. \/ o.delayed = EmptyBag
        \/ o.delayed = SetToBag({Goroutine(s, <<Do("delayed")>>)})
    BY <1>4
  <1> QED BY <1>5, <1>6, <1>7

\* The head and the rest of what is to be sent.
LEMMA HeadTail ==
    ASSUME NEW steps \in Seq(SendSteps), steps # <<>>
    PROVE  /\ Head(steps) \in SendSteps /\ Tail(steps) \in Seq(SendSteps)
           /\ steps \in Seq(Quiet) => Tail(steps) \in Seq(Quiet) /\ Head(steps).do # "receipt"
  <1>1. Head(steps) \in SendSteps /\ Tail(steps) \in Seq(SendSteps)
    OBVIOUS
  <1>2. ASSUME steps \in Seq(Quiet)
        PROVE  Tail(steps) \in Seq(Quiet) /\ Head(steps) \in Quiet
    BY <1>2
  <1> QED BY <1>1, <1>2 DEF Quiet

\* The handler sends the next step.
LEMMA HandlerSendsStep == ASSUME IInv, NEW h \in Handlers, HandlerSends(h) PROVE IInv'
  <1>1. /\ pc[h] = "send" /\ todo[h] # <<>> /\ todo[h] \in Seq(SendSteps)
        /\ UNCHANGED <<config, stored, goroutines, phone, history, network>>
    BY DEF HandlerSends, IInv, Types, TodoType
  <1>2. cur[h] \in Stanzas /\ cur[h] # NoStanza
    BY <1>1, ThisFacts DEF IInv, Types, At
  <1>3. /\ Head(todo[h]) \in SendSteps /\ Tail(todo[h]) \in Seq(SendSteps)
        /\ todo[h] \in Seq(Quiet) => Tail(todo[h]) \in Seq(Quiet) /\ Head(todo[h]).do # "receipt"
    BY <1>1, HeadTail
  <1>4. todo[h] \in Seq(Quiet) \/ Promised(cur[h])
    BY DEF IInv, At, PromiseAt
  <1>5. UNCHANGED <<handled, twice, overlapped, crashes>>
    BY <1>1 DEF history, network
  <1>6. CASE /\ Head(todo[h]).do = "retry"
             /\ \E o \in sendRetryReceipt(cur[h]) :
                   retries' = o.retries /\ ToSend(h, o.steps \o Tail(todo[h]))
             /\ UNCHANGED <<frame, server>>
    <2>1. PICK o \in sendRetryReceipt(cur[h]) :
             retries' = o.retries /\ ToSend(h, o.steps \o Tail(todo[h]))
      BY <1>6
    <2>2. o.retries \in [Messages -> Nat] /\ o.steps \in Seq(Quiet)
      BY <1>2, <2>1, RetryFacts DEF IInv, Types
    <2>3. o.steps \in Seq(SendSteps)
      BY <2>2, StepFacts
    <2> DEFINE steps == o.steps \o Tail(todo[h])
    <2>4. steps \in Seq(SendSteps) /\ (todo[h] \in Seq(Quiet) => steps \in Seq(Quiet))
      BY <1>3, <2>2, <2>3
    <2>5. ToSend(h, steps)
      BY <2>1
    <2> HIDE DEF steps
    <2>6. TodoType' /\ todo'[h] = steps /\ \A g \in Handlers : g # h => todo'[g] = todo[g]
      BY <2>4, <2>5, ToSendFacts DEF IInv, Types
    <2>7. /\ FrameType' /\ OtherFrames(h)
          /\ pc'[h] = "send" /\ cur'[h] = cur[h] /\ child'[h] = child[h]
      BY <1>1, <1>6 DEF IInv, Types, FrameType, OtherFrames, frame
    <2>8. Only(h)
      BY <2>6, <2>7 DEF Only, Still, OtherFrames
    <2>9. Types'
      <3>1. SendType'
        BY <1>1, <2>1, <2>2 DEF IInv, Types, SendType
      <3> QED BY <1>1, <1>6, <2>6, <2>7, <3>1, QuietTypes DEF IInv
    <2>10. At(h)'
      <3>1. PlaceAt(h)'
        BY <1>2, <2>7 DEF PlaceAt
      <3>2. StoreAt(h)' /\ CountAt(h)' /\ ProgressAt(h)'
        BY <2>7 DEF StoreAt, CountAt, ProgressAt
      <3>3. PromiseAt(h)'
        BY <1>1, <1>4, <1>5, <2>4, <2>6, <2>7 DEF PromiseAt, Promised, Settled
      <3> QED BY <3>1, <3>2, <3>3 DEF At
    <2>11. PromiseInv'
      BY <1>1, <1>5, <1>6, PromiseFrame DEF IInv, Shared, server
    <2> QED BY <1>1, <1>5, <1>6, <2>7, <2>8, <2>9, <2>10, <2>11, QuietStep DEF server
  <1>7. CASE /\ Head(todo[h]).do # "retry"
             /\ Reaches(cur[h], Head(todo[h])) /\ ToSend(h, Tail(todo[h]))
             /\ IF Tail(todo[h]) # <<>> THEN UNCHANGED frame
                ELSE IF Head(todo[h]).do = "ack" THEN Goto(h, "event") ELSE Returns(h)
             /\ UNCHANGED retries
    <2>1. /\ ServerType' /\ held' \subseteq held /\ UNCHANGED resent
          /\ receipted' \subseteq receipted \cup {cur[h]}
          /\ Head(todo[h]).do # "receipt" => receipted' = receipted
      BY <1>1, <1>2, <1>3, <1>7, ReachesFacts DEF IInv, Types
    <2>2. TodoType' /\ todo'[h] = Tail(todo[h]) /\ \A g \in Handlers : g # h => todo'[g] = todo[g]
      BY <1>3, <1>7, ToSendFacts DEF IInv, Types
    <2>3. /\ FrameType' /\ OtherFrames(h)
          /\ \/ Tail(todo[h]) # <<>> /\ pc'[h] = "send" /\ cur'[h] = cur[h]
             \/ Tail(todo[h]) = <<>> /\ pc'[h] = "event" /\ cur'[h] = cur[h]
             \/ Tail(todo[h]) = <<>> /\ pc'[h] = "idle" /\ cur'[h] = NoStanza /\ child'[h] = 1
      <3>1. CASE Tail(todo[h]) # <<>>
        BY <1>1, <1>7, <3>1 DEF IInv, Types, FrameType, OtherFrames, frame
      <3>2. CASE Tail(todo[h]) = <<>> /\ Head(todo[h]).do = "ack"
        <4>1. Goto(h, "event") /\ "event" \in Places
          BY <1>7, <3>2 DEF Places
        <4>2. FrameType' /\ OtherFrames(h) /\ pc'[h] = "event" /\ cur'[h] = cur[h]
          BY <4>1, GotoFacts DEF IInv, Types
        <4> QED BY <3>2, <4>2
      <3>3. CASE Tail(todo[h]) = <<>> /\ Head(todo[h]).do # "ack"
        <4>1. Returns(h)
          BY <1>7, <3>3
        <4>2. FrameType' /\ OtherFrames(h) /\ pc'[h] = "idle" /\ cur'[h] = NoStanza /\ child'[h] = 1
          BY <4>1, ReturnsFacts DEF IInv, Types
        <4> QED BY <3>3, <4>2
      <3> QED BY <3>1, <3>2, <3>3
    <2>4. Only(h)
      BY <2>2, <2>3 DEF Only, Still, OtherFrames
    <2>5. Types'
      <3>1. SendType'
        BY <1>1, <1>7 DEF IInv, Types, SendType
      <3> QED BY <1>1, <2>1, <2>2, <2>3, <3>1
          DEF IInv, Types, StoreType, HistoryType, NetworkType, stored, history, network
    <2>6. At(h)'
      <3>1. PlaceAt(h)'
        BY <1>2, <2>3 DEF PlaceAt
      <3>2. StoreAt(h)' /\ CountAt(h)' /\ ProgressAt(h)'
        BY <2>3 DEF StoreAt, CountAt, ProgressAt
      <3>3. PromiseAt(h)'
        <4>1. CASE todo[h] \in Seq(Quiet)
          BY <1>3, <2>2, <4>1 DEF PromiseAt
        <4>2. CASE Tail(todo[h]) = <<>>
          <5>1. <<>> \in Seq(Quiet)
            OBVIOUS
          <5> QED BY <2>2, <4>2, <5>1 DEF PromiseAt
        <4>3. CASE todo[h] \notin Seq(Quiet) /\ Tail(todo[h]) # <<>>
          BY <1>1, <1>4, <1>5, <2>3, <4>3 DEF PromiseAt, Promised, Settled
        <4> QED BY <4>1, <4>2, <4>3
      <3> QED BY <3>1, <3>2, <3>3 DEF At
    <2>7. PromiseInv'
      <3>1. receipted' = receipted \/ Promised(cur[h])
        BY <1>3, <1>4, <2>1
      <3>2. \A g \in BagToSet(goroutines)' : g.todo \in Seq(Quiet) \/ Promised(g.stanza)'
        BY <1>1, <1>5 DEF IInv, Shared, PromiseInv, Promised, Settled
      <3> QED BY <1>1, <1>5, <2>1, <3>1, <3>2, PromiseSent DEF IInv, Shared
    <2>8. cur'[h] \in {cur[h], NoStanza}
      BY <2>3
    <2> QED BY <1>1, <1>5, <2>1, <2>4, <2>5, <2>6, <2>7, <2>8, QuietStep
  <1> QED BY <1>6, <1>7 DEF HandlerSends

\* A goroutine that has sent one step goes on with the rest, or ends.
LEMMA RestFacts ==
    ASSUME SendType, NEW g \in BagToSet(goroutines), NEW steps \in Seq(SendSteps)
    PROVE  /\ IsABag(Rest(g, steps))
           /\ \A h \in BagToSet(Rest(g, steps)) :
                 /\ h \in Routine /\ h.todo # <<>>
                 /\ h \in BagToSet(goroutines) \/ (h.stanza = g.stanza /\ h.todo = steps)
  <1>1. g \in Routine /\ g.stanza \in Stanzas
    BY DEF SendType, Routine
  <1> DEFINE old == goroutines (-) SetToBag({g})
             new == IF steps = <<>> THEN EmptyBag ELSE SetToBag({Goroutine(g.stanza, steps)})
  <1>2. IsABag(goroutines) /\ IsABag(SetToBag({g}))
    BY BagOfSet DEF SendType
  <1>3. IsABag(old) /\ BagToSet(old) \subseteq BagToSet(goroutines)
    BY <1>2, BagMinus
  <1>4. /\ IsABag(new)
        /\ \A h \in BagToSet(new) : h = Goroutine(g.stanza, steps) /\ steps # <<>>
    <2>1. CASE steps = <<>>
      BY <2>1, BagOfSet
    <2>2. CASE steps # <<>>
      BY <2>2, BagOfSet
    <2> QED BY <2>1, <2>2
  <1>5. Rest(g, steps) = old (+) new
    BY DEF Rest
  <1> HIDE DEF old, new
  <1>6. IsABag(old (+) new) /\ BagToSet(old (+) new) = BagToSet(old) \cup BagToSet(new)
    BY <1>3, <1>4, BagPlus
  <1>7. /\ Goroutine(g.stanza, steps) \in Routine
        /\ Goroutine(g.stanza, steps).stanza = g.stanza /\ Goroutine(g.stanza, steps).todo = steps
    BY <1>1, RoutineFacts
  <1>8. ASSUME NEW h \in BagToSet(Rest(g, steps))
        PROVE  /\ h \in Routine /\ h.todo # <<>>
               /\ h \in BagToSet(goroutines) \/ (h.stanza = g.stanza /\ h.todo = steps)
    <2>1. CASE h \in BagToSet(old)
      BY <1>3, <2>1 DEF SendType
    <2>2. CASE h \in BagToSet(new)
      BY <1>4, <1>7, <2>2
    <2> QED BY <1>5, <1>6, <1>8, <2>1, <2>2
  <1> QED BY <1>5, <1>6, <1>8


\* Steps that leave the handlers and the stores alone.
LEMMA HandlersRest ==
    ASSUME IInv, UNCHANGED <<config, stored, frame, todo, history>>
    PROVE  SerialInv' /\ CountInv' /\ \A h \in Handlers : At(h)' /\ Still(h)
  <1>1. UNCHANGED <<consumed, buffer, cleared, pc, cur, child, failed, handled, times, unclear,
                    overlapped, twice>>
    BY DEF stored, frame, history
  <1>2. SerialInv'
    BY <1>1 DEF IInv, Shared, SerialInv
  <1>3. CountInv'
    BY <1>1, CountFrame DEF IInv, Shared
  <1>4. ASSUME NEW h \in Handlers PROVE At(h)' /\ Still(h)
    <2>1. Still(h) /\ At(h)
      BY <1>1 DEF Still, IInv
    <2>2. At(h)'
      BY <1>1, <2>1, StillAt
    <2> QED BY <2>1, <2>2
  <1> QED BY <1>2, <1>3, <1>4

\* They keep the invariants when nothing new becomes deliverable.
LEMMA ServerStep ==
    ASSUME IInv, UNCHANGED <<config, stored, frame, todo, history, resent, crashes>>, held' \subseteq held,
           ServerType', NetworkType', SendType', PromiseInv'
    PROVE  IInv'
  <1>1. UNCHANGED <<consumed, buffer, cleared, pc, cur, child, failed, handled, times, unclear,
                    overlapped, twice>>
    BY DEF stored, frame, history
  <1>2. SerialInv' /\ CountInv' /\ \A h \in Handlers : At(h)' /\ Still(h)
    BY HandlersRest
  <1>3. Deliverable' \subseteq Deliverable
    BY <1>1 DEF Deliverable
  <1>4. StoreInv'
    BY <1>1, <1>3, StoreFrame DEF IInv, Shared
  <1>5. AcceptInv'
    BY <1>1, <1>2, <1>3, AcceptFrame DEF IInv, Shared
  <1>6. Types'
    BY <1>1 DEF IInv, Types, StoreType, HistoryType, FrameType, TodoType
  <1> QED BY <1>2, <1>4, <1>5, <1>6 DEF IInv, Shared

\* A goroutine sends its next step.
LEMMA GoroutineSendsStep ==
    ASSUME IInv, NEW g \in BagToSet(goroutines), GoroutineSends(g) PROVE IInv'
  <1>1. UNCHANGED <<config, stored, frame, todo, history, network>>
    BY DEF GoroutineSends
  <1>2. g \in Routine /\ g.stanza \in Stanzas /\ g.todo \in Seq(SendSteps) /\ g.todo # <<>>
    BY DEF IInv, Types, SendType, Routine
  <1>3. /\ Head(g.todo) \in SendSteps /\ Tail(g.todo) \in Seq(SendSteps)
        /\ g.todo \in Seq(Quiet) => Tail(g.todo) \in Seq(Quiet) /\ Head(g.todo).do # "receipt"
    BY <1>2, HeadTail
  <1>4. g.todo \in Seq(Quiet) \/ Promised(g.stanza)
    BY DEF IInv, Shared, PromiseInv
  <1>6. ASSUME /\ IsABag(goroutines')
               /\ \A h \in BagToSet(goroutines)' :
                     /\ h \in Routine /\ h.todo # <<>>
                     /\ \/ h \in BagToSet(goroutines) \/ h.todo \in Seq(Quiet)
                        \/ (h.stanza = g.stanza /\ Promised(g.stanza)),
               retries' \in [Messages -> Nat],
               phone' \in [Messages -> {"none", "waiting", "cancelled"}],
               ServerType', held' \subseteq held, UNCHANGED resent,
               receipted' \subseteq receipted \cup {g.stanza},
               Head(g.todo).do # "receipt" => receipted' = receipted
        PROVE  IInv'
    <2>1. SendType'
      BY <1>1, <1>6 DEF IInv, Types, SendType
    <2>4. receipted' = receipted \/ Promised(g.stanza)
      BY <1>3, <1>4, <1>6
    <2>5. ASSUME NEW h \in BagToSet(goroutines)' PROVE h.todo \in Seq(Quiet) \/ Promised(h.stanza)'
      <3>1. h.todo \in Seq(Quiet) \/ Promised(h.stanza)
        <4>1. CASE h \in BagToSet(goroutines)
          BY <4>1 DEF IInv, Shared, PromiseInv
        <4>2. CASE h.stanza = g.stanza /\ Promised(g.stanza)
          BY <4>2
        <4> QED BY <1>6, <4>1, <4>2
      <3> QED BY <1>1, <3>1 DEF Promised, Settled, history
    <2>6. PromiseInv'
      BY <1>1, <1>6, <2>4, <2>5, PromiseSent DEF IInv, Shared, history
    <2>7. NetworkType' /\ UNCHANGED crashes
      BY <1>1 DEF IInv, Types, NetworkType, network
    <2> QED BY <1>1, <1>6, <2>1, <2>6, <2>7, ServerStep
  <1>7. CASE /\ Head(g.todo).do = "retry"
             /\ \E o \in sendRetryReceipt(g.stanza) :
                   /\ retries' = o.retries
                   /\ goroutines' = Rest(g, o.steps \o Tail(g.todo)) (+) o.delayed
             /\ UNCHANGED <<phone, server>>
    <2>1. PICK o \in sendRetryReceipt(g.stanza) :
             /\ retries' = o.retries
             /\ goroutines' = Rest(g, o.steps \o Tail(g.todo)) (+) o.delayed
      BY <1>7
    <2>2. /\ o.retries \in [Messages -> Nat] /\ o.steps \in Seq(Quiet)
          /\ \/ o.delayed = EmptyBag
             \/ o.delayed = SetToBag({Goroutine(g.stanza, <<Do("delayed")>>)})
      BY <1>2, RetryFacts DEF IInv, Types
    <2> DEFINE steps == o.steps \o Tail(g.todo)
    <2>3. steps \in Seq(SendSteps) /\ (g.todo \in Seq(Quiet) => steps \in Seq(Quiet))
      <3>1. o.steps \in Seq(SendSteps)
        BY <2>2, StepFacts
      <3> QED BY <1>3, <2>2, <3>1
    <2>4. goroutines' = Rest(g, steps) (+) o.delayed
      BY <2>1
    <2> HIDE DEF steps
    <2>5. /\ IsABag(Rest(g, steps))
          /\ \A h \in BagToSet(Rest(g, steps)) :
                /\ h \in Routine /\ h.todo # <<>>
                /\ h \in BagToSet(goroutines) \/ (h.stanza = g.stanza /\ h.todo = steps)
      BY <2>3, RestFacts DEF IInv, Types
    <2>6. /\ IsABag(o.delayed)
          /\ \A h \in BagToSet(o.delayed) : h = Goroutine(g.stanza, <<Do("delayed")>>)
      BY <2>2, BagOfSet
    <2>7. /\ IsABag(goroutines')
          /\ BagToSet(goroutines') = BagToSet(Rest(g, steps)) \cup BagToSet(o.delayed)
      BY <2>4, <2>5, <2>6, BagPlus
    <2>8. /\ Goroutine(g.stanza, <<Do("delayed")>>) \in Routine
          /\ Goroutine(g.stanza, <<Do("delayed")>>).todo # <<>>
          /\ Goroutine(g.stanza, <<Do("delayed")>>).todo \in Seq(Quiet)
      <3>1. Do("delayed") \in Quiet /\ Do("delayed") \in SendSteps
        BY StepFacts
      <3>2. <<Do("delayed")>> \in Seq(Quiet) /\ <<Do("delayed")>> \in Seq(SendSteps)
            /\ <<Do("delayed")>> # <<>>
        BY <3>1
      <3> QED BY <1>2, <3>2, RoutineFacts
    <2>9. ASSUME NEW h \in BagToSet(goroutines)'
          PROVE  /\ h \in Routine /\ h.todo # <<>>
                 /\ \/ h \in BagToSet(goroutines) \/ h.todo \in Seq(Quiet)
                    \/ (h.stanza = g.stanza /\ Promised(g.stanza))
      <3>1. CASE h \in BagToSet(Rest(g, steps))
        BY <1>4, <2>3, <2>5, <3>1
      <3>2. CASE h \in BagToSet(o.delayed)
        BY <2>6, <2>8, <3>2
      <3> QED BY <2>7, <2>9, <3>1, <3>2
    <2>10. /\ ServerType' /\ phone' \in [Messages -> {"none", "waiting", "cancelled"}]
           /\ held' = held /\ UNCHANGED resent /\ receipted' = receipted
      BY <1>1, <1>7 DEF IInv, Types, ServerType, SendType, server
    <2> QED BY <1>6, <2>1, <2>2, <2>7, <2>9, <2>10
  <1>8. CASE goroutines' = Rest(g, Tail(g.todo)) /\ UNCHANGED retries
    <2>1. /\ IsABag(goroutines')
          /\ \A h \in BagToSet(goroutines)' :
                /\ h \in Routine /\ h.todo # <<>>
                /\ h \in BagToSet(goroutines) \/ (h.stanza = g.stanza /\ h.todo = Tail(g.todo))
      BY <1>3, <1>8, RestFacts DEF IInv, Types
    <2>2. \A h \in BagToSet(goroutines)' :
             /\ h \in Routine /\ h.todo # <<>>
             /\ \/ h \in BagToSet(goroutines) \/ h.todo \in Seq(Quiet)
                \/ (h.stanza = g.stanza /\ Promised(g.stanza))
      BY <1>3, <1>4, <2>1
    <2>3. retries' \in [Messages -> Nat]
      BY <1>8 DEF IInv, Types, SendType
    <2>4. CASE delayedRequestMessageFromPhone(g.stanza.msg) /\ UNCHANGED server
      <3>1. phone' \in [Messages -> {"none", "waiting", "cancelled"}]
        BY <2>4 DEF delayedRequestMessageFromPhone, IInv, Types, SendType
      <3>2. ServerType' /\ held' = held /\ UNCHANGED resent /\ receipted' = receipted
        BY <1>1, <2>4 DEF IInv, Types, ServerType, server
      <3> QED BY <1>6, <2>1, <2>2, <2>3, <3>1, <3>2
    <2>5. CASE Reaches(g.stanza, Head(g.todo)) /\ UNCHANGED phone
      <3>1. /\ ServerType' /\ held' \subseteq held /\ UNCHANGED resent
            /\ receipted' \subseteq receipted \cup {g.stanza}
            /\ Head(g.todo).do # "receipt" => receipted' = receipted
        BY <1>1, <1>2, <1>3, <2>5, ReachesFacts DEF IInv, Types
      <3>2. phone' \in [Messages -> {"none", "waiting", "cancelled"}]
        BY <2>5 DEF IInv, Types, SendType
      <3> QED BY <1>6, <2>1, <2>2, <2>3, <3>1, <3>2
    <2> QED BY <1>7, <2>4, <2>5 DEF GoroutineSends
  <1> QED BY <1>7, <1>8 DEF GoroutineSends

-----------------------------------------------------------------------------
(* The surroundings                                                        *)

\* The select of delayedRequestMessageFromPhone.
LEMMA RequestFromPhoneStep == ASSUME IInv, NEW m \in Messages, RequestFromPhone(m) PROVE IInv'
  <1>1. UNCHANGED <<config, held, asked, resent, receipted, dropped, stored, frame, todo,
                    goroutines, retries, history, network>>
    BY DEF RequestFromPhone
  <1>2. phone' \in [Messages -> {"none", "waiting", "cancelled"}] /\ phoned' \subseteq Messages
    BY DEF RequestFromPhone, IInv, Types, SendType, ServerType
  <1>3. ServerType' /\ SendType' /\ NetworkType' /\ UNCHANGED <<handled, twice, crashes>>
    BY <1>1, <1>2 DEF IInv, Types, ServerType, SendType, NetworkType, network, history
  <1>4. PromiseInv'
    BY <1>1, <1>3, PromiseFrame DEF IInv, Shared
  <1> QED BY <1>1, <1>3, <1>4, ServerStep

\* The sender's new ciphertext is one whose key nobody has used.
LEMMA SenderResendsStep ==
    ASSUME IInv, NEW m \in Messages, NEW count \in 1..RetryLimit - 1, SenderResends(m, count)
    PROVE  IInv'
  <1> DEFINE s == [msg |-> m, attempt |-> count]
  <1>1. /\ <<m, count>> \in asked /\ <<m, count>> \notin resent
        /\ resent' = resent \cup {<<m, count>>} /\ held' = held \cup {s}
        /\ UNCHANGED <<config, asked, phoned, receipted, dropped, stored, frame, sends, history, network>>
    BY DEF SenderResends
  <1>2. s \in Stanzas /\ s.msg = m /\ s.attempt = count /\ count # 0
    BY ReceiveAssumption DEF Stanzas
  <1> HIDE DEF s
  <1>3. UNCHANGED <<consumed, buffer, cleared, pc, cur, child, failed, handled, times, unclear,
                    overlapped, twice, todo, goroutines, crashes>>
    BY <1>1 DEF stored, frame, history, sends, network
  <1>4. Types'
    <2>1. ServerType'
      BY <1>1, <1>2 DEF IInv, Types, ServerType
    <2>2. SendType' /\ TodoType' /\ NetworkType'
      BY <1>1 DEF IInv, Types, SendType, TodoType, NetworkType, sends, network
    <2> QED BY <1>3, <2>1, <2>2 DEF IInv, Types, StoreType, FrameType, HistoryType
  <1>5. SerialInv' /\ CountInv' /\ \A h \in Handlers : At(h)' /\ Still(h)
    BY <1>1, <1>3, HandlersRest
  <1>6. Deliverable' \subseteq Deliverable \cup {s}
    BY <1>1, <1>3 DEF Deliverable
  <1>7. Offered(s)' /\ ~Offered(s) /\ \A t : Offered(t) => Offered(t)'
    <2>1. <<s.msg, s.attempt>> = <<m, count>>
      BY <1>2
    <2> QED BY <1>1, <1>2, <2>1 DEF Offered
  <1>8. CiphersOf(s) \cap (consumed \cup handled) = {}
    BY <1>2, <1>7 DEF IInv, Shared, StoreInv
  <1>9. StoreInv'
    <2>1. \A t \in Deliverable' : Offered(t)'
      BY <1>6, <1>7 DEF IInv, Shared, StoreInv
    <2>2. \A t \in Stanzas : CiphersOf(t) \cap (consumed' \cup handled') # {} => Offered(t)'
      BY <1>3, <1>7 DEF IInv, Shared, StoreInv
    <2>3. config'.buffer => \A t \in Deliverable' : CiphersOf(t) \cap consumed' \subseteq buffer'
      BY <1>1, <1>3, <1>6, <1>8 DEF IInv, Shared, StoreInv
    <2>4. \A c \in cleared' : Settled(c)'
      BY <1>3 DEF IInv, Shared, StoreInv, Settled
    <2> QED BY <1>1, <1>3, <2>1, <2>2, <2>3, <2>4 DEF IInv, Shared, StoreInv
  <1>10. PromiseInv'
    BY <1>1, <1>3, PromiseFrame DEF IInv, Shared
  <1>11. AcceptInv'
    <2>1. ASSUME NEW c, Recorded(c) PROVE Recorded(c)'
      BY <1>3, <2>1 DEF Recorded, This, Cipher
    <2> QED BY <1>1, <1>3, <1>6, <1>8, <2>1 DEF IInv, Shared, AcceptInv
  <1> QED BY <1>4, <1>5, <1>9, <1>10, <1>11 DEF IInv, Shared

\* A row is deleted only when its stanza cannot come again.
LEMMA DeleteOldStep == ASSUME IInv, DeleteOldBufferedHashes PROVE IInv'
  <1>1. PICK old \in SUBSET buffer :
           /\ \A c \in old : \A t \in Deliverable : c \notin CiphersOf(t)
           /\ buffer' = buffer \ old /\ cleared' = cleared \ old
    <2> DEFINE old == {c \in buffer : \A s \in (held \cup {cur[h] : h \in Handlers}) \ {NoStanza} :
                                         c \notin CiphersOf(s)}
    <2>1. buffer' = buffer \ old /\ cleared' = cleared \ old
      BY DEF DeleteOldBufferedHashes
    <2>2. old \in SUBSET buffer /\ \A c \in old : \A t \in Deliverable : c \notin CiphersOf(t)
      BY DEF Deliverable
    <2> QED BY <2>1, <2>2
  <1>2. UNCHANGED <<config, server, consumed, frame, sends, history, network>>
    BY DEF DeleteOldBufferedHashes
  <1>3. UNCHANGED <<held, receipted, resent, pc, cur, child, failed, handled, times, unclear,
                    overlapped, twice, todo, goroutines, crashes>>
    BY <1>2 DEF server, frame, history, sends, network
  <1>4. Types'
    <2>1. StoreType'
      BY <1>1, <1>2 DEF IInv, Types, StoreType
    <2>2. SendType' /\ TodoType' /\ NetworkType' /\ ServerType'
      BY <1>2 DEF IInv, Types, SendType, TodoType, NetworkType, ServerType, sends, network, server
    <2> QED BY <1>3, <2>1, <2>2 DEF IInv, Types, FrameType, HistoryType
  <1>5. ASSUME NEW h \in Handlers PROVE At(h)' /\ Still(h)
    <2>1. Still(h) /\ At(h)
      BY <1>3 DEF Still, IInv
    <2>2. pc[h] \in {"unpad", "dispatch", "clear"} => This(h) \notin old
      <3>1. pc[h] \in {"unpad", "dispatch", "clear"} =>
               cur[h] \in Stanzas /\ cur[h] # NoStanza /\ This(h) \in CiphersOf(cur[h])
        BY <2>1, ThisFacts DEF IInv, Types, At
      <3> QED BY <1>1, <3>1 DEF Deliverable
    <2>3. At(h)'
      BY <1>1, <1>2, <1>3, <2>1, <2>2, StillAt
    <2> QED BY <2>1, <2>3
  <1>6. SerialInv'
    BY <1>3 DEF IInv, Shared, SerialInv
  <1>7. StoreInv'
    <2>1. Deliverable' = Deliverable /\ \A t : Offered(t)' = Offered(t)
      BY <1>3 DEF Deliverable, Offered
    <2>2. config.buffer => \A t \in Deliverable : CiphersOf(t) \cap consumed \subseteq buffer'
      BY <1>1 DEF IInv, Shared, StoreInv
    <2>3. \A c \in cleared' : Settled(c)'
      BY <1>1, <1>3 DEF IInv, Shared, StoreInv, Settled
    <2> QED BY <1>1, <1>2, <1>3, <2>1, <2>2, <2>3 DEF IInv, Shared, StoreInv
  <1>8. PromiseInv'
    BY <1>2, <1>3, PromiseFrame DEF IInv, Shared
  <1>9. CountInv'
    BY <1>2, <1>3, CountFrame DEF IInv, Shared
  <1>10. AcceptInv'
    <2>1. Deliverable' = Deliverable
      BY <1>3 DEF Deliverable
    <2>2. ASSUME NEW t \in Deliverable, NEW c \in CiphersOf(t), Recorded(c) PROVE Recorded(c)'
      BY <1>1, <1>3, <2>2 DEF Recorded, This, Cipher
    <2> QED BY <1>2, <1>3, <2>1, <2>2 DEF IInv, Shared, AcceptInv
  <1> QED BY <1>4, <1>5, <1>6, <1>7, <1>8, <1>9, <1>10 DEF IInv, Shared

\* The connection ends, or comes back.
LEMMA ConnectionStep == ASSUME IInv, Drop \/ Reconnect PROVE IInv'
  <1>1. UNCHANGED <<config, server, stored, frame, todo, goroutines, retries, history, crashes>>
    BY DEF Drop, Reconnect, sends
  <1>2. phone' \in [Messages -> {"none", "waiting", "cancelled"}]
    BY DEF Drop, Reconnect, sends, IInv, Types, SendType
  <1>3. drops' \in 0..MaxDrops
    BY ReceiveAssumption DEF Drop, Reconnect, IInv, Types, NetworkType
  <1>4. up' \in BOOLEAN /\ delivered' \subseteq Stanzas
    BY DEF Drop, Reconnect, IInv, Types, NetworkType
  <1>5. NetworkType'
    BY <1>1, <1>3, <1>4 DEF IInv, Types, NetworkType
  <1>6. SendType' /\ ServerType' /\ UNCHANGED <<held, resent, receipted, handled, twice>>
    BY <1>1, <1>2 DEF IInv, Types, SendType, ServerType, server, history
  <1>7. PromiseInv'
    BY <1>1, <1>6, PromiseFrame DEF IInv, Shared
  <1> QED BY <1>1, <1>5, <1>6, <1>7, ServerStep

\* A crash takes the handlers and the goroutines with it, and leaves the stores.
LEMMA CrashStep == ASSUME IInv, Crash PROVE IInv'
  <1>1. /\ UNCHANGED <<config, server, stored, history, delivered, drops>>
        /\ up' = FALSE /\ goroutines' = EmptyBag /\ crashes' = crashes + 1
        /\ pc' = [h \in Handlers |-> "idle"] /\ cur' = [h \in Handlers |-> NoStanza]
        /\ child' = [h \in Handlers |-> 1] /\ failed' = [h \in Handlers |-> FALSE]
        /\ todo' = [h \in Handlers |-> <<>>]
        /\ retries' = Forgotten /\ phone' = [m \in Messages |-> "none"]
    BY DEF Crash
  <1>2. crashes' \in 0..MaxCrashes /\ crashes' > 0
    BY ReceiveAssumption DEF Crash, IInv, Types, NetworkType
  <1>3. NetworkType'
    <2>1. up' \in BOOLEAN
      BY <1>1
    <2> QED BY <1>1, <1>2, <2>1 DEF IInv, Types, NetworkType
  <1>4. FrameType'
    <2>1. "idle" \in Places /\ 1 \in Nat \ {0}
      BY DEF Places
    <2>2. failed' \in [Handlers -> BOOLEAN]
      BY <1>1
    <2> QED BY <1>1, <2>1, <2>2 DEF FrameType
  <1>5. SendType' /\ TodoType' /\ BagToSet(goroutines)' = {} /\ <<>> \in Seq(Quiet)
    <2>1. IsABag(EmptyBag) /\ BagToSet(EmptyBag) = {}
      BY BagOfSet
    <2>2. <<>> \in Seq(SendSteps) /\ <<>> \in Seq(Quiet)
      OBVIOUS
    <2> QED BY <1>1, <2>1, <2>2 DEF SendType, TodoType, Forgotten
  <1>6. UNCHANGED <<held, receipted, resent, consumed, buffer, cleared, handled, times, unclear,
                    overlapped, twice>>
    BY <1>1 DEF server, stored, history
  <1>7. Types'
    BY <1>1, <1>3, <1>4, <1>5, <1>6 DEF IInv, Types, ServerType, StoreType, HistoryType, server
  <1>8. ASSUME NEW h \in Handlers PROVE At(h)'
    <2>1. pc'[h] = "idle" /\ cur'[h] = NoStanza /\ child'[h] = 1 /\ todo'[h] = <<>>
      BY <1>1
    <2> QED BY <1>5, <2>1 DEF At, PlaceAt, StoreAt, PromiseAt, ProgressAt, CountAt
  <1>9. SerialInv'
    BY <1>1, <1>6 DEF IInv, Shared, SerialInv
  <1>10. Deliverable' \subseteq Deliverable
    BY <1>1, <1>6 DEF Deliverable
  <1>11. StoreInv'
    BY <1>1, <1>6, <1>10, StoreFrame DEF IInv, Shared
  <1>12. PromiseInv'
    BY <1>1, <1>5, <1>6, PromiseFrame DEF IInv, Shared
  <1>13. CountInv'
    BY <1>1, <1>6, CountFrame DEF IInv, Shared
  <1>14. AcceptInv'
    BY <1>2 DEF AcceptInv, Recorded
  <1> QED BY <1>7, <1>8, <1>9, <1>11, <1>12, <1>13, <1>14 DEF IInv, Shared

\* Every step of the client, the server and the sender preserves the invariants.
LEMMA NextStep == ASSUME IInv, [Next]_vars PROVE IInv'
  <1>1. CASE UNCHANGED vars
    <2>1. /\ UNCHANGED <<config, stored, frame, todo, goroutines, history, held, resent, crashes,
                         receipted, handled, twice>>
          /\ ServerType' /\ NetworkType' /\ SendType'
      BY <1>1 DEF IInv, Types, ServerType, NetworkType, SendType,
                  vars, server, stored, frame, sends, history, network
    <2>2. PromiseInv'
      BY <2>1, PromiseFrame DEF IInv, Shared
    <2> QED BY <2>1, <2>2, ServerStep
  <1>2. ASSUME NEW h \in Handlers, HandlerSteps(h) PROVE IInv'
    BY <1>2, handleEncryptedMessageStep, handlePlaintextMessageStep, UnavailableMessageStep,
       GetBufferedEventStep, DoDecryptionTxnStep, ErrOldCounterStep, FailureStep, UnpadStep,
       handleDecryptedMessageStep, ClearStep, NextChildStep, DispatchUndecryptableStep,
       HandlerSendsStep DEF HandlerSteps
  <1>3. CASE \E g \in BagToSet(goroutines) : GoroutineSends(g)
    BY <1>3, GoroutineSendsStep
  <1>4. CASE \/ \E m \in Messages : RequestFromPhone(m)
             \/ \E m \in Messages, count \in 1..RetryLimit - 1 : SenderResends(m, count)
             \/ DeleteOldBufferedHashes \/ Drop \/ Reconnect \/ Crash
    BY <1>4, RequestFromPhoneStep, SenderResendsStep, DeleteOldStep, ConnectionStep, CrashStep
  <1> QED BY <1>1, <1>2, <1>3, <1>4 DEF Next

-----------------------------------------------------------------------------
(* The theorems                                                            *)

\* The invariants hold when the first connection comes up.
LEMMA InitIInv == Init => IInv
  <1> SUFFICES ASSUME Init PROVE IInv
    OBVIOUS
  <1>1. PICK inbox \in Inboxes : held = {[msg |-> m, attempt |-> 0] : m \in inbox}
    BY DEF Init
  <1>2. inbox \subseteq Messages /\ 0 \in 0..RetryLimit - 1
    BY ReceiveAssumption
  <1>3. held \subseteq Stanzas /\ \A s \in held : s.attempt = 0
    BY <1>1, <1>2 DEF Stanzas
  <1>4. ServerType
    BY <1>3 DEF Init, ServerType
  <1>5. StoreType
    BY DEF Init, StoreType
  <1>6. HistoryType
    <2>1. overlapped \in BOOLEAN
      BY DEF Init
    <2> QED BY <2>1 DEF Init, HistoryType
  <1>7. FrameType
    <2>1. 1 \in Nat \ {0} /\ "idle" \in Places
      BY DEF Places
    <2>2. failed \in [Handlers -> BOOLEAN]
      BY DEF Init
    <2> QED BY <2>1, <2>2 DEF Init, FrameType
  <1>8. NetworkType
    <2>1. 0 \in 0..MaxCrashes /\ 0 \in 0..MaxDrops
      BY ReceiveAssumption
    <2>2. up \in BOOLEAN
      BY DEF Init
    <2> QED BY <2>1, <2>2 DEF Init, NetworkType
  <1>9. SendType /\ TodoType /\ BagToSet(goroutines) = {} /\ <<>> \in Seq(Quiet)
    <2>1. IsABag(EmptyBag) /\ BagToSet(EmptyBag) = {}
      BY BagOfSet
    <2>2. <<>> \in Seq(SendSteps) /\ <<>> \in Seq(Quiet)
      OBVIOUS
    <2> QED BY <2>1, <2>2 DEF Init, SendType, TodoType
  <1>10. ASSUME NEW h \in Handlers PROVE At(h)
    <2>1. pc[h] = "idle" /\ cur[h] = NoStanza /\ child[h] = 1 /\ todo[h] = <<>>
      BY DEF Init
    <2> QED BY <1>9, <2>1 DEF At, PlaceAt, StoreAt, PromiseAt, ProgressAt, CountAt
  <1>11. SerialInv /\ CountInv
    BY DEF Init, SerialInv, CountInv
  <1>12. StoreInv
    BY <1>3 DEF Init, StoreInv, Deliverable, Offered
  <1>13. PromiseInv /\ AcceptInv
    BY <1>9 DEF Init, PromiseInv, AcceptInv
  <1> QED BY <1>4, <1>5, <1>6, <1>7, <1>8, <1>9, <1>10, <1>11, <1>12, <1>13 DEF IInv, Shared, Types

\* The inductive invariant holds through deliveries, redeliveries, lost connections
\* and crashes, with any number of handlers at work at once.
THEOREM Invariance == Spec => []IInv
  <1>1. Init => IInv
    BY InitIInv
  <1>2. IInv /\ [Next]_vars => IInv'
    BY NextStep
  <1> QED BY <1>1, <1>2, PTL DEF Spec

\* Type correctness, for any handlers, messages, retry limit and configuration.
THEOREM TypeCorrect == Spec => []TypeOK
  <1>1. IInv => TypeOK
    <2> SUFFICES ASSUME IInv PROVE TypeOK
      OBVIOUS
    <2>1. SendSteps \subseteq Steps
      BY ReceiveAssumption DEF SendSteps, Steps
    <2>2. Seq(SendSteps) \subseteq Seq(Steps)
      BY <2>1
    <2>3. BagToSet(goroutines) \subseteq [stanza : Stanzas, todo : Seq(Steps)]
      BY <2>2 DEF IInv, Types, SendType, Routine
    <2>4. child \in [Handlers -> Nat] /\ todo \in [Handlers -> Seq(Steps)]
      BY <2>2 DEF IInv, Types, FrameType, TodoType
    <2> QED BY <2>3, <2>4
        DEF TypeOK, IInv, Types, ServerType, StoreType, HistoryType, FrameType, NetworkType, SendType
  <1> QED BY <1>1, Invariance, PTL

\* An acknowledgement means that the application has seen every child the client
\* can read: with the event buffer for encrypted messages, with SynchronousAck for
\* newsletter messages, whatever crashes, is delivered again or is handled beside
\* it, unless two handlers were at the stanza itself.
THEOREM ReceiptsArePromises == Spec => []ReceiptMeansHandled
  <1>1. IInv => ReceiptMeansHandled
    BY DEF IInv, Shared, PromiseInv, Promised, Settled, ReceiptMeansHandled
  <1> QED BY <1>1, Invariance, PTL

\* Without the buffer the handlers get an encrypted child at most once, as long as
\* the handler queue is serial.
THEOREM DispatchedAtMostOnce == Spec => []AtMostOnce
  <1>1. IInv => AtMostOnce
    BY DEF IInv, Shared, CountInv, AtMostOnce
  <1> QED BY <1>1, Invariance, PTL

\* Only the child a handler is at is dispatched: its row is not a cleared one, and
\* no other handler is about to clear it.
LEMMA AcceptedIsDone ==
    ASSUME IInv, [Next]_vars, NEW s \in Stanzas, s \notin twice, NEW c \in CiphersOf(s), c \in handled,
           config.buffer, s.msg \notin Plaintext, times'[c] # times[c]
    PROVE  crashes > 0 \/ c \in unclear
  <1>1. PICK h \in Handlers : handlePlaintextMessage(h) \/ handleDecryptedMessage(h)
    <2>1. ~UNCHANGED times
      OBVIOUS
    <2>2. Next
      BY <2>1 DEF vars, history
    <2>3. PICK h \in Handlers : HandlerSteps(h)
      BY <2>1, <2>2 DEF Next, GoroutineSends, RequestFromPhone, SenderResends,
         DeleteOldBufferedHashes, Drop, Reconnect, Crash, history
    <2> QED BY <2>1, <2>3 DEF HandlerSteps, handleEncryptedMessage, UnavailableMessage, GetBufferedEvent,
         DoDecryptionTxn, ErrOldCounter, ResolveLIDFails, DecryptionFails, Unpad,
         ClearBufferedEventPlaintext, NextChild, DispatchUndecryptable, HandlerSends, history
  <1>2. pc[h] \in {"plaintext", "dispatch"}
    BY <1>1 DEF handlePlaintextMessage, handleDecryptedMessage
  <1>3. /\ cur[h] \in Stanzas /\ cur[h] # NoStanza /\ This(h) \in CiphersOf(cur[h])
        /\ This(h) \in AllCiphers /\ This(h) = Cipher(cur[h], child[h])
    BY <1>2, ThisFacts DEF IInv, Types, At, This
  <1>4. c = This(h)
    <2>1. UNCHANGED times \/ times' = [times EXCEPT ![This(h)] = @ + 1]
      BY <1>1 DEF handlePlaintextMessage, handleDecryptedMessage, Dispatched, history
    <2>2. c \in AllCiphers /\ times \in [AllCiphers -> Nat]
      BY DEF AllCiphers, IInv, Types, HistoryType
    <2> QED BY <2>1, <2>2
  <1>5. cur[h] = s
    BY <1>3, <1>4, CipherFacts
  <1>6. pc[h] = "dispatch" /\ c \notin cleared
    BY <1>2, <1>4, <1>5 DEF IInv, At, PlaceAt, StoreAt
  <1>7. Recorded(c)
    <2>1. s \in Deliverable
      BY <1>3, <1>5 DEF Deliverable
    <2> QED BY <2>1 DEF IInv, Shared, AcceptInv
  <1>8. ASSUME NEW g \in Handlers, pc[g] = "clear", This(g) = c PROVE FALSE
    <2>1. cur[g] \in Stanzas
      BY <1>8, ThisFacts DEF IInv, Types, At
    <2>2. cur[g] = s
      BY <1>3, <1>4, <1>5, <1>8, <2>1, OwnCipher
    <2> QED BY <1>5, <1>6, <1>8, <2>2 DEF IInv, Shared, SerialInv
  <1> QED BY <1>6, <1>7, <1>8 DEF Recorded

\* With the buffer an event that the application accepted is dispatched again only
\* after a crash, a failed clearing or a redelivery to a second handler.
THEOREM AcceptedStaysDone == Spec => AcceptedOnce
  <1>1. IInv /\ [Next]_vars =>
          [\A s \in Stanzas \ twice : \A c \in CiphersOf(s) \cap handled :
              config.buffer /\ s.msg \notin Plaintext /\ times'[c] # times[c] =>
                  crashes > 0 \/ c \in unclear]_vars
    BY AcceptedIsDone
  <1> QED BY <1>1, Invariance, PTL DEF Spec, AcceptedOnce
=============================================================================
