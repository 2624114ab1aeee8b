------------------------------- MODULE Sockets -------------------------------
(***************************************************************************)
(* One connection's FrameSocket and NoiseSocket (socket/) after the        *)
(* handshake: frames cut out of websocket messages by the read pump and    *)
(* handed to the consumer over an unbuffered channel, and frames sealed    *)
(* under writeLock but written by a goroutine of their own.                *)
(*                                                                         *)
(* A byte of the server's stream is its frame and its place in the frame;  *)
(* a sealed frame of the client is its place among the sealed ones.        *)
(***************************************************************************)
EXTENDS Naturals, Sequences

CONSTANTS
    Senders,           \* goroutines that call NoiseSocket.SendFrame
    Nil,
    FrameLengthSize,   \* bytes of a frame's length
    ServerFrames,      \* bound: frames the server sends
    MaxSize,           \* bound: bytes in one of them
    MaxChunk,          \* bound: bytes in one websocket message
    CounterRange,      \* the values of writeCounter, 2^32
    MaxFrames          \* bound: frames the client seals

ASSUME SocketsAssumption ==
    /\ Nil \notin Senders \cup Nat \cup Seq(Nat \X Nat)
    /\ FrameLengthSize \in Nat \ {0} /\ MaxSize \in Nat /\ MaxChunk \in Nat \ {0}
    /\ ServerFrames \in Nat
    /\ CounterRange \in Nat \ {0} /\ MaxFrames \in 0..CounterRange

VARIABLES
    sizes,        \* the sizes of the server's frames
    pos,          \* bytes of its stream that the read pump has got
    msg,          \* the rest of the websocket message in processData
    partial,      \* partialHeader
    incoming,     \* the bytes of the unfinished frame, Nil without one
    want,         \* incomingLength
    frame,        \* the frame in frameComplete
    pump,         \* readPump
    consumer,     \* consumeFrames
    handed,       \* the frames receiveEncryptedFrame has got; readCounter is their number
    open,         \* the websocket is open
    closing,      \* a goroutine is about to call Close
    destroyed,    \* NoiseSocket.Stop has run
    lock,         \* the holder of writeLock
    writeCounter,
    ivs,          \* the counters of the sealed frames
    sending,      \* the frame a sender waits for, Nil without one
    unwritten,    \* frames whose goroutine has not run
    failed,       \* frames that SendFrame refused or could not write
    abandoned,    \* history: frames whose context ended before they were written
    wire          \* the frames on the wire

reading == <<msg, partial, incoming, want, frame, pump, consumer, handed, pos, sizes>>
writing == <<lock, writeCounter, ivs, sending, unwritten, failed, abandoned, wire>>
life == <<open, closing, destroyed>>
socketsVars == <<reading, writing, life>>

-----------------------------------------------------------------------------
(* The server's stream                                                     *)

Frame(i) == [k \in 1..(FrameLengthSize + sizes[i]) |-> <<i, k>>]
Payload(i) == SubSeq(Frame(i), FrameLengthSize + 1, FrameLengthSize + sizes[i])

\* The bytes in front of frame i + 1.
Upto[i \in 0..ServerFrames] == IF i = 0 THEN 0 ELSE Upto[i - 1] + FrameLengthSize + sizes[i]
FrameAt(n) == CHOOSE i \in 1..ServerFrames : Upto[i - 1] < n /\ n <= Upto[i]
ByteAt(n) == <<FrameAt(n), n - Upto[FrameAt(n) - 1]>>
Bytes(from, to) == [k \in 1..(to - from) |-> ByteAt(from + k)]

\* The number the first bytes of a message stand for: a length where a frame
\* begins, something larger than any frame elsewhere.
LengthIn(m) ==
    IF \A k \in 1..FrameLengthSize : m[k] = <<m[1][1], k>> THEN sizes[m[1][1]] ELSE MaxSize + 1

SocketsInit ==
    /\ sizes \in [1..ServerFrames -> 0..MaxSize] /\ pos = 0
    /\ msg = <<>> /\ partial = <<>> /\ incoming = Nil /\ want = 0 /\ frame = Nil
    /\ pump = "reading" /\ consumer = "waiting" /\ handed = <<>>
    /\ open = TRUE /\ closing = FALSE /\ destroyed = FALSE
    /\ lock = Nil /\ writeCounter = 0 /\ ivs = <<>> /\ sending = [s \in Senders |-> Nil]
    /\ unwritten = {} /\ failed = {} /\ abandoned = {} /\ wire = <<>>

SocketsTypeOK ==
    /\ pump \in {"reading", "processing", "handing", "ended"}
    /\ consumer \in {"waiting", "ended"}
    /\ Len(partial) < FrameLengthSize
    /\ want \in 0..(MaxSize + 1)
    /\ incoming # Nil => Len(incoming) < want
    /\ (frame # Nil) = (pump = "handing")
    /\ pos \in 0..Upto[ServerFrames]
    /\ lock \in Senders \cup {Nil}
    /\ \A s \in Senders : sending[s] \in IF lock = s THEN DOMAIN ivs ELSE {Nil}
    /\ writeCounter \in 0..(CounterRange - 1)
    /\ unwritten \cup failed \cup abandoned \subseteq DOMAIN ivs

-----------------------------------------------------------------------------
(* Reading                                                                 *)

ReadMessage ==
    /\ pump = "reading" /\ open
    /\ \E to \in pos..(pos + MaxChunk) :
          /\ to <= Upto[ServerFrames]
          /\ msg' = Bytes(pos, to) /\ pos' = to
    /\ pump' = "processing"
    /\ UNCHANGED <<sizes, partial, incoming, want, frame, consumer, handed, writing, life>>

\* The connection is closed, by either side: the pump ends and closes it.
ReadFails ==
    /\ pump = "reading"
    /\ pump' = "ended" /\ closing' = TRUE
    /\ UNCHANGED <<msg, partial, incoming, want, frame, consumer, handed, pos, sizes, writing, open, destroyed>>

\* frameComplete: nothing of the frame stays, and the pump blocks on the channel.
frameComplete(data, rest) ==
    /\ frame' = data /\ pump' = "handing"
    /\ incoming' = Nil /\ partial' = <<>> /\ want' = 0
    /\ msg' = rest

\* A frame begins in m: its length, then as much of it as there is.
NewFrame(m) ==
    LET rest == SubSeq(m, FrameLengthSize + 1, Len(m))
        length == LengthIn(m) IN
    \/ /\ Len(m) < FrameLengthSize
       /\ partial' = m /\ msg' = <<>>
       /\ UNCHANGED <<incoming, want, frame, pump>>
    \/ /\ Len(m) >= FrameLengthSize /\ Len(rest) >= length
       /\ frameComplete(SubSeq(rest, 1, length), SubSeq(rest, length + 1, Len(rest)))
    \/ /\ Len(m) >= FrameLengthSize /\ Len(rest) < length
       /\ incoming' = rest /\ want' = length
       /\ partial' = <<>> /\ msg' = <<>>
       /\ UNCHANGED <<frame, pump>>

\* Mutant: a frame that ends with its message is not complete yet.
RestOfFrameLate(m) ==
    LET lack == want - Len(incoming) IN
    \/ /\ Len(m) > lack
       /\ frameComplete(incoming \o SubSeq(m, 1, lack), SubSeq(m, lack + 1, Len(m)))
    \/ /\ Len(m) <= lack
       /\ incoming' = incoming \o m /\ msg' = <<>> /\ partial' = <<>>
       /\ UNCHANGED <<want, frame, pump>>

\* The unfinished frame goes on in m.
RestOfFrame(m) ==
    LET lack == want - Len(incoming) IN
    \/ /\ Len(m) >= lack
       /\ frameComplete(incoming \o SubSeq(m, 1, lack), SubSeq(m, lack + 1, Len(m)))
    \/ /\ Len(m) < lack
       /\ incoming' = incoming \o m /\ msg' = <<>> /\ partial' = <<>>
       /\ UNCHANGED <<want, frame, pump>>

\* Mutant: the bytes of a split length are lost.
ProcessDataForgets ==
    /\ pump = "processing"
    /\ \/ msg = <<>> /\ pump' = "reading" /\ UNCHANGED <<msg, partial, incoming, want, frame>>
       \/ msg # <<>> /\ incoming = Nil /\ NewFrame(msg)
       \/ msg # <<>> /\ incoming # Nil /\ RestOfFrame(msg)
    /\ UNCHANGED <<consumer, handed, pos, sizes, writing, life>>

\* One round of the loop in processData.
processData ==
    /\ pump = "processing"
    /\ \/ msg = <<>> /\ pump' = "reading" /\ UNCHANGED <<msg, partial, incoming, want, frame>>
       \/ msg # <<>> /\ incoming = Nil /\ NewFrame(partial \o msg)
       \/ msg # <<>> /\ incoming # Nil /\ RestOfFrame(partial \o msg)
    /\ UNCHANGED <<consumer, handed, pos, sizes, writing, life>>

\* The consumer takes the frame and opens it with readCounter.
receiveEncryptedFrame ==
    /\ pump = "handing" /\ consumer = "waiting"
    /\ handed' = Append(handed, frame)
    /\ frame' = Nil /\ pump' = "processing"
    /\ UNCHANGED <<msg, partial, incoming, want, consumer, pos, sizes, writing, life>>

\* Mutant: only stopConsumer ends the consumer.
ConsumerIgnoresClose ==
    /\ consumer = "waiting" /\ destroyed
    /\ consumer' = "ended"
    /\ UNCHANGED <<msg, partial, incoming, want, frame, pump, handed, pos, sizes, writing, life>>

\* ctx.Done or stopConsumer; the select may as well take a frame first.
ConsumerEnds ==
    /\ consumer = "waiting" /\ (~open \/ destroyed)
    /\ consumer' = "ended"
    /\ UNCHANGED <<msg, partial, incoming, want, frame, pump, handed, pos, sizes, writing, life>>

-----------------------------------------------------------------------------
(* Closing                                                                 *)

CloseFrameSocket ==
    /\ closing
    /\ open' = FALSE /\ closing' = FALSE
    /\ UNCHANGED <<destroyed, reading, writing>>

\* Stop closes the websocket or leaves it to the pump, which has ended already.
StopNoiseSocket ==
    /\ ~destroyed
    /\ destroyed' = TRUE
    /\ open' \in {open, FALSE}
    /\ UNCHANGED <<closing, reading, writing>>

-----------------------------------------------------------------------------
(* Writing                                                                 *)

\* Mutant: the counter moves on only when a frame has been written.
SendFrameUncounted(s) ==
    /\ lock = Nil /\ Len(ivs) < MaxFrames
    /\ lock' = s
    /\ ivs' = Append(ivs, Len(wire))
    /\ sending' = [sending EXCEPT ![s] = Len(ivs')]
    /\ unwritten' = unwritten \cup {Len(ivs')}
    /\ UNCHANGED <<writeCounter, failed, abandoned, wire, reading, life>>

\* NoiseSocket.SendFrame up to its select.  A context that has ended already
\* returns here and changes nothing.
SendFrame(s) ==
    /\ lock = Nil /\ Len(ivs) < MaxFrames
    /\ lock' = s
    /\ ivs' = Append(ivs, writeCounter)
    /\ writeCounter' = (writeCounter + 1) % CounterRange
    /\ sending' = [sending EXCEPT ![s] = Len(ivs')]
    /\ unwritten' = unwritten \cup {Len(ivs')}
    /\ UNCHANGED <<failed, abandoned, wire, reading, life>>

\* FrameSocket.SendFrame in the goroutine: the frame is written, or it is too
\* large or the websocket is gone.
WriteFrame(n) ==
    /\ n \in unwritten
    /\ unwritten' = unwritten \ {n}
    /\ \/ open /\ wire' = Append(wire, n) /\ UNCHANGED failed
       \/ failed' = failed \cup {n} /\ UNCHANGED wire
    /\ UNCHANGED <<lock, writeCounter, ivs, sending, abandoned, reading, life>>

\* Mutant: the lock is given back without waiting for the goroutine.
SendReturnsEarly(s) ==
    /\ lock = s
    /\ lock' = Nil /\ sending' = [sending EXCEPT ![s] = Nil]
    /\ UNCHANGED <<writeCounter, ivs, unwritten, failed, abandoned, wire, reading, life>>

SendReturns(s) ==
    /\ lock = s /\ sending[s] \notin unwritten
    /\ lock' = Nil /\ sending' = [sending EXCEPT ![s] = Nil]
    /\ UNCHANGED <<writeCounter, ivs, unwritten, failed, abandoned, wire, reading, life>>

\* The sender's context ends first; its goroutine goes on.
SendAbandoned(s) ==
    /\ lock = s
    /\ abandoned' = abandoned \cup ({sending[s]} \cap unwritten)
    /\ lock' = Nil /\ sending' = [sending EXCEPT ![s] = Nil]
    /\ UNCHANGED <<writeCounter, ivs, unwritten, failed, wire, reading, life>>

-----------------------------------------------------------------------------
SocketsNext ==
    \/ ReadMessage \/ ReadFails \/ processData \/ receiveEncryptedFrame \/ ConsumerEnds
    \/ CloseFrameSocket \/ StopNoiseSocket
    \/ \E s \in Senders : SendFrame(s) \/ SendReturns(s) \/ SendAbandoned(s)
    \/ \E n \in 1..MaxFrames : WriteFrame(n)

SocketsSpec == SocketsInit /\ [][SocketsNext]_socketsVars

\* Goroutines run; a read of a closed websocket fails.
FairSocketsSpec ==
    /\ SocketsSpec
    /\ WF_socketsVars(processData) /\ WF_socketsVars(receiveEncryptedFrame) /\ WF_socketsVars(ConsumerEnds)
    /\ WF_socketsVars(CloseFrameSocket) /\ WF_socketsVars(ReadFails /\ ~open)

-----------------------------------------------------------------------------
(* Properties                                                              *)

\* However the stream is cut into websocket messages, also inside a length, the
\* consumer gets the server's frames, whole, each once and in order.
FramesAreExact == \A i \in 1..Len(handed) : i <= ServerFrames /\ handed[i] = Payload(i)

\* No two frames on the wire are sealed with the same counter.
CountersAreFresh ==
    \A i, j \in 1..Len(wire) : ivs[wire[i]] = ivs[wire[j]] => i = j

\* The server opens the frames with a counter of its own.  The first frame that
\* is not the one it expects comes after a frame whose sender gave up before it
\* was written, or whose writing failed although its counter was used up.
InStepWithServer ==
    \A i \in 1..Len(wire) :
        (\A j \in 1..(i - 1) : ivs[wire[j]] = j - 1) /\ ivs[wire[i]] # i - 1
            => \E n \in abandoned \cup failed : ivs[n] = i - 1

\* A frame that has arrived reaches the consumer unless the connection ends.
FramesAreDelivered ==
    \A i \in 1..ServerFrames :
        (Upto[i] <= pos) ~> (Len(handed) >= i \/ consumer = "ended")

\* After a close the read pump ends, unless it holds a frame that the consumer has
\* left to it: then it blocks on the channel for ever.
PumpEnds ==
    ~open ~> (consumer = "ended" /\ pump \in {"ended", "handing"})
=============================================================================
