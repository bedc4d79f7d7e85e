----------------------------- MODULE FrameCodec -----------------------------
(***************************************************************************)
(* src/src/transport/frame-codec.ts and its use in spotware-transport.ts:    *)
(* messages are framed by a big-endian length, the stream arrives in chunks  *)
(* cut anywhere, and FrameDecoder.push() puts the frames together again.     *)
(* Every connection has a decoder of its own; a length past the limit makes  *)
(* push() throw and the transport destroy the connection.                    *)
(***************************************************************************)
EXTENDS Integers, Sequences, SequencesExt

CONSTANTS
    Base,          \* values of a byte (256)
    PrefixBytes,   \* LENGTH_PREFIX_BYTES (4)
    MaxFrame,      \* MAX_FRAME_BYTES (16 MiB)
    MaxMessages,   \* bound: messages the peer writes on a connection
    MaxConnections \* bound

\* Base ^ k.
Power[k \in Nat] == IF k = 0 THEN 1 ELSE Base * Power[k - 1]

ASSUME BytesAssumption == Base \in Nat /\ Base >= 2 /\ PrefixBytes \in Nat \ {0}
ASSUME LimitAssumption == MaxFrame \in Nat /\ MaxFrame + 1 < Power[PrefixBytes]
ASSUME BoundsAssumption == MaxConnections \in Nat \ {0}

Byte == 0..(Base - 1)
Payloads == UNION {[1..n -> Byte] : n \in 0..MaxFrame}

VARIABLES
    connections,  \* connections made so far
    written,      \* bytes the peer wrote on this one
    arrived,      \* how many of them have arrived
    buffer,       \* FrameDecoder.buffer
    emitted,      \* payloads emitted as 'message' on this connection
    destroyed,    \* the transport has destroyed the socket
    sent,         \* history: payloads the peer wrote on this connection
    desynced      \* history: the peer wrote a length past the limit after them

vars == <<connections, written, arrived, buffer, emitted, destroyed, sent, desynced>>

-----------------------------------------------------------------------------
\* writeUInt32BE
LengthBytes(n) == [i \in 1..PrefixBytes |-> (n \div Power[PrefixBytes - i]) % Base]

EncodeFrame(payload) == LengthBytes(Len(payload)) \o payload

\* readUInt32BE(0)
ReadLength(b) ==
    LET value[i \in 0..PrefixBytes] ==
            IF i = 0 THEN 0 ELSE value[i - 1] * Base + b[i]
    IN  value[PrefixBytes]

FrameEnd(b) == PrefixBytes + ReadLength(b)

\* Mutant of Incomplete: a frame that ends where the buffer ends is held back.
MutIncomplete(b) == Len(b) <= FrameEnd(b)

Incomplete(b) == Len(b) < FrameEnd(b)

\* Mutant of PastLimit: the largest frame allowed is already too large.
MutPastLimitTooSoon(b) == ReadLength(b) >= MaxFrame

PastLimit(b) == ReadLength(b) > MaxFrame

\* The loop of push(): the frames at the front of b, and what stays in the buffer.
Decode[b \in Seq(Byte)] ==
    IF Len(b) < PrefixBytes THEN [frames |-> <<>>, rest |-> b, throws |-> FALSE]
    ELSE IF PastLimit(b) THEN [frames |-> <<>>, rest |-> b, throws |-> TRUE]
    ELSE IF Incomplete(b) THEN [frames |-> <<>>, rest |-> b, throws |-> FALSE]
    ELSE LET later == Decode[SubSeq(b, FrameEnd(b) + 1, Len(b))]
         IN  [later EXCEPT !.frames = <<SubSeq(b, PrefixBytes + 1, FrameEnd(b))>> \o @]

-----------------------------------------------------------------------------
TypeOK ==
    /\ connections \in 1..MaxConnections
    /\ written \in Seq(Byte) /\ buffer \in Seq(Byte) /\ arrived \in 0..Len(written)
    /\ emitted \in Seq(Payloads) /\ sent \in Seq(Payloads)
    /\ destroyed \in BOOLEAN /\ desynced \in BOOLEAN

Init ==
    /\ connections = 1
    /\ written = <<>> /\ arrived = 0 /\ buffer = <<>> /\ emitted = <<>> /\ sent = <<>>
    /\ destroyed = FALSE /\ desynced = FALSE

PeerWrites(payload) ==
    /\ Len(sent) < MaxMessages /\ ~desynced
    /\ sent' = Append(sent, payload)
    /\ written' = written \o EncodeFrame(payload)
    /\ UNCHANGED <<connections, arrived, buffer, emitted, destroyed, desynced>>

\* A length past the limit, and as many bytes.
PeerDesyncs ==
    /\ ~desynced
    /\ desynced' = TRUE
    /\ written' = written \o LengthBytes(MaxFrame + 1) \o [i \in 1..(MaxFrame + 1) |-> 0]
    /\ UNCHANGED <<connections, arrived, buffer, emitted, destroyed, sent>>

\* handleData: the frames of a push() that throws are lost with the connection.
Push(n) ==
    /\ ~destroyed
    /\ arrived' = arrived + n
    /\ LET d == Decode[buffer \o SubSeq(written, arrived + 1, arrived + n)] IN
        /\ buffer' = d.rest
        /\ destroyed' = d.throws
        /\ emitted' = IF d.throws THEN emitted ELSE emitted \o d.frames
    /\ UNCHANGED <<connections, written, sent, desynced>>

\* Mutant of NewConnection: one decoder for all connections.
MutNewConnection ==
    /\ connections < MaxConnections
    /\ connections' = connections + 1
    /\ written' = <<>> /\ arrived' = 0 /\ emitted' = <<>> /\ sent' = <<>>
    /\ destroyed' = FALSE /\ desynced' = FALSE
    /\ UNCHANGED buffer

\* attemptConnection: the old connection is gone, at any point of a frame.
NewConnection ==
    /\ connections < MaxConnections
    /\ connections' = connections + 1
    /\ written' = <<>> /\ arrived' = 0
    /\ buffer' = <<>> /\ emitted' = <<>> /\ sent' = <<>>
    /\ destroyed' = FALSE /\ desynced' = FALSE

Next ==
    \/ \E payload \in Payloads : PeerWrites(payload)
    \/ PeerDesyncs
    \/ \E n \in 1..(Len(written) - arrived) : Push(n)
    \/ NewConnection

Spec == Init /\ [][Next]_vars

-----------------------------------------------------------------------------
\* Bytes on the wire up to the end of the k-th message.
EndOf(messages, k) ==
    LET end[i \in 0..Len(messages)] ==
            IF i = 0 THEN 0 ELSE end[i - 1] + PrefixBytes + Len(messages[i])
    IN  end[k]

(* However the stream is cut and however often connections are replaced in    *)
(* the middle of a frame, what is emitted is what the peer wrote on this      *)
(* connection, in order, whole, and nothing else.                            *)
OnlyWhatWasSent == IsPrefix(emitted, sent)

(* While the connection lives, a message is emitted by the push() its last    *)
(* byte arrives with: none waits for bytes of the next one.                  *)
NothingHeldBack ==
    ~destroyed => \A k \in 1..Len(sent) : EndOf(sent, k) <= arrived => k <= Len(emitted)

(* The connection is destroyed by a length past the limit once that length    *)
(* has arrived, and by nothing a well-behaved peer sends.                    *)
DesyncEndsTheConnection ==
    destroyed <=> desynced /\ arrived >= EndOf(sent, Len(sent)) + PrefixBytes

(* Where the connection stands: the parts that make the three properties above  *)
(* inductive.                                                                *)

\* The bytes written are the frames of what was sent, then perhaps a length past the limit.
FramesWritten ==
    /\ \A k \in 1..Len(sent) :
        SubSeq(written, EndOf(sent, k - 1) + 1, EndOf(sent, k)) = EncodeFrame(sent[k])
    /\ Len(written) = EndOf(sent, Len(sent))
                        + (IF desynced THEN PrefixBytes + MaxFrame + 1 ELSE 0)
    /\ desynced =>
        SubSeq(written, EndOf(sent, Len(sent)) + 1, EndOf(sent, Len(sent)) + PrefixBytes)
            = LengthBytes(MaxFrame + 1)

\* The length past the limit has arrived.
LimitPassed(a) == desynced /\ a >= EndOf(sent, Len(sent)) + PrefixBytes

\* After m messages the bytes that have arrived hold no further frame and no further error.
AllTaken(m, a) ==
    /\ EndOf(sent, m) <= a
    /\ m < Len(sent) => a < EndOf(sent, m + 1)

\* The buffer holds what arrived after the messages that were emitted: less than the next.
BufferIsRest ==
    /\ buffer = SubSeq(written, EndOf(sent, Len(emitted)) + 1, arrived)
    /\ AllTaken(Len(emitted), arrived)
    /\ ~LimitPassed(arrived)

\* What was emitted is what was sent, message by message.
EmittedInOrder ==
    Len(emitted) <= Len(sent) /\ \A k \in 1..Len(emitted) : emitted[k] = sent[k]

IInv ==
    /\ TypeOK /\ FramesWritten /\ EmittedInOrder
    /\ ~destroyed => BufferIsRest
    /\ destroyed => LimitPassed(arrived)
=============================================================================
