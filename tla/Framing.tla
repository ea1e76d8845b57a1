------------------------------- MODULE Framing -------------------------------
(***************************************************************************)
(* FrameCodec (mcp_mesh/protocol/framing.py) over one connection: frames   *)
(* are written as bytes, the bytes come in pieces of any size, and         *)
(* read_frame() cuts them into frames again with two readexactly() calls.  *)
(*                                                                         *)
(* The connection and the sender's discipline are outside the code: pieces *)
(* end anywhere, also in a header; the connection may end or be reset at   *)
(* any byte; the sender may write something that is no frame.              *)
(*                                                                         *)
(* The header is HeaderSize digits to the base Base, the code's 4 and 256, *)
(* so that a small instance has lengths on both sides of every bound.      *)
(***************************************************************************)
EXTENDS Integers, Sequences, SequencesExt

CONSTANTS
    Base,            \* values of a byte: 256
    HeaderSize,      \* bytes of the length: 4
    Magic,           \* the magic byte, 0x53
    Types,           \* the bytes of MessageType
    MaxFrameSize,    \* MAX_FRAME_SIZE, 16 MiB
    Payloads,        \* the payloads that are sent
    MaxFrames        \* bound: frames sent, and things that are no frame

Byte == 0..(Base - 1)

\* n without its last k bytes, for each k.
Shifted(n) ==
    LET shifted[k \in 0..HeaderSize] == IF k = 0 THEN n ELSE shifted[k - 1] \div Base
    IN  shifted

ASSUME FramingAssumption ==
    /\ Base \in Nat \ {0, 1} /\ HeaderSize \in Nat \ {0}
    /\ Magic \in Byte /\ Types \subseteq Byte
    /\ MaxFrameSize \in Nat /\ Shifted(MaxFrameSize)[HeaderSize] = 0
    /\ \A p \in Payloads : p \in Seq(Byte)
    /\ MaxFrames \in Nat

VARIABLES
    sent,      \* the frames written while nothing else was
    writes,    \* how many writes there were
    sound,     \* nothing but frames was written
    flight,    \* bytes written and not delivered
    buffer,    \* bytes in the StreamReader
    link,      \* the connection: open, ended (EOF), reset
    wanted,    \* read_frame waits for the header (0) or for that many bytes of a body
    over,      \* read_frame raised ProtocolViolationError
    read       \* the frames it returned

vars == <<sent, writes, sound, flight, buffer, link, wanted, over, read>>

----------------------------------------------------------------------------

Frame == [type : Types, payload : Payloads]

\* n as HeaderSize bytes, the most significant first; and back.
ToBytes(n) == [i \in 1..HeaderSize |-> Shifted(n)[HeaderSize - i] % Base]
FromBytes(bytes) ==
    LET value[k \in 0..Len(bytes)] == IF k = 0 THEN 0 ELSE value[k - 1] * Base + bytes[k]
    IN  value[Len(bytes)]

Remainder(f) == <<Magic, f.type>> \o f.payload

\* A bug: the bound is put on the payload alone.
MutFits(f) == Len(f.payload) <= MaxFrameSize

\* encode_frame raises for a frame that is longer.
Fits(f) == Len(Remainder(f)) <= MaxFrameSize

EncodeFrame(f) == ToBytes(Len(Remainder(f))) \o Remainder(f)

Init ==
    /\ sent = <<>> /\ writes = 0 /\ sound = TRUE
    /\ flight = <<>> /\ buffer = <<>> /\ link = "open"
    /\ wanted = 0 /\ over = FALSE /\ read = <<>>

----------------------------------------------------------------------------
(* The sender and the connection                                           *)

Write(bytes) ==
    /\ link = "open"
    /\ writes < MaxFrames
    /\ writes' = writes + 1
    /\ flight' = flight \o bytes
    /\ UNCHANGED <<buffer, link, wanted, over, read>>

\* encode_frame, and one write of what it returns.
WriteFrame(f) ==
    /\ Fits(f)
    /\ Write(EncodeFrame(f))
    /\ sent' = IF sound THEN Append(sent, f) ELSE sent
    /\ UNCHANGED sound

\* Bytes that read_frame must refuse: a length out of bounds, a wrong magic
\* byte, a type that is none.
NoFrames ==
    LET Headers == {h \in [1..HeaderSize -> Byte] : FromBytes(h) \notin 2..MaxFrameSize}
        Bodies == {<<m, t>> : m \in Byte, t \in Byte} \ {<<Magic, t>> : t \in Types}
    IN  Headers \cup {ToBytes(2) \o b : b \in Bodies}

WriteNoFrame ==
    /\ \E bytes \in NoFrames : Write(bytes)
    /\ sound' = FALSE
    /\ UNCHANGED sent

\* A piece of the stream arrives.
Arrive ==
    /\ link = "open"
    /\ \E k \in 1..Len(flight) :
          /\ buffer' = buffer \o SubSeq(flight, 1, k)
          /\ flight' = SubSeq(flight, k + 1, Len(flight))
    /\ UNCHANGED <<sent, writes, sound, link, wanted, over, read>>

\* The connection ends; what did not arrive is lost.
Break ==
    /\ link = "open"
    /\ link' \in {"ended", "reset"}
    /\ flight' = <<>>
    /\ UNCHANGED <<sent, writes, sound, buffer, wanted, over, read>>

----------------------------------------------------------------------------
(* read_frame(), called again as soon as it returned                       *)

\* readexactly(n) returns when the buffer holds n bytes; after a reset it
\* raises, whatever the buffer holds.
CanRead(n) == ~over /\ link # "reset" /\ Len(buffer) >= n

Take(n) == buffer' = SubSeq(buffer, n + 1, Len(buffer))

\* A bug: lengths at the upper bound are refused.
MutLengthInBounds(n) == 2 <= n /\ n < MaxFrameSize

\* A bug: a length has no upper bound.
MutNoUpperBound(n) == 2 <= n

LengthInBounds(n) == 2 <= n /\ n <= MaxFrameSize

ReadHeader ==
    LET n == FromBytes(SubSeq(buffer, 1, HeaderSize)) IN
    /\ wanted = 0
    /\ CanRead(HeaderSize)
    /\ Take(HeaderSize)
    /\ IF LengthInBounds(n)
       THEN wanted' = n /\ UNCHANGED over
       ELSE over' = TRUE /\ UNCHANGED wanted
    /\ UNCHANGED <<sent, writes, sound, flight, link, read>>

\* A bug: the length is taken for the length of the payload.
MutReadBody ==
    LET body == SubSeq(buffer, 1, wanted + 2) IN
    /\ wanted # 0
    /\ CanRead(wanted + 2)
    /\ Take(wanted + 2)
    /\ IF body[1] = Magic /\ body[2] \in Types
       THEN /\ read' = Append(read, [type |-> body[2], payload |-> SubSeq(body, 3, Len(body))])
            /\ wanted' = 0
            /\ UNCHANGED over
       ELSE over' = TRUE /\ UNCHANGED <<read, wanted>>
    /\ UNCHANGED <<sent, writes, sound, flight, link>>

ReadBody ==
    LET body == SubSeq(buffer, 1, wanted) IN
    /\ wanted # 0
    /\ CanRead(wanted)
    /\ Take(wanted)
    /\ IF body[1] = Magic /\ body[2] \in Types
       THEN /\ read' = Append(read, [type |-> body[2], payload |-> SubSeq(body, 3, Len(body))])
            /\ wanted' = 0
            /\ UNCHANGED over
       ELSE over' = TRUE /\ UNCHANGED <<read, wanted>>
    /\ UNCHANGED <<sent, writes, sound, flight, link>>

\* The connection is gone and what readexactly() waits for will not come.
Incomplete ==
    /\ ~over
    /\ \/ link = "reset"
       \/ link = "ended" /\ Len(buffer) < (IF wanted = 0 THEN HeaderSize ELSE wanted)
    /\ over' = TRUE
    /\ buffer' = IF link = "ended" THEN <<>> ELSE buffer
    /\ UNCHANGED <<sent, writes, sound, flight, link, wanted, read>>

ReadFrame == ReadHeader \/ ReadBody \/ Incomplete

Next == (\E f \in Frame : WriteFrame(f)) \/ WriteNoFrame \/ Arrive \/ Break \/ ReadFrame

\* The reader is called as long as it can read, and the network delivers.
Fairness == WF_vars(ReadFrame) /\ WF_vars(Arrive)

Spec == Init /\ [][Next]_vars /\ Fairness

----------------------------------------------------------------------------
(* Properties                                                              *)

\* Type invariant.
TypeOK ==
    /\ sent \in Seq(Frame) /\ writes \in 0..MaxFrames /\ sound \in BOOLEAN
    /\ flight \in Seq(Byte) /\ buffer \in Seq(Byte)
    /\ link \in {"open", "ended", "reset"}
    /\ wanted \in 0..MaxFrameSize /\ wanted # 1
    /\ over \in BOOLEAN
    /\ read \in Seq(Frame)

\* Where the reader is: the bytes it has not consumed, wherever they are and
\* however they were cut, are those of the frames it has not returned, less the
\* header it has read and what the connection lost.  So no frame boundary is
\* ever missed, though payloads may hold magic bytes and headers.
OnBoundary ==
    sound /\ ~over =>
        LET rest == FlattenSeq([i \in 1..(Len(sent) - Len(read)) |-> EncodeFrame(sent[Len(read) + i])])
            unread == (IF wanted = 0 THEN <<>> ELSE ToBytes(wanted)) \o buffer \o flight
        IN  IF link = "open" THEN unread = rest ELSE IsPrefix(unread, rest)

\* The stream is given up only for a reason: whatever encode_frame lets pass,
\* read_frame takes.
OnlyBadFramesRefused == over => ~sound \/ link # "open"

\* The codec implements a stream of frames: those sent are read, whole, once
\* and in order, up to where the connection broke or the sender did.
Stream == INSTANCE FrameStream WITH got <- read, broken <- (link # "open")

ImplementsFrameStream == Stream!Spec

=============================================================================
