---------------------------- MODULE ChannelProofs ----------------------------
(***************************************************************************)
(* What Channel guarantees for any number of calls, chunks, frames and     *)
(* cancellations.  Fairness plays no part.                                 *)
(*                                                                         *)
(* None of the invariants is inductive.  That a call can still be ended    *)
(* needs what its queue may hold; that its answer is its own and in order  *)
(* needs the order of the frames still on the wire, and that a call which  *)
(* was not made yet left no trace anywhere.  IInv collects these facts.    *)
(***************************************************************************)
EXTENDS Channel, SequenceTheorems, TLAPS

ChunkFrame(c, k) == [type |-> "chunk", id |-> c, index |-> k]

\* A call that was not made yet is known to nobody.
Fresh ==
    \A c \in Calls : pc[c] = "idle" =>
        /\ c \notin pending /\ c \notin queues
        /\ fut[c] = "none" /\ q[c] = <<>> /\ got[c] = 0
        /\ answered[c] = 0 /\ outcome[c] = "none"
        /\ \A i \in DOMAIN wire, k \in 1..LastChunk : wire[i] # ChunkFrame(c, k)

\* A stream that is off the table has the end of its answer in its queue.
StreamsCanEnd ==
    \A c \in Streams : Active(c) /\ c \notin queues =>
        q[c] # <<>> /\ q[c][Len(q[c])] \in {EndOfStream, LastChunk}

\* At most one request was forgotten, and the demultiplexer did not survive it.
OneStranded ==
    /\ \A c \in Calls : Stranded(c) => reader = "failed"
    /\ \A c, d \in Calls : Stranded(c) /\ Stranded(d) => c = d

\* Results belong to requests that were answered.
ResultsAnswered ==
    /\ \A c \in Calls : fut[c] = "result" => c \in Unary /\ answered[c] = 1
    /\ \A c \in Unary : answered[c] <= 1
    /\ \A i \in DOMAIN wire : wire[i].type = "response" /\ wire[i].id \in Unary => answered[wire[i].id] = 1

\* Requests have futures and streams have queues; the future of a registered
\* request has no result.
OwnKind ==
    /\ \A c \in Unary : q[c] = <<>>
    /\ \A c \in Streams : fut[c] = "none"
    /\ \A c \in pending : fut[c] \in {"pending", "cancelled"}

\* Where close() is and what it has done by then.
Closing ==
    /\ closed <=> closer # "idle"
    /\ closer = "waiting" => reader # "failed"
    /\ closer = "done" => reader = "ended" /\ pending = {} /\ queues = {}

\* How many chunks of stream c left the wire for its consumer.
Queued(c) == got[c] + Len(q[c])

\* The chunks in a queue follow those its consumer took; an abort's None is last.
QueueInOrder ==
    \A c \in Streams :
        /\ got[c] <= answered[c]
        /\ \A i \in DOMAIN q[c] :
              \/ q[c][i] = got[c] + i /\ q[c][i] <= answered[c]
              \/ q[c][i] = EndOfStream /\ i = Len(q[c]) /\ c \notin queues

\* The chunks of stream c that are on the wire follow those in its queue, in
\* order and without a gap, up to the last one the peer sent.
Follow(c) ==
    /\ Queued(c) < LastChunk
    /\ \A i \in DOMAIN wire, k \in 1..LastChunk : wire[i] = ChunkFrame(c, k) =>
          /\ Queued(c) < k /\ k <= answered[c]
          /\ Queued(c) + 1 < k => \E j \in DOMAIN wire : j < i /\ wire[j] = ChunkFrame(c, k - 1)
    /\ \A i, j \in DOMAIN wire, k, l \in 1..LastChunk :
          i < j /\ wire[i] = ChunkFrame(c, k) /\ wire[j] = ChunkFrame(c, l) => k < l
    /\ connected => \A k \in 1..LastChunk : Queued(c) < k /\ k <= answered[c] =>
          \E i \in DOMAIN wire : wire[i] = ChunkFrame(c, k)

WireInOrder == \A c \in queues : Follow(c)

IInv ==
    /\ TypeOK
    /\ Fresh
    /\ NoStaleEntry
    /\ StreamsCanEnd
    /\ OneStranded
    /\ ResultsAnswered
    /\ OwnKind
    /\ Closing
    /\ QueueInOrder
    /\ WireInOrder

----------------------------------------------------------------------------
(* Types.                                                                  *)

\* What the fields of the frames that carry an id are.
LEMMA FrameFields ==
    ASSUME NEW f \in Frames
    PROVE  /\ f.type = "response" => f.id \in Calls
           /\ f.type = "chunk" => f.id \in Calls /\ f.index \in 1..LastChunk /\ f = ChunkFrame(f.id, f.index)
           /\ f.type = "malformed" => f.id \in Unary
  BY DEF Frames, RoutedFrames, OtherFrames, ChunkFrame

LEMMA WireFacts ==
    ASSUME TypeOK
    PROVE  /\ Len(wire) \in Nat /\ DOMAIN wire = 1..Len(wire)
           /\ \A i \in DOMAIN wire : wire[i] \in Frames
           /\ wire # <<>> => /\ Head(wire) = wire[1] /\ Head(wire) \in Frames /\ 1 \in DOMAIN wire
                             /\ Tail(wire) \in Seq(Frames)
                             /\ DOMAIN Tail(wire) = 1..(Len(wire) - 1)
                             /\ \A i \in DOMAIN Tail(wire) : Tail(wire)[i] = wire[i+1]
<1>1. wire \in Seq(Frames)
  BY DEF TypeOK
<1> HIDE DEF Frames
<1> QED
  BY <1>1, HeadTailProperties

LEMMA TypesAfterCall ==
    ASSUME TypeOK, NEW c \in Calls, Call(c)
    PROVE  TypeOK'
<1> USE ChannelAssumption
<1> HIDE DEF Frames
<1>1. CASE Refuse(c)
  BY <1>1 DEF TypeOK, Refuse, Finish, peerVars, CallStates, Outcomes
<1>2. CASE Register(c)
  BY <1>2 DEF TypeOK, Register, peerVars, CallStates, Futures, Calls
<1>3. CASE Sent(c)
  BY <1>3 DEF TypeOK, Sent, peerVars, CallStates
<1>4. CASE SendFails(c)
  BY <1>4 DEF TypeOK, SendFails, Finish, peerVars, CallStates, Outcomes
<1>9. CASE Unsent(c)
  BY <1>9 DEF TypeOK, Unsent, Finish, peerVars, CallStates, Outcomes, Futures, Calls
<1>5. CASE Return(c)
  BY <1>5 DEF TypeOK, Return, Finish, peerVars, CallStates, Outcomes
<1>6. CASE TakeChunk(c)
  <2> USE <1>6 DEF TakeChunk
  <2>1. q[c] \in Seq(0..LastChunk) /\ q[c] # <<>>
    BY DEF TypeOK
  <2>2. Head(q[c]) \in 0..LastChunk /\ Tail(q[c]) \in Seq(0..LastChunk)
    BY <2>1, HeadTailProperties
  <2>3. q' \in [Calls -> Seq(0..LastChunk)]
    BY <2>2 DEF TypeOK
  <2>4. /\ got' \in [Calls -> 0..LastChunk]
        /\ pc' \in [Calls -> CallStates] /\ outcome' \in [Calls -> Outcomes]
    BY <2>2 DEF TypeOK, Finish, CallStates, Outcomes
  <2> QED
    BY <2>3, <2>4 DEF TypeOK, peerVars
<1>7. CASE Timeout(c)
  BY <1>7 DEF TypeOK, Timeout, Finish, peerVars, CallStates, Outcomes, Futures
<1>8. CASE Abandon(c)
  BY <1>8 DEF TypeOK, Abandon, Finish, peerVars, CallStates, Outcomes, Futures
<1> QED
  BY <1>1, <1>2, <1>3, <1>4, <1>5, <1>6, <1>7, <1>8, <1>9 DEF Call

\* A queue takes what the demultiplexer puts in it.
LEMMA QueueTakes ==
    ASSUME TypeOK
    PROVE  \A d \in Calls, k \in 0..LastChunk : Append(q[d], k) \in Seq(0..LastChunk)
<1>1. \A d \in Calls : q[d] \in Seq(0..LastChunk)
  BY DEF TypeOK
<1> QED
  BY <1>1, AppendProperties

\* The types of the futures and queues after an abort that P is told of.
LEMMA TypesAfterAbort ==
    ASSUME TypeOK, NEW P \in SUBSET Calls,
           fut' = [d \in Calls |-> IF d \in P /\ fut[d] = "pending" THEN "reset" ELSE fut[d]],
           q' = [d \in Calls |-> IF d \in queues THEN Append(q[d], EndOfStream) ELSE q[d]]
    PROVE  fut' \in [Calls -> Futures] /\ q' \in [Calls -> Seq(0..LastChunk)]
<1>1. \A d \in Calls : q[d] \in Seq(0..LastChunk) /\ Append(q[d], EndOfStream) \in Seq(0..LastChunk)
  BY QueueTakes, ChannelAssumption DEF TypeOK, EndOfStream
<1>2. \A d \in Calls : fut[d] \in Futures /\ "reset" \in Futures
  BY DEF TypeOK, Futures
<1>3. fut' \in [Calls -> Futures]
  BY <1>2
<1>4. q' \in [Calls -> Seq(0..LastChunk)]
  BY <1>1
<1> QED
  BY <1>3, <1>4

LEMMA AbortPendingTypes ==
    ASSUME TypeOK, AbortPending
    PROVE  /\ pending' \subseteq Unary /\ queues' \subseteq Streams
           /\ fut' \in [Calls -> Futures] /\ q' \in [Calls -> Seq(0..LastChunk)]
<1>1. pending \in SUBSET Calls
  BY DEF TypeOK, Calls
<1> QED
  BY <1>1, TypesAfterAbort DEF AbortPending

LEMMA TypesAfterDemux ==
    ASSUME TypeOK, Demux
    PROVE  TypeOK'
<1> USE ChannelAssumption
<1> DEFINE f == Head(wire)
<1>0. /\ wire # <<>> => f \in Frames /\ Tail(wire) \in Seq(Frames)
      /\ f \in Frames => /\ f.type = "response" => f.id \in Calls
                         /\ f.type = "chunk" => f.id \in Calls /\ f.index \in 1..LastChunk
                         /\ f.type = "malformed" => f.id \in Unary
  BY WireFacts, FrameFields
<1> HIDE DEF Frames
<1> USE DEF Reading
<1>1. CASE DemuxResponse
  BY <1>0, <1>1 DEF TypeOK, DemuxResponse, Futures
<1>2. CASE DemuxChunk
  <2>1. f.id \in Calls /\ f.index \in 0..LastChunk
    BY <1>0, <1>2 DEF DemuxChunk
  <2>2. q' \in [Calls -> Seq(0..LastChunk)]
    <3>1. Append(q[f.id], f.index) \in Seq(0..LastChunk)
      BY <2>1, QueueTakes
    <3> QED
      BY <1>2, <2>1, <3>1 DEF TypeOK, DemuxChunk
  <2>3. queues' \subseteq Streams /\ wire' \in Seq(Frames)
    BY <1>0, <1>2 DEF TypeOK, DemuxChunk
  <2> QED
    BY <1>2, <2>2, <2>3 DEF TypeOK, DemuxChunk
<1>3. CASE DemuxSkipped
  BY <1>0, <1>3 DEF TypeOK, DemuxSkipped, callVars
<1>4. CASE DemuxStrayMalformed
  BY <1>0, <1>4 DEF TypeOK, DemuxStrayMalformed, callVars
<1>5. CASE DemuxMalformed
  <2>1. pending \ {f.id} \in SUBSET Calls
    BY DEF TypeOK, Calls
  <2>2. fut' \in [Calls -> Futures] /\ q' \in [Calls -> Seq(0..LastChunk)]
    BY <1>5, <2>1, TypesAfterAbort DEF DemuxMalformed
  <2> QED
    BY <1>0, <1>5, <2>2 DEF TypeOK, DemuxMalformed
<1>6. CASE DemuxPoison
  BY <1>0, <1>6, AbortPendingTypes DEF TypeOK, DemuxPoison
<1>7. CASE DemuxEnds
  BY <1>7, AbortPendingTypes DEF TypeOK, DemuxEnds, peerVars
<1>8. CASE DemuxCancelled
  BY <1>8, AbortPendingTypes DEF TypeOK, DemuxCancelled, peerVars
<1>9. CASE DemuxFails
  BY <1>9, AbortPendingTypes DEF TypeOK, DemuxFails, peerVars
<1> QED
  BY <1>1, <1>2, <1>3, <1>4, <1>5, <1>6, <1>7, <1>8, <1>9 DEF Demux

LEMMA TypesAfterClose ==
    ASSUME TypeOK, Close
    PROVE  TypeOK'
<1> USE ChannelAssumption
<1> HIDE DEF Frames
<1>2. CASE CloseCancels \/ CloseRaises
  BY <1>2 DEF TypeOK, CloseCancels, CloseRaises, callVars, peerVars
<1>3. CASE CloseResumes \/ CloseAtOnce
  BY <1>3, AbortPendingTypes DEF TypeOK, CloseResumes, CloseAtOnce, CloseRest, peerVars
<1> QED
  BY <1>2, <1>3 DEF Close

LEMMA TypesAfterPeer ==
    ASSUME TypeOK, Peer
    PROVE  TypeOK'
<1> USE ChannelAssumption
<1>1. ASSUME NEW f \in Frames, Put(f), answered' \in [Calls -> 0..LastChunk]
      PROVE  TypeOK'
  <2> HIDE DEF Frames
  <2> QED
    BY <1>1 DEF TypeOK, Put, callVars
<1>2. CASE PeerResponds
  <2>1. PICK f \in [type : {"response"}, id : Calls] \cup [type : {"malformed"}, id : Unary] :
           /\ Put(f)
           /\ answered' = [answered EXCEPT ![f.id] =
                 IF f.type = "response" /\ f.id \in Unary THEN 1 ELSE @]
    BY <1>2 DEF PeerResponds
  <2>2. f \in Frames /\ answered' \in [Calls -> 0..LastChunk]
    BY <2>1 DEF Frames, RoutedFrames, TypeOK, Calls
  <2> QED
    BY <1>1, <2>1, <2>2
<1>3. CASE PeerStreams
  <2>1. PICK c \in Streams :
           /\ answered[c] < LastChunk
           /\ Put([type |-> "chunk", id |-> c, index |-> answered[c] + 1])
           /\ answered' = [answered EXCEPT ![c] = @ + 1]
    BY <1>3 DEF PeerStreams
  <2>2. c \in Calls /\ answered[c] \in 0..LastChunk /\ answered[c] + 1 \in 1..LastChunk
    BY <2>1 DEF TypeOK, Calls
  <2>3. [type |-> "chunk", id |-> c, index |-> answered[c] + 1] \in Frames
    BY <2>2 DEF Frames, RoutedFrames
  <2>4. answered' \in [Calls -> 0..LastChunk]
    BY <2>1, <2>2 DEF TypeOK
  <2> QED
    BY <1>1, <2>1, <2>3, <2>4
<1>4. CASE PeerBabbles
  BY <1>1, <1>4 DEF PeerBabbles, Frames, TypeOK
<1>5. CASE Disconnect
  <2> HIDE DEF Frames
  <2>1. \A k \in 0..Len(wire) : SubSeq(wire, 1, k) \in Seq(Frames)
    BY SubSeqProperties DEF TypeOK
  <2> QED
    BY <1>5, <2>1 DEF TypeOK, Disconnect, callVars
<1> QED
  BY <1>2, <1>3, <1>4, <1>5 DEF Peer

----------------------------------------------------------------------------
(* Queues and wire.                                                        *)

LEMMA HeadAndTail ==
    ASSUME NEW S, NEW s \in Seq(S), s # <<>>
    PROVE  /\ Len(s) \in Nat /\ Len(s) > 0 /\ Head(s) = s[1] /\ Head(s) \in S
           /\ Tail(s) \in Seq(S) /\ Len(Tail(s)) = Len(s) - 1
           /\ DOMAIN Tail(s) = 1..(Len(s) - 1)
           /\ \A i \in 1..(Len(s) - 1) : Tail(s)[i] = s[i + 1]
<1>1. Len(s) \in Nat /\ Len(s) > 0
  BY EmptySeq, LenProperties
<1>2. /\ Head(s) \in S /\ Tail(s) \in Seq(S) /\ Len(Tail(s)) = Len(s) - 1
      /\ \A i \in 1..(Len(s) - 1) : Tail(s)[i] = s[i + 1]
  BY <1>1, HeadTailProperties
<1> QED
  BY <1>1, <1>2

LEMMA QueueFacts ==
    ASSUME TypeOK, NEW d \in Calls
    PROVE  /\ q[d] \in Seq(0..LastChunk) /\ Len(q[d]) \in Nat /\ DOMAIN q[d] = 1..Len(q[d])
           /\ got[d] \in Nat /\ answered[d] \in 0..LastChunk /\ Queued(d) \in Nat
           /\ \A k \in 0..LastChunk :
                 /\ Append(q[d], k) # <<>> /\ Len(Append(q[d], k)) = Len(q[d]) + 1
                 /\ DOMAIN Append(q[d], k) = 1..(Len(q[d]) + 1)
                 /\ Append(q[d], k)[Len(q[d]) + 1] = k
                 /\ \A i \in 1..Len(q[d]) : Append(q[d], k)[i] = q[d][i]
           /\ q[d] # <<>> => /\ Len(q[d]) > 0 /\ Head(q[d]) = q[d][1] /\ Head(q[d]) \in 0..LastChunk
                             /\ Tail(q[d]) \in Seq(0..LastChunk)
                             /\ Len(Tail(q[d])) = Len(q[d]) - 1
                             /\ DOMAIN Tail(q[d]) = 1..(Len(q[d]) - 1)
                             /\ \A i \in 1..(Len(q[d]) - 1) : Tail(q[d])[i] = q[d][i + 1]
<1>1. q[d] \in Seq(0..LastChunk) /\ got[d] \in 0..LastChunk /\ answered[d] \in 0..LastChunk
  BY DEF TypeOK
<1>2. Len(q[d]) \in Nat /\ DOMAIN q[d] = 1..Len(q[d])
  BY <1>1
<1>3. ASSUME NEW k \in 0..LastChunk
      PROVE  /\ Append(q[d], k) # <<>> /\ Len(Append(q[d], k)) = Len(q[d]) + 1
             /\ DOMAIN Append(q[d], k) = 1..(Len(q[d]) + 1)
             /\ Append(q[d], k)[Len(q[d]) + 1] = k
             /\ \A i \in 1..Len(q[d]) : Append(q[d], k)[i] = q[d][i]
  <2>1. Append(q[d], k) \in Seq(0..LastChunk)
    BY <1>1, AppendProperties
  <2> QED
    BY <1>1, <1>2, <2>1, AppendProperties
<1>4. got[d] \in Nat /\ Queued(d) \in Nat
  BY <1>1, <1>2, ChannelAssumption DEF Queued
<1>5. CASE q[d] = <<>>
  BY <1>1, <1>2, <1>3, <1>4, <1>5
<1>6. CASE q[d] # <<>>
  <2>1. /\ Len(q[d]) > 0 /\ Head(q[d]) = q[d][1] /\ Head(q[d]) \in 0..LastChunk
        /\ Tail(q[d]) \in Seq(0..LastChunk) /\ Len(Tail(q[d])) = Len(q[d]) - 1
        /\ DOMAIN Tail(q[d]) = 1..(Len(q[d]) - 1)
        /\ \A i \in 1..(Len(q[d]) - 1) : Tail(q[d])[i] = q[d][i + 1]
    BY <1>1, <1>6, HeadAndTail
  <2> QED
    BY <1>1, <1>2, <1>3, <1>4, <2>1
<1> QED
  BY <1>5, <1>6

\* What a registered stream's queue holds: chunks that were sent, no None.
LEMMA RegisteredQueue ==
    ASSUME TypeOK, QueueInOrder, NEW c \in queues
    PROVE  /\ c \in Streams /\ c \in Calls
           /\ \A i \in DOMAIN q[c] : q[c][i] = got[c] + i /\ q[c][i] # EndOfStream
           /\ Queued(c) <= answered[c]
<1>1. c \in Streams /\ c \in Calls
  BY DEF TypeOK, Calls
<1>2. got[c] \in Nat /\ Len(q[c]) \in Nat /\ DOMAIN q[c] = 1..Len(q[c]) /\ answered[c] \in Nat
  BY <1>1, QueueFacts, ChannelAssumption
<1>3. \A i \in DOMAIN q[c] : q[c][i] = got[c] + i /\ q[c][i] <= answered[c]
  BY <1>1 DEF QueueInOrder
<1>4. Queued(c) <= answered[c]
  <2>1. CASE Len(q[c]) = 0
    BY <1>1, <1>2, <2>1 DEF QueueInOrder, Queued
  <2>2. CASE Len(q[c]) # 0
    BY <1>2, <1>3, <2>2 DEF Queued
  <2> QED
    BY <2>1, <2>2
<1> QED
  BY <1>1, <1>2, <1>3, <1>4 DEF EndOfStream

\* An abort ends every registered stream.
LEMMA AbortKeepsQueues ==
    ASSUME TypeOK, StreamsCanEnd, QueueInOrder, OwnKind,
           q' = [d \in Calls |-> IF d \in queues THEN Append(q[d], EndOfStream) ELSE q[d]],
           queues' = {}, pc' = pc, got' = got, answered' = answered
    PROVE  StreamsCanEnd' /\ QueueInOrder' /\ WireInOrder' /\ \A c \in Unary : q'[c] = <<>>
<1> USE ChannelAssumption
<1>1. WireInOrder'
  BY DEF WireInOrder
<1>2. \A c \in Unary : q'[c] = <<>>
  BY DEF TypeOK, Calls, OwnKind
<1>3. ASSUME NEW c \in Streams
      PROVE  /\ (Active(c) /\ c \notin queues)' =>
                   q'[c] # <<>> /\ q'[c][Len(q'[c])] \in {EndOfStream, LastChunk}
             /\ got[c] <= answered[c]
             /\ \A i \in DOMAIN q'[c] :
                   \/ q'[c][i] = got[c] + i /\ q'[c][i] <= answered[c]
                   \/ q'[c][i] = EndOfStream /\ i = Len(q'[c])
  <2>0. c \in Calls
    BY DEF Calls
  <2>1. CASE c \notin queues
    BY <1>3, <2>0, <2>1 DEF StreamsCanEnd, QueueInOrder, Active
  <2>2. CASE c \in queues
    <3>1. q'[c] = Append(q[c], EndOfStream) /\ EndOfStream \in 0..LastChunk
      BY <2>0, <2>2 DEF EndOfStream
    <3>2. /\ Append(q[c], EndOfStream) # <<>>
          /\ Len(Append(q[c], EndOfStream)) = Len(q[c]) + 1 /\ Len(q[c]) \in Nat
          /\ DOMAIN Append(q[c], EndOfStream) = 1..(Len(q[c]) + 1) /\ DOMAIN q[c] = 1..Len(q[c])
          /\ Append(q[c], EndOfStream)[Len(q[c]) + 1] = EndOfStream
          /\ \A i \in 1..Len(q[c]) : Append(q[c], EndOfStream)[i] = q[c][i]
      BY <2>0, <3>1, QueueFacts
    <3>3. got[c] <= answered[c] /\ \A i \in 1..Len(q[c]) : q[c][i] = got[c] + i /\ q[c][i] <= answered[c]
      BY <2>2, <3>2 DEF QueueInOrder
    <3> HIDE DEF EndOfStream
    <3>4. q'[c] # <<>> /\ q'[c][Len(q'[c])] = EndOfStream
      BY <3>1, <3>2
    <3>5. ASSUME NEW i \in DOMAIN q'[c]
          PROVE  \/ q'[c][i] = got[c] + i /\ q'[c][i] <= answered[c]
                 \/ q'[c][i] = EndOfStream /\ i = Len(q'[c])
      <4>1. CASE i \in 1..Len(q[c])
        BY <3>1, <3>2, <3>3, <4>1
      <4>2. CASE i = Len(q[c]) + 1
        BY <3>1, <3>2, <4>2
      <4> QED
        BY <3>1, <3>2, <3>5, <4>1, <4>2
    <3> QED
      BY <3>3, <3>4, <3>5
  <2> QED
    BY <2>1, <2>2
<1>4. StreamsCanEnd'
  BY <1>3 DEF StreamsCanEnd
<1>5. QueueInOrder'
  BY <1>3 DEF QueueInOrder
<1> QED
  BY <1>1, <1>2, <1>4, <1>5

\* The demultiplexer takes a frame that is no chunk of stream c.
LEMMA FollowAfterOther ==
    ASSUME TypeOK, NEW c \in Calls, Follow(c), wire # <<>>, wire' = Tail(wire),
           \A k \in 1..LastChunk : wire[1] # ChunkFrame(c, k),
           Queued(c)' = Queued(c), answered' = answered, connected' = connected
    PROVE  Follow(c)'
<1> USE ChannelAssumption
<1>1. /\ Len(wire) \in Nat /\ DOMAIN wire = 1..Len(wire) /\ DOMAIN wire' = 1..(Len(wire) - 1)
      /\ \A i \in DOMAIN wire' : wire'[i] = wire[i + 1] /\ i + 1 \in DOMAIN wire
      /\ \A i \in DOMAIN wire : i # 1 => i - 1 \in DOMAIN wire' /\ wire'[i - 1] = wire[i]
  BY WireFacts
<1>2. Queued(c) \in Nat
  BY QueueFacts
<1> HIDE DEF ChunkFrame
<1> DEFINE Q == Queued(c)
<1>3. \A i \in DOMAIN wire', k \in 1..LastChunk : wire'[i] = ChunkFrame(c, k) =>
          /\ Q < k /\ k <= answered[c]
          /\ Q + 1 < k => \E j \in DOMAIN wire' : j < i /\ wire'[j] = ChunkFrame(c, k - 1)
  <2> SUFFICES ASSUME NEW i \in DOMAIN wire', NEW k \in 1..LastChunk, wire'[i] = ChunkFrame(c, k)
               PROVE  /\ Q < k /\ k <= answered[c]
                      /\ Q + 1 < k => \E j \in DOMAIN wire' : j < i /\ wire'[j] = ChunkFrame(c, k - 1)
    OBVIOUS
  <2>1. i + 1 \in DOMAIN wire /\ wire[i + 1] = ChunkFrame(c, k)
    BY <1>1
  <2>2. Q < k /\ k <= answered[c]
    BY <2>1 DEF Follow
  <2>3. ASSUME Q + 1 < k
        PROVE  \E j \in DOMAIN wire' : j < i /\ wire'[j] = ChunkFrame(c, k - 1)
    <3>1. PICK j \in DOMAIN wire : j < i + 1 /\ wire[j] = ChunkFrame(c, k - 1)
      BY <2>1, <2>3 DEF Follow
    <3>2. k - 1 \in 1..LastChunk
      BY <1>2, <2>3
    <3>3. j # 1
      BY <3>1, <3>2
    <3>4. j - 1 \in DOMAIN wire' /\ wire'[j - 1] = ChunkFrame(c, k - 1)
      BY <1>1, <3>1, <3>3
    <3>5. j - 1 < i
      BY <1>1, <3>1
    <3> QED
      BY <3>4, <3>5
  <2> QED
    BY <2>2, <2>3
<1>4. \A i, j \in DOMAIN wire', k, l \in 1..LastChunk :
          i < j /\ wire'[i] = ChunkFrame(c, k) /\ wire'[j] = ChunkFrame(c, l) => k < l
  BY <1>1 DEF Follow
<1>5. connected => \A k \in 1..LastChunk : Q < k /\ k <= answered[c] =>
          \E i \in DOMAIN wire' : wire'[i] = ChunkFrame(c, k)
  <2> SUFFICES ASSUME connected, NEW k \in 1..LastChunk, Q < k, k <= answered[c]
               PROVE  \E i \in DOMAIN wire' : wire'[i] = ChunkFrame(c, k)
    OBVIOUS
  <2>1. PICK i \in DOMAIN wire : wire[i] = ChunkFrame(c, k)
    BY DEF Follow
  <2>2. i # 1
    BY <2>1
  <2> QED
    BY <1>1, <2>1, <2>2
<1> QED
  BY <1>3, <1>4, <1>5 DEF Follow

\* It puts the next chunk of stream c in the queue, and that was not the last.
LEMMA FollowAfterOwn ==
    ASSUME TypeOK, NEW c \in Calls, Follow(c), wire # <<>>, wire' = Tail(wire),
           wire[1] = ChunkFrame(c, Queued(c) + 1), Queued(c) + 1 < LastChunk,
           Queued(c)' = Queued(c) + 1, answered' = answered, connected' = connected
    PROVE  Follow(c)'
<1> USE ChannelAssumption
<1>1. /\ Len(wire) \in Nat /\ DOMAIN wire = 1..Len(wire) /\ DOMAIN wire' = 1..(Len(wire) - 1)
      /\ \A i \in DOMAIN wire' : wire'[i] = wire[i + 1] /\ i + 1 \in DOMAIN wire
      /\ \A i \in DOMAIN wire : i # 1 => i - 1 \in DOMAIN wire' /\ wire'[i - 1] = wire[i]
      /\ 1 \in DOMAIN wire
  BY WireFacts
<1>2. Queued(c) \in Nat
  BY QueueFacts
<1> DEFINE Q == Queued(c)
<1>a. \A k, l \in Int : ChunkFrame(c, k) = ChunkFrame(c, l) => k = l
  BY DEF ChunkFrame
<1> HIDE DEF ChunkFrame
<1>3. \A i \in DOMAIN wire', k \in 1..LastChunk : wire'[i] = ChunkFrame(c, k) =>
          /\ Q + 1 < k /\ k <= answered[c]
          /\ Q + 2 < k => \E j \in DOMAIN wire' : j < i /\ wire'[j] = ChunkFrame(c, k - 1)
  <2> SUFFICES ASSUME NEW i \in DOMAIN wire', NEW k \in 1..LastChunk, wire'[i] = ChunkFrame(c, k)
               PROVE  /\ Q + 1 < k /\ k <= answered[c]
                      /\ Q + 2 < k => \E j \in DOMAIN wire' : j < i /\ wire'[j] = ChunkFrame(c, k - 1)
    OBVIOUS
  <2>1. i + 1 \in DOMAIN wire /\ wire[i + 1] = ChunkFrame(c, k) /\ 1 < i + 1
    BY <1>1
  <2>2. Q + 1 \in 1..LastChunk
    BY <1>2
  <2>3. Q + 1 < k /\ k <= answered[c]
    BY <1>1, <2>1, <2>2 DEF Follow
  <2>4. ASSUME Q + 2 < k
        PROVE  \E j \in DOMAIN wire' : j < i /\ wire'[j] = ChunkFrame(c, k - 1)
    <3>1. PICK j \in DOMAIN wire : j < i + 1 /\ wire[j] = ChunkFrame(c, k - 1)
      BY <1>2, <2>1, <2>4 DEF Follow
    <3>2. k - 1 # Q + 1
      BY <1>2, <2>4
    <3>3. j # 1
      BY <1>a, <1>2, <3>1, <3>2
    <3>4. j - 1 \in DOMAIN wire' /\ wire'[j - 1] = ChunkFrame(c, k - 1)
      BY <1>1, <3>1, <3>3
    <3>5. j - 1 < i
      BY <1>1, <3>1
    <3> QED
      BY <3>4, <3>5
  <2> QED
    BY <2>3, <2>4
<1>4. \A i, j \in DOMAIN wire', k, l \in 1..LastChunk :
          i < j /\ wire'[i] = ChunkFrame(c, k) /\ wire'[j] = ChunkFrame(c, l) => k < l
  BY <1>1 DEF Follow
<1>5. connected => \A k \in 1..LastChunk : Q + 1 < k /\ k <= answered[c] =>
          \E i \in DOMAIN wire' : wire'[i] = ChunkFrame(c, k)
  <2> SUFFICES ASSUME connected, NEW k \in 1..LastChunk, Q + 1 < k, k <= answered[c]
               PROVE  \E i \in DOMAIN wire' : wire'[i] = ChunkFrame(c, k)
    OBVIOUS
  <2>1. PICK i \in DOMAIN wire : wire[i] = ChunkFrame(c, k)
    BY <1>2 DEF Follow
  <2>2. i # 1
    BY <1>a, <1>2, <2>1
  <2> QED
    BY <1>1, <2>1, <2>2
<1>6. Q + 1 + 1 = Q + 2
  BY <1>2
<1> QED
  BY <1>3, <1>4, <1>5, <1>6 DEF Follow

LEMMA AppendFrame ==
    ASSUME TypeOK, NEW f \in Frames, wire' = Append(wire, f)
    PROVE  /\ Len(wire) \in Nat /\ DOMAIN wire = 1..Len(wire)
           /\ DOMAIN wire' = 1..(Len(wire) + 1)
           /\ wire'[Len(wire) + 1] = f
           /\ \A i \in DOMAIN wire : wire'[i] = wire[i]
<1> HIDE DEF Frames
<1>1. wire \in Seq(Frames)
  BY DEF TypeOK
<1> QED
  BY <1>1, AppendProperties

\* The peer sends something that is no chunk of stream c.
LEMMA FollowAfterSend ==
    ASSUME TypeOK, NEW c \in Calls, Follow(c), NEW f \in Frames, wire' = Append(wire, f),
           \A k \in 1..LastChunk : f # ChunkFrame(c, k),
           Queued(c)' = Queued(c), answered'[c] = answered[c], connected' = connected
    PROVE  Follow(c)'
<1> HIDE DEF Frames, ChunkFrame
<1> USE ChannelAssumption
<1>1. /\ Len(wire) \in Nat /\ DOMAIN wire = 1..Len(wire) /\ DOMAIN wire' = 1..(Len(wire) + 1)
      /\ wire'[Len(wire) + 1] = f
      /\ \A i \in DOMAIN wire : wire'[i] = wire[i] /\ i \in DOMAIN wire'
  BY AppendFrame
<1>2. \A i \in DOMAIN wire', k \in 1..LastChunk :
          wire'[i] = ChunkFrame(c, k) => i \in DOMAIN wire /\ wire[i] = ChunkFrame(c, k)
  BY <1>1
<1>3. \A i \in DOMAIN wire', k \in 1..LastChunk : wire'[i] = ChunkFrame(c, k) =>
          /\ Queued(c) < k /\ k <= answered[c]
          /\ Queued(c) + 1 < k => \E j \in DOMAIN wire' : j < i /\ wire'[j] = ChunkFrame(c, k - 1)
  BY <1>1, <1>2 DEF Follow
<1>4. \A i, j \in DOMAIN wire', k, l \in 1..LastChunk :
          i < j /\ wire'[i] = ChunkFrame(c, k) /\ wire'[j] = ChunkFrame(c, l) => k < l
  BY <1>2 DEF Follow
<1>5. connected => \A k \in 1..LastChunk : Queued(c) < k /\ k <= answered[c] =>
          \E i \in DOMAIN wire' : wire'[i] = ChunkFrame(c, k)
  BY <1>1 DEF Follow
<1> QED
  BY <1>3, <1>4, <1>5 DEF Follow

\* The peer sends the next chunk of stream c.
LEMMA FollowAfterChunk ==
    ASSUME TypeOK, QueueInOrder, NEW c \in queues, Follow(c), connected,
           answered[c] < LastChunk,
           ChunkFrame(c, answered[c] + 1) \in Frames,
           wire' = Append(wire, ChunkFrame(c, answered[c] + 1)),
           Queued(c)' = Queued(c), answered'[c] = answered[c] + 1
    PROVE  Follow(c)'
<1> USE ChannelAssumption
<1> DEFINE n == Len(wire) + 1
           a == answered[c]
<1>1. /\ Len(wire) \in Nat /\ DOMAIN wire = 1..Len(wire) /\ DOMAIN wire' = 1..n
      /\ wire'[n] = ChunkFrame(c, a + 1)
      /\ \A i \in DOMAIN wire : wire'[i] = wire[i] /\ i \in DOMAIN wire' /\ i < n
      /\ \A i \in DOMAIN wire' : i # n => i \in DOMAIN wire
  BY AppendFrame
<1>2. Queued(c) \in Nat /\ a \in Nat /\ Queued(c) <= a
  BY RegisteredQueue, QueueFacts
<1>a. \A k, l \in Int : ChunkFrame(c, k) = ChunkFrame(c, l) => k = l
  BY DEF ChunkFrame
<1> HIDE DEF Frames, ChunkFrame, n, a
<1>3. ASSUME NEW i \in DOMAIN wire', NEW k \in 1..LastChunk, wire'[i] = ChunkFrame(c, k)
      PROVE  /\ Queued(c) < k /\ k <= a + 1
             /\ Queued(c) + 1 < k => \E j \in DOMAIN wire' : j < i /\ wire'[j] = ChunkFrame(c, k - 1)
  <2>1. CASE i # n
    <3>1. i \in DOMAIN wire /\ wire[i] = ChunkFrame(c, k)
      BY <1>1, <1>3, <2>1
    <3>2. Queued(c) < k /\ k <= a
      BY <3>1 DEF Follow, a
    <3>3. Queued(c) + 1 < k => \E j \in DOMAIN wire : j < i /\ wire[j] = ChunkFrame(c, k - 1)
      BY <3>1 DEF Follow
    <3> QED
      BY <1>1, <1>2, <3>2, <3>3
  <2>2. CASE i = n
    <3>1. k = a + 1
      BY <1>a, <1>1, <1>2, <1>3, <2>2
    <3>2. Queued(c) + 1 < k => a \in 1..LastChunk /\ Queued(c) < a
      BY <1>2, <3>1
    <3>3. Queued(c) + 1 < k => \E j \in DOMAIN wire : wire[j] = ChunkFrame(c, a)
      BY <1>2, <3>2 DEF Follow, a
    <3>4. a = k - 1
      BY <1>2, <3>1
    <3> QED
      BY <1>1, <1>2, <2>2, <3>1, <3>3, <3>4
  <2> QED
    BY <2>1, <2>2
<1>4. ASSUME NEW i \in DOMAIN wire', NEW j \in DOMAIN wire', NEW k \in 1..LastChunk, NEW l \in 1..LastChunk,
             i < j, wire'[i] = ChunkFrame(c, k), wire'[j] = ChunkFrame(c, l)
      PROVE  k < l
  <2>1. i # n /\ i \in DOMAIN wire /\ wire[i] = ChunkFrame(c, k)
    BY <1>1, <1>4
  <2>2. k <= a
    BY <2>1 DEF Follow, a
  <2>3. CASE j # n
    BY <1>1, <1>4, <2>1, <2>3 DEF Follow
  <2>4. CASE j = n
    BY <1>a, <1>1, <1>2, <1>4, <2>2, <2>4
  <2> QED
    BY <2>3, <2>4
<1>5. ASSUME NEW k \in 1..LastChunk, Queued(c) < k, k <= a + 1
      PROVE  \E i \in DOMAIN wire' : wire'[i] = ChunkFrame(c, k)
  <2>1. CASE k = a + 1
    BY <1>1, <2>1
  <2>2. CASE k # a + 1
    <3>1. k <= a
      BY <1>2, <1>5, <2>2
    <3>2. \E i \in DOMAIN wire : wire[i] = ChunkFrame(c, k)
      BY <1>5, <3>1 DEF Follow, a
    <3> QED
      BY <1>1, <3>2
  <2> QED
    BY <2>1, <2>2
<1> QED
  BY <1>3, <1>4, <1>5 DEF Follow, a

\* The connection breaks and takes the end of what is on the wire with it.
LEMMA FollowAfterDisconnect ==
    ASSUME TypeOK, NEW c \in Calls, Follow(c), NEW n \in 0..Len(wire), wire' = SubSeq(wire, 1, n),
           Queued(c)' = Queued(c), answered' = answered, ~connected'
    PROVE  Follow(c)'
<1> HIDE DEF Frames, ChunkFrame
<1>1. /\ Len(wire) \in Nat /\ DOMAIN wire = 1..Len(wire) /\ DOMAIN wire' = 1..n
      /\ \A i \in DOMAIN wire' : wire'[i] = wire[i] /\ i \in DOMAIN wire
      /\ \A i \in DOMAIN wire', j \in DOMAIN wire : j < i => j \in DOMAIN wire'
  BY SubSeqProperties DEF TypeOK
<1>2. \A i \in DOMAIN wire', k \in 1..LastChunk : wire'[i] = ChunkFrame(c, k) =>
          /\ Queued(c) < k /\ k <= answered[c]
          /\ Queued(c) + 1 < k => \E j \in DOMAIN wire' : j < i /\ wire'[j] = ChunkFrame(c, k - 1)
  BY <1>1 DEF Follow
<1>3. \A i, j \in DOMAIN wire', k, l \in 1..LastChunk :
          i < j /\ wire'[i] = ChunkFrame(c, k) /\ wire'[j] = ChunkFrame(c, l) => k < l
  BY <1>1 DEF Follow
<1> QED
  BY <1>2, <1>3 DEF Follow

----------------------------------------------------------------------------
(* Every action keeps the invariant.                                     *)

LEMMA RefuseKeeps ==
    ASSUME IInv, NEW c \in Calls, Refuse(c)
    PROVE  IInv'
<1> USE ChannelAssumption
<1> HIDE DEF Frames
<1>0. /\ TypeOK /\ Fresh /\ NoStaleEntry /\ StreamsCanEnd /\ OneStranded
      /\ ResultsAnswered /\ OwnKind /\ Closing /\ QueueInOrder /\ WireInOrder
  BY DEF IInv
<1>1. TypeOK'
  BY <1>0, TypesAfterCall DEF Call
<1>2. /\ Fresh' /\ StreamsCanEnd' /\ OneStranded' /\ ResultsAnswered'
      /\ OwnKind' /\ Closing' /\ QueueInOrder' /\ WireInOrder'
  BY <1>0
     DEF Refuse, Finish, peerVars, TypeOK, Fresh, StreamsCanEnd, Active, OneStranded, Stranded,
         ResultsAnswered, OwnKind, Closing, QueueInOrder, WireInOrder, Follow, Queued
<1>3. NoStaleEntry'
  BY <1>0 DEF Refuse, Finish, peerVars, TypeOK, NoStaleEntry, Active, Fresh
<1> QED
  BY <1>1, <1>2, <1>3 DEF IInv

LEMMA RegisterKeeps ==
    ASSUME IInv, NEW c \in Calls, Register(c)
    PROVE  IInv'
<1> USE ChannelAssumption
<1> HIDE DEF Frames
<1>0. /\ TypeOK /\ Fresh /\ NoStaleEntry /\ StreamsCanEnd /\ OneStranded
      /\ ResultsAnswered /\ OwnKind /\ Closing /\ QueueInOrder /\ WireInOrder
  BY DEF IInv
<1>1. TypeOK'
  BY <1>0, TypesAfterCall DEF Call
<1>2. /\ Fresh' /\ NoStaleEntry' /\ StreamsCanEnd' /\ OneStranded'
      /\ ResultsAnswered' /\ OwnKind' /\ Closing'
  BY <1>0
     DEF Register, peerVars, Calls, TypeOK, Fresh, NoStaleEntry, Active, StreamsCanEnd,
         OneStranded, Stranded, ResultsAnswered, OwnKind, Closing
<1>3. QueueInOrder'
  BY <1>0 DEF Register, peerVars, Calls, TypeOK, QueueInOrder, Fresh
<1>4. WireInOrder'
  <2>1. ASSUME NEW d \in queues
        PROVE  Follow(d)'
    BY <1>0, <2>1 DEF Register, peerVars, Calls, TypeOK, WireInOrder, Follow, Queued
  <2>2. ASSUME c \in Streams
        PROVE  Follow(c)'
    <3>1. got[c] = 0 /\ q[c] = <<>> /\ answered[c] = 0
      BY <1>0 DEF Register, Fresh
    <3>2. Queued(c) = 0 /\ Len(q[c]) = 0
      BY <3>1 DEF Queued
    <3>3. \A i \in DOMAIN wire, k \in 1..LastChunk : wire[i] # ChunkFrame(c, k)
      BY <1>0 DEF Register, Fresh
    <3>4. Queued(c)' = 0 /\ answered'[c] = 0 /\ wire' = wire
      BY <3>1, <3>2 DEF Register, peerVars, Queued
    <3> HIDE DEF ChunkFrame
    <3> QED
      BY <3>3, <3>4 DEF Follow
  <2> QED
    BY <2>1, <2>2 DEF Register, WireInOrder, Calls
<1> QED
  BY <1>1, <1>2, <1>3, <1>4 DEF IInv

LEMMA UnsentKeeps ==
    ASSUME IInv, NEW c \in Calls, Unsent(c)
    PROVE  IInv'
<1> USE ChannelAssumption
<1> HIDE DEF Frames
<1>0. /\ TypeOK /\ Fresh /\ NoStaleEntry /\ StreamsCanEnd /\ OneStranded
      /\ ResultsAnswered /\ OwnKind /\ Closing /\ QueueInOrder /\ WireInOrder
  BY DEF IInv
<1>1. TypeOK'
  BY <1>0, TypesAfterCall DEF Call
<1>2. /\ Fresh' /\ NoStaleEntry' /\ StreamsCanEnd' /\ OneStranded'
      /\ ResultsAnswered' /\ OwnKind' /\ Closing'
  BY <1>0
     DEF Unsent, Finish, peerVars, Calls, TypeOK, Fresh, NoStaleEntry, Active, StreamsCanEnd,
         OneStranded, Stranded, ResultsAnswered, OwnKind, Closing
<1>3. QueueInOrder'
  BY <1>0 DEF Unsent, Finish, peerVars, Calls, TypeOK, QueueInOrder, Fresh
<1>4. WireInOrder'
  <2>1. ASSUME NEW d \in queues
        PROVE  Follow(d)'
    BY <1>0, <2>1 DEF Unsent, Finish, peerVars, Calls, TypeOK, WireInOrder, Follow, Queued
  <2>2. ASSUME c \in Streams
        PROVE  Follow(c)'
    <3>1. got[c] = 0 /\ q[c] = <<>> /\ answered[c] = 0
      BY <1>0 DEF Unsent, Fresh
    <3>2. Queued(c) = 0 /\ Len(q[c]) = 0
      BY <3>1 DEF Queued
    <3>3. \A i \in DOMAIN wire, k \in 1..LastChunk : wire[i] # ChunkFrame(c, k)
      BY <1>0 DEF Unsent, Fresh
    <3>4. Queued(c)' = 0 /\ answered'[c] = 0 /\ wire' = wire
      BY <3>1, <3>2 DEF Unsent, Finish, peerVars, Queued
    <3> HIDE DEF ChunkFrame
    <3> QED
      BY <3>3, <3>4 DEF Follow
  <2> QED
    BY <2>1, <2>2 DEF Unsent, WireInOrder, Calls
<1> QED
  BY <1>1, <1>2, <1>3, <1>4 DEF IInv

LEMMA SentKeeps ==
    ASSUME IInv, NEW c \in Calls, Sent(c)
    PROVE  IInv'
<1> USE ChannelAssumption
<1> HIDE DEF Frames
<1>0. /\ TypeOK /\ Fresh /\ NoStaleEntry /\ StreamsCanEnd /\ OneStranded
      /\ ResultsAnswered /\ OwnKind /\ Closing /\ QueueInOrder /\ WireInOrder
  BY DEF IInv
<1>1. TypeOK'
  BY <1>0, TypesAfterCall DEF Call
<1>2. /\ Fresh' /\ NoStaleEntry' /\ StreamsCanEnd' /\ OneStranded'
      /\ ResultsAnswered' /\ OwnKind' /\ Closing' /\ QueueInOrder'
      /\ WireInOrder'
  BY <1>0
     DEF Sent, peerVars, TypeOK, Fresh, NoStaleEntry, Active, StreamsCanEnd, OneStranded,
         Stranded, ResultsAnswered, OwnKind, Closing, QueueInOrder, WireInOrder, Follow, Queued
<1> QED
  BY <1>1, <1>2 DEF IInv

LEMMA SendFailsKeeps ==
    ASSUME IInv, NEW c \in Calls, SendFails(c)
    PROVE  IInv'
<1> USE ChannelAssumption
<1> HIDE DEF Frames
<1>0. /\ TypeOK /\ Fresh /\ NoStaleEntry /\ StreamsCanEnd /\ OneStranded
      /\ ResultsAnswered /\ OwnKind /\ Closing /\ QueueInOrder /\ WireInOrder
  BY DEF IInv
<1>1. TypeOK'
  BY <1>0, TypesAfterCall DEF Call
<1>2. /\ Fresh' /\ NoStaleEntry' /\ StreamsCanEnd' /\ OneStranded'
      /\ ResultsAnswered' /\ OwnKind' /\ Closing' /\ QueueInOrder'
      /\ WireInOrder'
  BY <1>0
     DEF SendFails, Finish, peerVars, TypeOK, Fresh, NoStaleEntry, Active, StreamsCanEnd,
         OneStranded, Stranded, ResultsAnswered, OwnKind, Closing, QueueInOrder, WireInOrder,
         Follow, Queued
<1> QED
  BY <1>1, <1>2 DEF IInv

LEMMA ReturnKeeps ==
    ASSUME IInv, NEW c \in Calls, Return(c)
    PROVE  IInv'
<1> USE ChannelAssumption
<1> HIDE DEF Frames
<1>0. /\ TypeOK /\ Fresh /\ NoStaleEntry /\ StreamsCanEnd /\ OneStranded
      /\ ResultsAnswered /\ OwnKind /\ Closing /\ QueueInOrder /\ WireInOrder
  BY DEF IInv
<1>1. TypeOK'
  BY <1>0, TypesAfterCall DEF Call
<1>2. /\ Fresh' /\ OneStranded' /\ ResultsAnswered' /\ OwnKind' /\ Closing'
      /\ QueueInOrder' /\ WireInOrder'
  BY <1>0
     DEF Return, Finish, peerVars, TypeOK, Fresh, OneStranded, Stranded, Active, ResultsAnswered,
         OwnKind, Closing, QueueInOrder, WireInOrder, Follow, Queued
<1>3. NoStaleEntry'
  BY <1>0 DEF Return, Finish, peerVars, TypeOK, NoStaleEntry, Active, OwnKind, Calls
<1>4. StreamsCanEnd'
  <2>1. pc' = [pc EXCEPT ![c] = "done"] /\ UNCHANGED <<queues, q>>
    BY DEF Return, Finish
  <2> QED
    BY <1>0, <2>1 DEF StreamsCanEnd, Active, TypeOK, Calls
<1> QED
  BY <1>1, <1>2, <1>3, <1>4 DEF IInv

LEMMA TakeChunkKeeps ==
    ASSUME IInv, NEW c \in Calls, TakeChunk(c)
    PROVE  IInv'
<1> USE ChannelAssumption
<1> HIDE DEF Frames
<1>0. /\ TypeOK /\ Fresh /\ NoStaleEntry /\ StreamsCanEnd /\ OneStranded
      /\ ResultsAnswered /\ OwnKind /\ Closing /\ QueueInOrder /\ WireInOrder
  BY DEF IInv
<1>1. TypeOK'
  BY <1>0, TypesAfterCall DEF Call
<1>2. /\ c \in Streams
      /\ c \in queues => Head(q[c]) # EndOfStream /\ Head(q[c]) # LastChunk
      /\ Head(q[c]) = q[c][1] /\ Len(q[c]) \in Nat /\ Len(q[c]) > 0
      /\ DOMAIN q[c] = 1..Len(q[c]) /\ got[c] \in Nat /\ answered[c] \in Nat
      /\ Len(q'[c]) = Len(q[c]) - 1 /\ DOMAIN q'[c] = 1..(Len(q[c]) - 1)
      /\ \A i \in 1..(Len(q[c]) - 1) : q'[c][i] = q[c][i + 1]
      /\ \A d \in Calls : d # c => q'[d] = q[d] /\ got'[d] = got[d] /\ pc'[d] = pc[d]
                                /\ outcome'[d] = outcome[d]
  <2>1. c \in Streams
    BY <1>0 DEF TakeChunk, OwnKind, Calls
  <2>2. /\ Head(q[c]) = q[c][1] /\ Len(q[c]) \in Nat /\ Len(q[c]) > 0
        /\ DOMAIN q[c] = 1..Len(q[c]) /\ got[c] \in Nat /\ answered[c] \in Nat
        /\ Len(Tail(q[c])) = Len(q[c]) - 1 /\ DOMAIN Tail(q[c]) = 1..(Len(q[c]) - 1)
        /\ \A i \in 1..(Len(q[c]) - 1) : Tail(q[c])[i] = q[c][i + 1]
    BY <1>0, QueueFacts DEF TakeChunk
  <2>3. ASSUME c \in queues
        PROVE  Head(q[c]) # EndOfStream /\ Head(q[c]) # LastChunk
    <3>1. q[c][1] = got[c] + 1 /\ q[c][1] # EndOfStream
      BY <1>0, <2>2, <2>3, RegisteredQueue
    <3>2. got[c] + Len(q[c]) < LastChunk
      BY <1>0, <2>3 DEF WireInOrder, Follow, Queued
    <3> QED
      BY <2>2, <3>1, <3>2
  <2>4. /\ q'[c] = Tail(q[c])
        /\ \A d \in Calls : d # c => q'[d] = q[d] /\ got'[d] = got[d] /\ pc'[d] = pc[d]
                                  /\ outcome'[d] = outcome[d]
    BY <1>0 DEF TakeChunk, TypeOK, Finish
  <2> QED
    BY <2>1, <2>2, <2>3, <2>4
<1>3. Fresh'
  BY <1>0, <1>2 DEF TakeChunk, Finish, peerVars, EndOfStream, TypeOK, Fresh
<1>4. NoStaleEntry'
  BY <1>0, <1>2
     DEF TakeChunk, Finish, peerVars, EndOfStream, TypeOK, NoStaleEntry, Active, OwnKind, Calls
<1>5. StreamsCanEnd'
  <2>1. ASSUME Active(c)', c \notin queues
        PROVE  q'[c] # <<>> /\ q'[c][Len(q'[c])] \in {EndOfStream, LastChunk}
    <3>1. Head(q[c]) # EndOfStream /\ Head(q[c]) # LastChunk
      BY <1>0, <2>1 DEF TakeChunk, Finish, Active, TypeOK
    <3>2. q[c][Len(q[c])] \in {EndOfStream, LastChunk}
      BY <1>0, <1>2, <2>1 DEF TakeChunk, StreamsCanEnd, Active
    <3>3. Len(q[c]) # 1
      BY <1>2, <3>1, <3>2
    <3>4. q'[c][Len(q'[c])] = q[c][Len(q[c])] /\ Len(q'[c]) > 0
      <4>1. Len(q[c]) - 1 \in 1..(Len(q[c]) - 1) /\ (Len(q[c]) - 1) + 1 = Len(q[c])
        <5>1. Len(q[c]) \in Int /\ Len(q[c]) > 0 /\ Len(q[c]) # 1
          BY <1>2, <3>3
        <5>2. \A n \in Int : n > 0 /\ n # 1 => n - 1 \in 1..(n - 1) /\ (n - 1) + 1 = n
          OBVIOUS
        <5> HIDE DEF Active
        <5> QED
          BY <5>1, <5>2
      <4>2. q'[c][Len(q[c]) - 1] = q[c][Len(q[c])]
        BY <1>2, <4>1
      <4> QED
        BY <1>2, <4>1, <4>2
    <3> QED
      BY <3>2, <3>4
  <2> QED
    BY <1>0, <1>2, <2>1 DEF TakeChunk, StreamsCanEnd, Active, Calls
<1>6. OneStranded'
  BY <1>0 DEF TakeChunk, Finish, peerVars, EndOfStream, TypeOK, OneStranded, Stranded, Active
<1>7. ResultsAnswered'
  BY <1>0 DEF TakeChunk, Finish, peerVars, EndOfStream, TypeOK, ResultsAnswered
<1>8. OwnKind'
  BY <1>0 DEF TakeChunk, Finish, peerVars, EndOfStream, TypeOK, OwnKind
<1>9. Closing'
  BY <1>0 DEF TakeChunk, Finish, peerVars, EndOfStream, TypeOK, Closing
<1>10. QueueInOrder'
  <2>1. ASSUME NEW d \in Streams, d # c
        PROVE  /\ got'[d] <= answered'[d]
               /\ \A i \in DOMAIN q'[d] :
                     \/ q'[d][i] = got'[d] + i /\ q'[d][i] <= answered'[d]
                     \/ q'[d][i] = EndOfStream /\ i = Len(q'[d]) /\ d \notin queues'
    BY <1>0, <1>2, <2>1 DEF TakeChunk, QueueInOrder, peerVars, Calls
  <2>2. /\ got'[c] <= answered'[c]
        /\ \A i \in DOMAIN q'[c] :
              \/ q'[c][i] = got'[c] + i /\ q'[c][i] <= answered'[c]
              \/ q'[c][i] = EndOfStream /\ i = Len(q'[c]) /\ c \notin queues'
    <3>1. UNCHANGED <<answered, queues>>
      BY DEF TakeChunk, peerVars
    <3>2. \/ q[c][1] = got[c] + 1 /\ q[c][1] <= answered[c]
          \/ q[c][1] = EndOfStream /\ 1 = Len(q[c])
      <4>1. 1 \in DOMAIN q[c] /\ c \in Streams
        BY <1>2
      <4> QED
        BY <1>0, <4>1 DEF QueueInOrder
    <3>3. CASE q[c][1] = EndOfStream
      <4>1. Len(q[c]) = 1
        BY <1>2, <3>2, <3>3 DEF EndOfStream
      <4>2. got' = got /\ DOMAIN q'[c] = {}
        BY <1>2, <3>3, <4>1 DEF TakeChunk
      <4> QED
        BY <1>0, <1>2, <3>1, <4>2 DEF QueueInOrder
    <3>4. CASE q[c][1] # EndOfStream
      <4>1. got'[c] = q[c][1]
        BY <1>0, <1>2, <3>4 DEF TakeChunk, TypeOK
      <4>2. got'[c] = got[c] + 1 /\ got'[c] <= answered[c]
        BY <3>2, <3>4, <4>1
      <4>3. ASSUME NEW i \in DOMAIN q'[c]
            PROVE  \/ q'[c][i] = got'[c] + i /\ q'[c][i] <= answered[c]
                   \/ q'[c][i] = EndOfStream /\ i = Len(q'[c]) /\ c \notin queues
        <5>1. i \in Int /\ i + 1 \in DOMAIN q[c] /\ q'[c][i] = q[c][i + 1]
          BY <1>2
        <5>2. \/ q[c][i + 1] = got[c] + (i + 1) /\ q[c][i + 1] <= answered[c]
              \/ q[c][i + 1] = EndOfStream /\ i + 1 = Len(q[c]) /\ c \notin queues
          BY <1>0, <1>2, <5>1 DEF QueueInOrder
        <5>3. got[c] + (i + 1) = got'[c] + i
          <6>1. got[c] \in Int
            BY <1>2
          <6> QED
            BY <4>2, <5>1, <6>1
        <5>4. i + 1 = Len(q[c]) => i = Len(q'[c])
          BY <1>2, <5>1
        <5> QED
          BY <5>1, <5>2, <5>3, <5>4
      <4> QED
        BY <3>1, <4>2, <4>3
    <3> QED
      BY <3>3, <3>4
  <2> QED
    BY <2>1, <2>2 DEF QueueInOrder
<1>11. WireInOrder'
  <2>1. UNCHANGED <<queues, wire, answered, connected>>
    BY DEF TakeChunk, peerVars
  <2>2. ASSUME NEW d \in queues
        PROVE  Queued(d)' = Queued(d)
    <3>1. CASE d # c
      BY <1>0, <1>2, <3>1 DEF Queued, TypeOK, Calls
    <3>2. CASE d = c
      <4>1. got'[c] = q[c][1] /\ q[c][1] = got[c] + 1
        <5>1. 1 \in DOMAIN q[c]
          BY <1>2
        <5>2. q[c][1] = got[c] + 1 /\ Head(q[c]) = q[c][1] /\ Head(q[c]) # EndOfStream
          BY <1>0, <1>2, <3>2, <5>1, RegisteredQueue
        <5> QED
          BY <1>0, <5>2 DEF TakeChunk, TypeOK
      <4>2. got'[c] + Len(q'[c]) = got[c] + Len(q[c])
        <5>1. got[c] \in Int /\ Len(q[c]) \in Int /\ Len(q'[c]) = Len(q[c]) - 1 /\ got'[c] = got[c] + 1
          BY <1>2, <4>1
        <5> QED
          BY <5>1
      <4> QED
        BY <3>2, <4>2 DEF Queued
    <3> QED
      BY <3>1, <3>2
  <2> QED
    BY <1>0, <2>1, <2>2 DEF WireInOrder, Follow
<1> QED
  BY <1>1, <1>3, <1>4, <1>5, <1>6, <1>7, <1>8, <1>9, <1>10, <1>11 DEF IInv

LEMMA TimeoutKeeps ==
    ASSUME IInv, NEW c \in Calls, Timeout(c)
    PROVE  IInv'
<1> USE ChannelAssumption
<1> HIDE DEF Frames
<1>0. /\ TypeOK /\ Fresh /\ NoStaleEntry /\ StreamsCanEnd /\ OneStranded
      /\ ResultsAnswered /\ OwnKind /\ Closing /\ QueueInOrder /\ WireInOrder
  BY DEF IInv
<1>1. TypeOK'
  BY <1>0, TypesAfterCall DEF Call
<1>2. /\ Fresh' /\ NoStaleEntry' /\ StreamsCanEnd' /\ OneStranded'
      /\ ResultsAnswered' /\ OwnKind' /\ Closing' /\ QueueInOrder'
      /\ WireInOrder'
  BY <1>0
     DEF Timeout, Finish, peerVars, TypeOK, Fresh, NoStaleEntry, Active, StreamsCanEnd,
         OneStranded, Stranded, ResultsAnswered, OwnKind, Closing, QueueInOrder, WireInOrder,
         Follow, Queued
<1> QED
  BY <1>1, <1>2 DEF IInv

LEMMA AbandonKeeps ==
    ASSUME IInv, NEW c \in Calls, Abandon(c)
    PROVE  IInv'
<1> USE ChannelAssumption
<1> HIDE DEF Frames
<1>0. /\ TypeOK /\ Fresh /\ NoStaleEntry /\ StreamsCanEnd /\ OneStranded
      /\ ResultsAnswered /\ OwnKind /\ Closing /\ QueueInOrder /\ WireInOrder
  BY DEF IInv
<1>1. TypeOK'
  BY <1>0, TypesAfterCall DEF Call
<1>2. /\ Fresh' /\ NoStaleEntry' /\ StreamsCanEnd' /\ OneStranded'
      /\ ResultsAnswered' /\ OwnKind' /\ Closing' /\ QueueInOrder'
      /\ WireInOrder'
  BY <1>0
     DEF Abandon, Finish, peerVars, TypeOK, Fresh, NoStaleEntry, Active, StreamsCanEnd,
         OneStranded, Stranded, ResultsAnswered, OwnKind, Closing, QueueInOrder, WireInOrder,
         Follow, Queued
<1> QED
  BY <1>1, <1>2 DEF IInv

LEMMA DemuxResponseKeeps ==
    ASSUME IInv, DemuxResponse
    PROVE  IInv'
<1> USE ChannelAssumption
<1> HIDE DEF Frames
<1>0. /\ TypeOK /\ Fresh /\ NoStaleEntry /\ StreamsCanEnd /\ OneStranded
      /\ ResultsAnswered /\ OwnKind /\ Closing /\ QueueInOrder /\ WireInOrder
  BY DEF IInv
<1>1. TypeOK'
  BY <1>0, TypesAfterDemux DEF Demux
<1>2. Fresh'
  BY <1>0 DEF DemuxResponse, Reading, TypeOK, Fresh
<1>3. NoStaleEntry'
  BY <1>0 DEF DemuxResponse, Reading, TypeOK, NoStaleEntry, Active
<1>4. StreamsCanEnd'
  BY <1>0 DEF DemuxResponse, Reading, TypeOK, StreamsCanEnd, Active
<1>5. OneStranded'
  BY <1>0 DEF DemuxResponse, Reading, TypeOK, OneStranded, Stranded, Active
<1>6. ResultsAnswered'
  BY <1>0 DEF DemuxResponse, Reading, TypeOK, ResultsAnswered
<1>7. OwnKind'
  BY <1>0 DEF DemuxResponse, Reading, TypeOK, OwnKind
<1>8. Closing'
  BY <1>0 DEF DemuxResponse, Reading, TypeOK, Closing
<1>9. QueueInOrder'
  BY <1>0 DEF DemuxResponse, Reading, TypeOK, QueueInOrder
<1>10. WireInOrder'
  <2>1. \A d \in Calls, k \in 1..LastChunk : wire[1] # ChunkFrame(d, k)
    BY <1>0, WireFacts DEF DemuxResponse, Reading, ChunkFrame
  <2>2. /\ wire # <<>> /\ wire' = Tail(wire) /\ UNCHANGED <<queues, got, q, answered, connected>>
        /\ \A d \in queues : d \in Calls /\ Queued(d)' = Queued(d)
    BY <1>0 DEF DemuxResponse, Reading, callVars, Queued, TypeOK, Calls
  <2> QED
    BY <1>0, <2>1, <2>2, FollowAfterOther DEF WireInOrder
<1> QED
  BY <1>1, <1>2, <1>3, <1>4, <1>5, <1>6, <1>7, <1>8, <1>9, <1>10 DEF IInv

LEMMA DemuxChunkKeeps ==
    ASSUME IInv, DemuxChunk
    PROVE  IInv'
<1> USE ChannelAssumption
<1> HIDE DEF Frames
<1>0. /\ TypeOK /\ Fresh /\ NoStaleEntry /\ StreamsCanEnd /\ OneStranded
      /\ ResultsAnswered /\ OwnKind /\ Closing /\ QueueInOrder /\ WireInOrder
  BY DEF IInv
<1>1. TypeOK'
  BY <1>0, TypesAfterDemux DEF Demux
<1>2. \E c \in Calls, k \in 1..LastChunk :
         /\ wire # <<>> /\ wire[1] = ChunkFrame(c, k) /\ wire' = Tail(wire)
         /\ c \notin queues => UNCHANGED <<q, queues>>
         /\ c \in queues => /\ q' = [q EXCEPT ![c] = Append(@, k)]
                            /\ queues' = IF k = LastChunk THEN queues \ {c} ELSE queues
                            /\ c \in Streams /\ k = Queued(c) + 1 /\ k <= answered[c]
  <2>1. wire # <<>> /\ wire[1] \in Frames /\ wire[1].type = "chunk" /\ Head(wire) = wire[1] /\ 1 \in DOMAIN wire
    BY <1>0, WireFacts DEF DemuxChunk, Reading
  <2> DEFINE c == wire[1].id
             k == wire[1].index
  <2>2. c \in Calls /\ k \in 1..LastChunk /\ wire[1] = ChunkFrame(c, k)
    BY <2>1, FrameFields
  <2>3. /\ wire' = Tail(wire)
        /\ c \notin queues => UNCHANGED <<q, queues>>
        /\ c \in queues => /\ q' = [q EXCEPT ![c] = Append(@, k)]
                           /\ queues' = IF k = LastChunk THEN queues \ {c} ELSE queues
    BY <2>1 DEF DemuxChunk
  <2> HIDE DEF c, k, ChunkFrame
  <2>4. ASSUME c \in queues
        PROVE  c \in Streams /\ k = Queued(c) + 1 /\ k <= answered[c]
    <3>1. Follow(c)
      BY <1>0, <2>4 DEF WireInOrder
    <3>2. Queued(c) < k /\ k <= answered[c]
      BY <2>1, <2>2, <3>1 DEF Follow
    <3>3. Queued(c) + 1 < k => \E j \in DOMAIN wire : j < 1 /\ wire[j] = ChunkFrame(c, k - 1)
      BY <2>1, <2>2, <3>1 DEF Follow
    <3>4. ~(\E j \in DOMAIN wire : j < 1)
      BY <1>0, WireFacts
    <3>5. Queued(c) \in Nat
      BY <1>0, <2>2, QueueFacts
    <3>6. k = Queued(c) + 1
      BY <2>2, <3>2, <3>3, <3>4, <3>5
    <3> QED
      BY <1>0, <2>4, <3>2, <3>6 DEF TypeOK
  <2> QED
    BY <2>1, <2>2, <2>3, <2>4
<1>3. PICK c \in Calls, k \in 1..LastChunk :
         /\ wire # <<>> /\ wire[1] = ChunkFrame(c, k) /\ wire' = Tail(wire)
         /\ c \notin queues => UNCHANGED <<q, queues>>
         /\ c \in queues => /\ q' = [q EXCEPT ![c] = Append(@, k)]
                            /\ queues' = IF k = LastChunk THEN queues \ {c} ELSE queues
                            /\ c \in Streams /\ k = Queued(c) + 1 /\ k <= answered[c]
  BY <1>2
<1>4. /\ c \in queues => /\ q'[c] # <<>> /\ Len(q'[c]) = Len(q[c]) + 1 /\ Len(q[c]) \in Nat
                         /\ DOMAIN q'[c] = 1..(Len(q[c]) + 1) /\ DOMAIN q[c] = 1..Len(q[c])
                         /\ q'[c][Len(q[c]) + 1] = k
                         /\ \A i \in 1..Len(q[c]) : q'[c][i] = q[c][i]
      /\ \A d \in Calls : d # c => q'[d] = q[d] /\ (d \in queues' <=> d \in queues)
  <2>1. k \in 0..LastChunk
    OBVIOUS
  <2>2. c \in queues => q'[c] = Append(q[c], k)
    BY <1>0, <1>3 DEF TypeOK
  <2>3. \A d \in Calls : d # c => q'[d] = q[d] /\ (d \in queues' <=> d \in queues)
    BY <1>0, <1>3 DEF TypeOK
  <2>4. ASSUME c \in queues
        PROVE  /\ Append(q[c], k) # <<>> /\ Len(Append(q[c], k)) = Len(q[c]) + 1 /\ Len(q[c]) \in Nat
               /\ DOMAIN Append(q[c], k) = 1..(Len(q[c]) + 1) /\ DOMAIN q[c] = 1..Len(q[c])
               /\ Append(q[c], k)[Len(q[c]) + 1] = k
               /\ \A i \in 1..Len(q[c]) : Append(q[c], k)[i] = q[c][i]
    BY <1>0, <2>1, QueueFacts
  <2> QED
    BY <2>2, <2>3, <2>4
<1>5. NoStaleEntry' /\ OneStranded' /\ ResultsAnswered' /\ Closing'
  <2>1. /\ UNCHANGED <<closed, pending, fut, reader, closer, pc, outcome, answered>>
        /\ queues' \subseteq queues
    BY <1>3 DEF DemuxChunk
  <2>2. NoStaleEntry' /\ OneStranded' /\ Closing'
    BY <1>0, <2>1 DEF NoStaleEntry, Active, OneStranded, Stranded, Closing
  <2>3. \A i \in DOMAIN wire' : i + 1 \in DOMAIN wire /\ wire'[i] = wire[i + 1]
    BY <1>0, <1>3, WireFacts
  <2>4. ResultsAnswered'
    BY <1>0, <2>1, <2>3 DEF ResultsAnswered
  <2> QED
    BY <2>2, <2>4
<1>6. Fresh'
  <2>1. UNCHANGED <<pc, pending, fut, got, answered, outcome>>
    BY DEF DemuxChunk
  <2>2. /\ DOMAIN wire = 1..Len(wire) /\ \A i \in DOMAIN wire' : i + 1 \in DOMAIN wire /\ wire'[i] = wire[i + 1]
        /\ 1 \in DOMAIN wire
    BY <1>0, <1>3, WireFacts
  <2>3. pc[c] # "idle"
    BY <1>0, <1>3, <2>2 DEF Fresh
  <2> HIDE DEF ChunkFrame
  <2> QED
    BY <1>0, <1>4, <2>1, <2>2, <2>3 DEF Fresh
<1>7. StreamsCanEnd'
  <2>1. UNCHANGED pc
    BY DEF DemuxChunk
  <2>2. ASSUME c \in queues, c \notin queues'
        PROVE  q'[c] # <<>> /\ q'[c][Len(q'[c])] = LastChunk
    BY <1>3, <1>4, <2>2
  <2>3. c \notin queues => q'[c] = q[c]
    BY <1>3
  <2> QED
    BY <1>0, <1>3, <1>4, <2>1, <2>2, <2>3 DEF StreamsCanEnd, Active, Calls
<1>8. OwnKind'
  BY <1>0, <1>3, <1>4 DEF DemuxChunk, OwnKind, Calls, TypeOK
<1>9. QueueInOrder'
  <2>1. UNCHANGED <<got, answered>>
    BY DEF DemuxChunk
  <2>2. ASSUME NEW d \in Streams, q'[d] = q[d], d \in queues' => d \in queues
        PROVE  /\ got'[d] <= answered'[d]
               /\ \A i \in DOMAIN q'[d] :
                     \/ q'[d][i] = got'[d] + i /\ q'[d][i] <= answered'[d]
                     \/ q'[d][i] = EndOfStream /\ i = Len(q'[d]) /\ d \notin queues'
    BY <1>0, <2>1, <2>2 DEF QueueInOrder
  <2>3. ASSUME c \in queues
        PROVE  /\ got'[c] <= answered'[c]
               /\ \A i \in DOMAIN q'[c] : q'[c][i] = got'[c] + i /\ q'[c][i] <= answered'[c]
    <3>1. /\ got[c] <= answered[c]
          /\ \A i \in 1..Len(q[c]) : q[c][i] = got[c] + i /\ q[c][i] <= answered[c]
      BY <1>0, <1>3, <1>4, <2>3 DEF QueueInOrder
    <3>2. k = got[c] + (Len(q[c]) + 1) /\ k <= answered[c]
      <4>1. got[c] \in Nat /\ Len(q[c]) \in Nat
        BY <1>0, QueueFacts
      <4> QED
        BY <1>3, <2>3, <4>1 DEF Queued
    <3>3. \A i \in DOMAIN q'[c] : i \in 1..Len(q[c]) \/ i = Len(q[c]) + 1
      BY <1>4, <2>3
    <3> QED
      BY <1>4, <2>1, <2>3, <3>1, <3>2, <3>3
  <2>4. \A d \in Streams : d # c \/ c \notin queues => q'[d] = q[d] /\ (d \in queues' => d \in queues)
    BY <1>3, <1>4 DEF Calls
  <2> QED
    BY <2>2, <2>3, <2>4 DEF QueueInOrder
<1>10. WireInOrder'
  <2>1. UNCHANGED <<got, answered, connected>>
    BY DEF DemuxChunk
  <2>2. \A d \in queues' : d \in queues /\ d \in Calls
    BY <1>0, <1>3 DEF TypeOK, Calls
  <2>3. ASSUME NEW d \in queues', d # c
        PROVE  Follow(d)'
    <3>1. \A l \in 1..LastChunk : wire[1] # ChunkFrame(d, l)
      BY <1>3, <2>3 DEF ChunkFrame
    <3>2. Queued(d)' = Queued(d) /\ Follow(d)
      BY <1>0, <1>4, <2>1, <2>2, <2>3 DEF Queued, WireInOrder
    <3> QED
      BY <1>0, <1>3, <2>1, <2>2, <3>1, <3>2, FollowAfterOther
  <2>4. ASSUME c \in queues'
        PROVE  Follow(c)'
    <3>1. c \in queues /\ k # LastChunk /\ Follow(c)
      BY <1>0, <1>3, <2>2, <2>4 DEF WireInOrder
    <3>2. Queued(c) \in Nat /\ got[c] \in Nat /\ Len(q[c]) \in Nat
      BY <1>0, QueueFacts
    <3>3. Queued(c)' = Queued(c) + 1
      BY <1>4, <2>1, <3>1, <3>2 DEF Queued
    <3>4. wire[1] = ChunkFrame(c, Queued(c) + 1) /\ Queued(c) + 1 < LastChunk
      BY <1>3, <3>1, <3>2
    <3> QED
      BY <1>0, <1>3, <2>1, <3>1, <3>3, <3>4, FollowAfterOwn
  <2> QED
    BY <2>3, <2>4 DEF WireInOrder
<1> QED
  BY <1>1, <1>5, <1>6, <1>7, <1>8, <1>9, <1>10 DEF IInv

LEMMA DemuxSkippedKeeps ==
    ASSUME IInv, DemuxSkipped
    PROVE  IInv'
<1> USE ChannelAssumption
<1> HIDE DEF Frames
<1>0. /\ TypeOK /\ Fresh /\ NoStaleEntry /\ StreamsCanEnd /\ OneStranded
      /\ ResultsAnswered /\ OwnKind /\ Closing /\ QueueInOrder /\ WireInOrder
  BY DEF IInv
<1>1. TypeOK'
  BY <1>0, TypesAfterDemux DEF Demux
<1>2. /\ Fresh' /\ NoStaleEntry' /\ StreamsCanEnd' /\ OneStranded'
      /\ ResultsAnswered' /\ OwnKind' /\ Closing' /\ QueueInOrder'
  BY <1>0
     DEF DemuxSkipped, Reading, callVars, TypeOK, Fresh, NoStaleEntry, Active, StreamsCanEnd,
         OneStranded, Stranded, ResultsAnswered, OwnKind, Closing, QueueInOrder
<1>3. WireInOrder'
  <2>1. \A d \in Calls, k \in 1..LastChunk : wire[1] # ChunkFrame(d, k)
    BY <1>0, WireFacts DEF DemuxSkipped, Reading, ChunkFrame
  <2>2. /\ wire # <<>> /\ wire' = Tail(wire) /\ UNCHANGED <<queues, got, q, answered, connected>>
        /\ \A d \in queues : d \in Calls /\ Queued(d)' = Queued(d)
    BY <1>0 DEF DemuxSkipped, Reading, callVars, Queued, TypeOK, Calls
  <2> QED
    BY <1>0, <2>1, <2>2, FollowAfterOther DEF WireInOrder
<1> QED
  BY <1>1, <1>2, <1>3 DEF IInv

LEMMA DemuxStrayMalformedKeeps ==
    ASSUME IInv, DemuxStrayMalformed
    PROVE  IInv'
<1> USE ChannelAssumption
<1> HIDE DEF Frames
<1>0. /\ TypeOK /\ Fresh /\ NoStaleEntry /\ StreamsCanEnd /\ OneStranded
      /\ ResultsAnswered /\ OwnKind /\ Closing /\ QueueInOrder /\ WireInOrder
  BY DEF IInv
<1>1. TypeOK'
  BY <1>0, TypesAfterDemux DEF Demux
<1>2. /\ Fresh' /\ NoStaleEntry' /\ StreamsCanEnd' /\ OneStranded'
      /\ ResultsAnswered' /\ OwnKind' /\ Closing' /\ QueueInOrder'
  BY <1>0
     DEF DemuxStrayMalformed, Reading, callVars, TypeOK, Fresh, NoStaleEntry, Active,
         StreamsCanEnd, OneStranded, Stranded, ResultsAnswered, OwnKind, Closing, QueueInOrder
<1>3. WireInOrder'
  <2>1. \A d \in Calls, k \in 1..LastChunk : wire[1] # ChunkFrame(d, k)
    BY <1>0, WireFacts DEF DemuxStrayMalformed, Reading, ChunkFrame
  <2>2. /\ wire # <<>> /\ wire' = Tail(wire) /\ UNCHANGED <<queues, got, q, answered, connected>>
        /\ \A d \in queues : d \in Calls /\ Queued(d)' = Queued(d)
    BY <1>0 DEF DemuxStrayMalformed, Reading, callVars, Queued, TypeOK, Calls
  <2> QED
    BY <1>0, <2>1, <2>2, FollowAfterOther DEF WireInOrder
<1> QED
  BY <1>1, <1>2, <1>3 DEF IInv

LEMMA DemuxMalformedKeeps ==
    ASSUME IInv, DemuxMalformed
    PROVE  IInv'
<1> USE ChannelAssumption
<1> HIDE DEF Frames
<1>0. /\ TypeOK /\ Fresh /\ NoStaleEntry /\ StreamsCanEnd /\ OneStranded
      /\ ResultsAnswered /\ OwnKind /\ Closing /\ QueueInOrder /\ WireInOrder
  BY DEF IInv
<1>1. TypeOK'
  BY <1>0, TypesAfterDemux DEF Demux
<1>2. StreamsCanEnd' /\ QueueInOrder' /\ WireInOrder' /\ \A d \in Unary : q'[d] = <<>>
  BY <1>0, AbortKeepsQueues DEF DemuxMalformed, Reading
<1>3. /\ Fresh' /\ NoStaleEntry' /\ OneStranded' /\ ResultsAnswered'
      /\ Closing'
  BY <1>0
     DEF DemuxMalformed, Reading, TypeOK, Fresh, NoStaleEntry, Active, OneStranded, Stranded,
         ResultsAnswered, Closing
<1>4. OwnKind'
  BY <1>0, <1>2 DEF DemuxMalformed, Reading, TypeOK, OwnKind, Calls
<1> QED
  BY <1>1, <1>2, <1>3, <1>4 DEF IInv

LEMMA DemuxPoisonKeeps ==
    ASSUME IInv, DemuxPoison
    PROVE  IInv'
<1> USE ChannelAssumption
<1> HIDE DEF Frames
<1>0. /\ TypeOK /\ Fresh /\ NoStaleEntry /\ StreamsCanEnd /\ OneStranded
      /\ ResultsAnswered /\ OwnKind /\ Closing /\ QueueInOrder /\ WireInOrder
  BY DEF IInv
<1>1. TypeOK'
  BY <1>0, TypesAfterDemux DEF Demux
<1>2. StreamsCanEnd' /\ QueueInOrder' /\ WireInOrder' /\ \A d \in Unary : q'[d] = <<>>
  BY <1>0, AbortKeepsQueues DEF DemuxPoison, Reading, AbortPending
<1>3. /\ Fresh' /\ NoStaleEntry' /\ OneStranded' /\ ResultsAnswered'
      /\ Closing'
  BY <1>0
     DEF DemuxPoison, Reading, AbortPending, TypeOK, Fresh, NoStaleEntry, Active, OneStranded,
         Stranded, ResultsAnswered, Closing
<1>4. OwnKind'
  BY <1>0, <1>2 DEF DemuxPoison, Reading, AbortPending, TypeOK, OwnKind, Calls
<1> QED
  BY <1>1, <1>2, <1>3, <1>4 DEF IInv

LEMMA DemuxEndsKeeps ==
    ASSUME IInv, DemuxEnds
    PROVE  IInv'
<1> USE ChannelAssumption
<1> HIDE DEF Frames
<1>0. /\ TypeOK /\ Fresh /\ NoStaleEntry /\ StreamsCanEnd /\ OneStranded
      /\ ResultsAnswered /\ OwnKind /\ Closing /\ QueueInOrder /\ WireInOrder
  BY DEF IInv
<1>1. TypeOK'
  BY <1>0, TypesAfterDemux DEF Demux
<1>2. StreamsCanEnd' /\ QueueInOrder' /\ WireInOrder' /\ \A d \in Unary : q'[d] = <<>>
  BY <1>0, AbortKeepsQueues DEF DemuxEnds, Reading, AbortPending, peerVars
<1>3. /\ Fresh' /\ NoStaleEntry' /\ OneStranded' /\ ResultsAnswered'
      /\ Closing'
  BY <1>0
     DEF DemuxEnds, Reading, AbortPending, peerVars, TypeOK, Fresh, NoStaleEntry, Active,
         OneStranded, Stranded, ResultsAnswered, Closing
<1>4. OwnKind'
  BY <1>0, <1>2 DEF DemuxEnds, Reading, AbortPending, peerVars, TypeOK, OwnKind, Calls
<1> QED
  BY <1>1, <1>2, <1>3, <1>4 DEF IInv

LEMMA DemuxFailsKeeps ==
    ASSUME IInv, DemuxFails
    PROVE  IInv'
<1> USE ChannelAssumption
<1> HIDE DEF Frames
<1>0. /\ TypeOK /\ Fresh /\ NoStaleEntry /\ StreamsCanEnd /\ OneStranded
      /\ ResultsAnswered /\ OwnKind /\ Closing /\ QueueInOrder /\ WireInOrder
  BY DEF IInv
<1>1. TypeOK'
  BY <1>0, TypesAfterDemux DEF Demux
<1>2. StreamsCanEnd' /\ QueueInOrder' /\ WireInOrder' /\ \A d \in Unary : q'[d] = <<>>
  BY <1>0, AbortKeepsQueues DEF DemuxFails, AbortPending, peerVars
<1>3. /\ Fresh' /\ NoStaleEntry' /\ OneStranded' /\ ResultsAnswered'
      /\ Closing'
  BY <1>0
     DEF DemuxFails, AbortPending, peerVars, TypeOK, Fresh, NoStaleEntry, Active,
         OneStranded, Stranded, ResultsAnswered, Closing
<1>4. OwnKind'
  BY <1>0, <1>2 DEF DemuxFails, AbortPending, peerVars, TypeOK, OwnKind, Calls
<1> QED
  BY <1>1, <1>2, <1>3, <1>4 DEF IInv

LEMMA DemuxCancelledKeeps ==
    ASSUME IInv, DemuxCancelled
    PROVE  IInv'
<1> USE ChannelAssumption
<1> HIDE DEF Frames
<1>0. /\ TypeOK /\ Fresh /\ NoStaleEntry /\ StreamsCanEnd /\ OneStranded
      /\ ResultsAnswered /\ OwnKind /\ Closing /\ QueueInOrder /\ WireInOrder
  BY DEF IInv
<1>1. TypeOK'
  BY <1>0, TypesAfterDemux DEF Demux
<1>2. StreamsCanEnd' /\ QueueInOrder' /\ WireInOrder' /\ \A d \in Unary : q'[d] = <<>>
  BY <1>0, AbortKeepsQueues DEF DemuxCancelled, AbortPending, peerVars
<1>3. /\ Fresh' /\ NoStaleEntry' /\ OneStranded' /\ ResultsAnswered'
      /\ Closing'
  BY <1>0
     DEF DemuxCancelled, AbortPending, peerVars, TypeOK, Fresh, NoStaleEntry, Active,
         OneStranded, Stranded, ResultsAnswered, Closing
<1>4. OwnKind'
  BY <1>0, <1>2 DEF DemuxCancelled, AbortPending, peerVars, TypeOK, OwnKind, Calls
<1> QED
  BY <1>1, <1>2, <1>3, <1>4 DEF IInv

LEMMA CloseCancelsKeeps ==
    ASSUME IInv, CloseCancels
    PROVE  IInv'
<1> USE ChannelAssumption
<1> HIDE DEF Frames
<1>0. /\ TypeOK /\ Fresh /\ NoStaleEntry /\ StreamsCanEnd /\ OneStranded
      /\ ResultsAnswered /\ OwnKind /\ Closing /\ QueueInOrder /\ WireInOrder
  BY DEF IInv
<1>1. TypeOK'
  BY <1>0, TypesAfterClose DEF Close
<1>2. /\ Fresh' /\ NoStaleEntry' /\ StreamsCanEnd' /\ OneStranded'
      /\ ResultsAnswered' /\ OwnKind' /\ Closing' /\ QueueInOrder'
      /\ WireInOrder'
  BY <1>0
     DEF CloseCancels, callVars, peerVars, TypeOK, Fresh, NoStaleEntry, Active, StreamsCanEnd,
         OneStranded, Stranded, ResultsAnswered, OwnKind, Closing, QueueInOrder, WireInOrder,
         Follow, Queued
<1> QED
  BY <1>1, <1>2 DEF IInv

LEMMA CloseResumesKeeps ==
    ASSUME IInv, CloseResumes
    PROVE  IInv'
<1> USE ChannelAssumption
<1> HIDE DEF Frames
<1>0. /\ TypeOK /\ Fresh /\ NoStaleEntry /\ StreamsCanEnd /\ OneStranded
      /\ ResultsAnswered /\ OwnKind /\ Closing /\ QueueInOrder /\ WireInOrder
  BY DEF IInv
<1>1. TypeOK'
  BY <1>0, TypesAfterClose DEF Close
<1>2. StreamsCanEnd' /\ QueueInOrder' /\ WireInOrder' /\ \A d \in Unary : q'[d] = <<>>
  BY <1>0, AbortKeepsQueues DEF CloseResumes, CloseRest, AbortPending, peerVars
<1>3. /\ Fresh' /\ NoStaleEntry' /\ OneStranded' /\ ResultsAnswered'
      /\ Closing'
  BY <1>0
     DEF CloseResumes, CloseRest, AbortPending, peerVars, TypeOK, Fresh, NoStaleEntry, Active,
         OneStranded, Stranded, ResultsAnswered, Closing
<1>4. OwnKind'
  BY <1>0, <1>2 DEF CloseResumes, CloseRest, AbortPending, peerVars, TypeOK, OwnKind, Calls
<1> QED
  BY <1>1, <1>2, <1>3, <1>4 DEF IInv

LEMMA CloseAtOnceKeeps ==
    ASSUME IInv, CloseAtOnce
    PROVE  IInv'
<1> USE ChannelAssumption
<1> HIDE DEF Frames
<1>0. /\ TypeOK /\ Fresh /\ NoStaleEntry /\ StreamsCanEnd /\ OneStranded
      /\ ResultsAnswered /\ OwnKind /\ Closing /\ QueueInOrder /\ WireInOrder
  BY DEF IInv
<1>1. TypeOK'
  BY <1>0, TypesAfterClose DEF Close
<1>2. StreamsCanEnd' /\ QueueInOrder' /\ WireInOrder' /\ \A d \in Unary : q'[d] = <<>>
  BY <1>0, AbortKeepsQueues DEF CloseAtOnce, CloseRest, AbortPending, peerVars
<1>3. /\ Fresh' /\ NoStaleEntry' /\ OneStranded' /\ ResultsAnswered'
      /\ Closing'
  BY <1>0
     DEF CloseAtOnce, CloseRest, AbortPending, peerVars, TypeOK, Fresh, NoStaleEntry, Active,
         OneStranded, Stranded, ResultsAnswered, Closing
<1>4. OwnKind'
  BY <1>0, <1>2 DEF CloseAtOnce, CloseRest, AbortPending, peerVars, TypeOK, OwnKind, Calls
<1> QED
  BY <1>1, <1>2, <1>3, <1>4 DEF IInv

LEMMA CloseRaisesKeeps ==
    ASSUME IInv, CloseRaises
    PROVE  IInv'
<1> USE ChannelAssumption
<1> HIDE DEF Frames
<1>0. /\ TypeOK /\ Fresh /\ NoStaleEntry /\ StreamsCanEnd /\ OneStranded
      /\ ResultsAnswered /\ OwnKind /\ Closing /\ QueueInOrder /\ WireInOrder
  BY DEF IInv
<1>1. TypeOK'
  BY <1>0, TypesAfterClose DEF Close
<1>2. /\ Fresh' /\ NoStaleEntry' /\ StreamsCanEnd' /\ OneStranded'
      /\ ResultsAnswered' /\ OwnKind' /\ Closing' /\ QueueInOrder'
      /\ WireInOrder'
  BY <1>0
     DEF CloseRaises, callVars, peerVars, TypeOK, Fresh, NoStaleEntry, Active, StreamsCanEnd,
         OneStranded, Stranded, ResultsAnswered, OwnKind, Closing, QueueInOrder, WireInOrder,
         Follow, Queued
<1> QED
  BY <1>1, <1>2 DEF IInv

LEMMA PeerRespondsKeeps ==
    ASSUME IInv, PeerResponds
    PROVE  IInv'
<1> USE ChannelAssumption
<1> HIDE DEF Frames
<1>0. /\ TypeOK /\ Fresh /\ NoStaleEntry /\ StreamsCanEnd /\ OneStranded
      /\ ResultsAnswered /\ OwnKind /\ Closing /\ QueueInOrder /\ WireInOrder
  BY DEF IInv
<1>1. TypeOK'
  BY <1>0, TypesAfterPeer DEF Peer
<1>2. \E f \in Frames :
         /\ f.type # "chunk" /\ Put(f) /\ f.id \in Calls
         /\ pc[f.id] # "idle"
         /\ answered' = [answered EXCEPT ![f.id] = IF f.type = "response" /\ f.id \in Unary THEN 1 ELSE @]
  BY DEF PeerResponds, Frames, RoutedFrames, Calls
<1>3. PICK f \in Frames :
         /\ f.type # "chunk" /\ Put(f) /\ f.id \in Calls
         /\ pc[f.id] # "idle"
         /\ answered' = [answered EXCEPT ![f.id] = IF f.type = "response" /\ f.id \in Unary THEN 1 ELSE @]
  BY <1>2
<1>4. /\ DOMAIN wire = 1..Len(wire) /\ Len(wire) \in Nat /\ DOMAIN wire' = 1..(Len(wire) + 1)
      /\ wire'[Len(wire) + 1] = f /\ wire' = Append(wire, f)
      /\ \A i \in DOMAIN wire : wire'[i] = wire[i]
      /\ \A d \in Calls, k \in 1..LastChunk : f # ChunkFrame(d, k)
  <2>1. wire' = Append(wire, f)
    BY <1>3 DEF Put
  <2>2. \A d \in Calls, k \in 1..LastChunk : f # ChunkFrame(d, k)
    BY <1>3 DEF ChunkFrame
  <2> QED
    BY <1>0, <2>1, <2>2, AppendFrame
<1>5. /\ NoStaleEntry' /\ StreamsCanEnd' /\ OneStranded' /\ ResultsAnswered'
      /\ OwnKind' /\ Closing' /\ QueueInOrder'
  BY <1>0
     DEF PeerResponds, Put, callVars, TypeOK, NoStaleEntry, Active, StreamsCanEnd, OneStranded,
         Stranded, ResultsAnswered, OwnKind, Closing, QueueInOrder
<1>6. Fresh'
  <2>1. UNCHANGED <<pc, pending, queues, fut, q, got, outcome>>
    BY <1>3 DEF Put, callVars
  <2>2. \A d \in Calls : pc[d] = "idle" => answered'[d] = answered[d]
    BY <1>0, <1>3 DEF TypeOK
  <2>3. \A i \in DOMAIN wire' : i \in DOMAIN wire \/ i = Len(wire) + 1
    BY <1>4
  <2> HIDE DEF ChunkFrame
  <2> QED
    BY <1>0, <1>4, <2>1, <2>2, <2>3 DEF Fresh
<1>7. WireInOrder'
  <2>1. /\ UNCHANGED <<queues, got, q, connected>>
        /\ \A d \in queues : d \in Streams /\ d \in Calls /\ Queued(d)' = Queued(d)
    BY <1>0, <1>3 DEF Put, callVars, Queued, TypeOK, Calls
  <2>2. \A d \in Streams : answered'[d] = answered[d]
    BY <1>0, <1>3, ChannelAssumption DEF TypeOK, Calls
  <2> QED
    BY <1>0, <1>4, <2>1, <2>2, FollowAfterSend DEF WireInOrder
<1> QED
  BY <1>1, <1>5, <1>6, <1>7 DEF IInv

LEMMA PeerStreamsKeeps ==
    ASSUME IInv, PeerStreams
    PROVE  IInv'
<1> USE ChannelAssumption
<1> HIDE DEF Frames
<1>0. /\ TypeOK /\ Fresh /\ NoStaleEntry /\ StreamsCanEnd /\ OneStranded
      /\ ResultsAnswered /\ OwnKind /\ Closing /\ QueueInOrder /\ WireInOrder
  BY DEF IInv
<1>1. TypeOK'
  BY <1>0, TypesAfterPeer DEF Peer
<1>2. /\ Fresh' /\ NoStaleEntry' /\ StreamsCanEnd' /\ OneStranded'
      /\ ResultsAnswered' /\ OwnKind' /\ Closing' /\ QueueInOrder'
  BY <1>0
     DEF PeerStreams, Put, callVars, ChunkFrame, TypeOK, Fresh, NoStaleEntry, Active,
         StreamsCanEnd, OneStranded, Stranded, ResultsAnswered, OwnKind, Closing, QueueInOrder
<1>3. WireInOrder'
  <2>1. PICK c \in Streams :
          /\ answered[c] < LastChunk
          /\ Put(ChunkFrame(c, answered[c] + 1))
          /\ answered' = [answered EXCEPT ![c] = @ + 1]
    BY DEF PeerStreams, ChunkFrame
  <2>2. /\ connected /\ wire' = Append(wire, ChunkFrame(c, answered[c] + 1))
        /\ UNCHANGED <<queues, got, q, connected>>
        /\ \A d \in queues : d \in Calls /\ Queued(d)' = Queued(d)
    BY <1>0, <2>1 DEF Put, callVars, Queued, TypeOK, Calls
  <2>3. c \in Calls /\ answered[c] + 1 \in 1..LastChunk
    BY <1>0, <2>1 DEF TypeOK, Calls
  <2>4. ChunkFrame(c, answered[c] + 1) \in Frames
    BY <2>3 DEF Frames, RoutedFrames, ChunkFrame
  <2>5. /\ answered'[c] = answered[c] + 1
        /\ \A d \in Calls : d # c => answered'[d] = answered[d]
    BY <1>0, <2>1, <2>3 DEF TypeOK
  <2>6. \A d \in Calls, k \in 1..LastChunk : d # c => ChunkFrame(c, answered[c] + 1) # ChunkFrame(d, k)
    BY DEF ChunkFrame
  <2>7. ASSUME NEW d \in queues
        PROVE  Follow(d)'
    <3>1. CASE d = c
      BY <1>0, <2>1, <2>2, <2>4, <2>5, <2>7, <3>1, FollowAfterChunk DEF WireInOrder
    <3>2. CASE d # c
      BY <1>0, <2>2, <2>4, <2>5, <2>6, <2>7, <3>2, FollowAfterSend DEF WireInOrder
    <3> QED
      BY <3>1, <3>2
  <2> QED
    BY <2>2, <2>7 DEF WireInOrder
<1> QED
  BY <1>1, <1>2, <1>3 DEF IInv

LEMMA PeerBabblesKeeps ==
    ASSUME IInv, PeerBabbles
    PROVE  IInv'
<1> USE ChannelAssumption
<1> HIDE DEF Frames
<1>0. /\ TypeOK /\ Fresh /\ NoStaleEntry /\ StreamsCanEnd /\ OneStranded
      /\ ResultsAnswered /\ OwnKind /\ Closing /\ QueueInOrder /\ WireInOrder
  BY DEF IInv
<1>1. TypeOK'
  BY <1>0, TypesAfterPeer DEF Peer
<1>2. \E f \in Frames : f.type \notin {"chunk", "response"} /\ Put(f) /\ UNCHANGED answered
  BY DEF PeerBabbles, Frames, OtherFrames
<1>3. PICK f \in Frames : f.type \notin {"chunk", "response"} /\ Put(f) /\ UNCHANGED answered
  BY <1>2
<1>4. /\ DOMAIN wire = 1..Len(wire) /\ Len(wire) \in Nat /\ DOMAIN wire' = 1..(Len(wire) + 1)
      /\ wire'[Len(wire) + 1] = f /\ wire' = Append(wire, f)
      /\ \A i \in DOMAIN wire : wire'[i] = wire[i]
      /\ \A d \in Calls, k \in 1..LastChunk : f # ChunkFrame(d, k)
  <2>1. wire' = Append(wire, f)
    BY <1>3 DEF Put
  <2>2. \A d \in Calls, k \in 1..LastChunk : f # ChunkFrame(d, k)
    BY <1>3 DEF ChunkFrame
  <2> QED
    BY <1>0, <2>1, <2>2, AppendFrame
<1>5. /\ NoStaleEntry' /\ StreamsCanEnd' /\ OneStranded' /\ OwnKind'
      /\ Closing' /\ QueueInOrder'
  BY <1>0
     DEF PeerBabbles, Put, callVars, ChunkFrame, TypeOK, NoStaleEntry, Active, StreamsCanEnd,
         OneStranded, Stranded, OwnKind, Closing, QueueInOrder
<1>6. Fresh'
  <2>1. UNCHANGED <<pc, pending, queues, fut, q, got, outcome>>
    BY <1>3 DEF Put, callVars
  <2>2. \A d \in Calls : pc[d] = "idle" => answered'[d] = answered[d]
    BY <1>0, <1>3 DEF TypeOK
  <2>3. \A i \in DOMAIN wire' : i \in DOMAIN wire \/ i = Len(wire) + 1
    BY <1>4
  <2> HIDE DEF ChunkFrame
  <2> QED
    BY <1>0, <1>4, <2>1, <2>2, <2>3 DEF Fresh
<1>7. ResultsAnswered'
  <2>1. UNCHANGED <<fut, answered>>
    BY <1>3 DEF Put, callVars
  <2>2. \A i \in DOMAIN wire' : wire'[i].type = "response" => i \in DOMAIN wire /\ wire'[i] = wire[i]
    BY <1>3, <1>4
  <2> QED
    BY <1>0, <2>1, <2>2 DEF ResultsAnswered
<1>8. WireInOrder'
  <2>1. /\ UNCHANGED <<queues, got, q, connected>>
        /\ \A d \in queues : d \in Streams /\ d \in Calls /\ Queued(d)' = Queued(d)
    BY <1>0, <1>3 DEF Put, callVars, Queued, TypeOK, Calls
  <2>2. \A d \in Streams : answered'[d] = answered[d]
    BY <1>0, <1>3, ChannelAssumption DEF TypeOK, Calls
  <2> QED
    BY <1>0, <1>4, <2>1, <2>2, FollowAfterSend DEF WireInOrder
<1> QED
  BY <1>1, <1>5, <1>6, <1>7, <1>8 DEF IInv

LEMMA DisconnectKeeps ==
    ASSUME IInv, Disconnect
    PROVE  IInv'
<1> USE ChannelAssumption
<1> HIDE DEF Frames
<1>0. /\ TypeOK /\ Fresh /\ NoStaleEntry /\ StreamsCanEnd /\ OneStranded
      /\ ResultsAnswered /\ OwnKind /\ Closing /\ QueueInOrder /\ WireInOrder
  BY DEF IInv
<1>1. TypeOK'
  BY <1>0, TypesAfterPeer DEF Peer
<1>2. /\ Fresh' /\ NoStaleEntry' /\ StreamsCanEnd' /\ OneStranded'
      /\ ResultsAnswered' /\ OwnKind' /\ Closing' /\ QueueInOrder'
  BY <1>0
     DEF Disconnect, callVars, TypeOK, Fresh, NoStaleEntry, Active, StreamsCanEnd, OneStranded,
         Stranded, ResultsAnswered, OwnKind, Closing, QueueInOrder
<1>3. WireInOrder'
  <2>1. PICK n \in 0..Len(wire) : wire' = SubSeq(wire, 1, n)
    BY DEF Disconnect
  <2>2. /\ UNCHANGED <<queues, got, q, answered>> /\ ~connected'
        /\ \A d \in queues : d \in Calls /\ Queued(d)' = Queued(d)
    BY <1>0 DEF Disconnect, callVars, Queued, TypeOK, Calls
  <2> QED
    BY <1>0, <2>1, <2>2, FollowAfterDisconnect DEF WireInOrder
<1> QED
  BY <1>1, <1>2, <1>3 DEF IInv

----------------------------------------------------------------------------
(* The theorems.                                                           *)

LEMMA InitHolds == Init => IInv
<1> SUFFICES ASSUME Init PROVE IInv
  OBVIOUS
<1> USE ChannelAssumption
<1>1. TypeOK
  <2> HIDE DEF Frames
  <2>1. wire \in Seq(Frames) /\ \A c \in Calls : q[c] \in Seq(0..LastChunk)
    BY DEF Init
  <2>2. 0 \in 0..LastChunk /\ 0 \in 0..MaxFrames /\ 0 \in 0..MaxCancels
    OBVIOUS
  <2>3. /\ fut \in [Calls -> Futures] /\ pc \in [Calls -> CallStates] /\ outcome \in [Calls -> Outcomes]
        /\ got \in [Calls -> 0..LastChunk] /\ answered \in [Calls -> 0..LastChunk]
        /\ q \in [Calls -> Seq(0..LastChunk)]
    BY <2>1, <2>2 DEF Init, Futures, CallStates, Outcomes
  <2> QED
    BY <2>1, <2>2, <2>3 DEF Init, TypeOK
<1>2. DOMAIN wire = {} /\ \A c \in Calls : DOMAIN q[c] = {}
  BY DEF Init
<1>3. Fresh
  BY <1>2 DEF Init, Fresh
<1>4. NoStaleEntry /\ OneStranded /\ OwnKind /\ Closing /\ WireInOrder
  BY DEF Init, NoStaleEntry, OneStranded, Stranded, Active, OwnKind, Closing, WireInOrder, Calls
<1>5. StreamsCanEnd /\ ResultsAnswered /\ QueueInOrder
  BY <1>2 DEF Init, StreamsCanEnd, Active, ResultsAnswered, QueueInOrder, Calls
<1> QED
  BY <1>1, <1>3, <1>4, <1>5 DEF IInv

LEMMA StutterKeeps ==
    ASSUME IInv, UNCHANGED vars
    PROVE  IInv'
<1> USE DEF vars, callVars, peerVars
<1> HIDE DEF Frames
<1>1. TypeOK' /\ Fresh' /\ NoStaleEntry' /\ StreamsCanEnd' /\ OneStranded'
  BY DEF IInv, TypeOK, Fresh, NoStaleEntry, StreamsCanEnd, OneStranded, Stranded, Active
<1>2. ResultsAnswered' /\ OwnKind' /\ Closing' /\ QueueInOrder' /\ WireInOrder'
  BY DEF IInv, ResultsAnswered, OwnKind, Closing, QueueInOrder, WireInOrder, Follow, Queued
<1> QED
  BY <1>1, <1>2 DEF IInv

LEMMA StepKeeps ==
    ASSUME IInv, [Next]_vars
    PROVE  IInv'
<1>1. CASE UNCHANGED vars
  BY <1>1, StutterKeeps
<1>2. CASE \E c \in Calls : Call(c)
  BY <1>2, RefuseKeeps, RegisterKeeps, UnsentKeeps, SentKeeps, SendFailsKeeps, ReturnKeeps, TakeChunkKeeps,
     TimeoutKeeps, AbandonKeeps DEF Call
<1>3. CASE Demux
  BY <1>3, DemuxResponseKeeps, DemuxChunkKeeps, DemuxSkippedKeeps, DemuxStrayMalformedKeeps,
     DemuxMalformedKeeps, DemuxPoisonKeeps, DemuxEndsKeeps, DemuxFailsKeeps, DemuxCancelledKeeps
     DEF Demux
<1>4. CASE Close
  BY <1>4, CloseCancelsKeeps, CloseResumesKeeps, CloseAtOnceKeeps, CloseRaisesKeeps DEF Close
<1>5. CASE Peer
  BY <1>5, PeerRespondsKeeps, PeerStreamsKeeps, PeerBabblesKeeps, DisconnectKeeps DEF Peer
<1> QED
  BY <1>1, <1>2, <1>3, <1>4, <1>5 DEF Next

LEMMA Invariance == Spec => []IInv
  BY InitHolds, StepKeeps, PTL DEF Spec

\* Every variable keeps its type, for any number of calls, chunks and frames.
THEOREM TypeCorrectness == Spec => []TypeOK
<1>1. IInv => TypeOK
  BY DEF IInv
<1> QED
  BY Invariance, <1>1, PTL

\* A call that nothing but its timer ends was forgotten, or registered with a read
\* task that had failed.
LEMMA LeftAloneFacts ==
    ASSUME StreamsCanEnd, NEW c \in Calls, LeftAlone(c), c \notin pending \cup queues
    PROVE  Stranded(c)
  BY DEF StreamsCanEnd, LeftAlone, HasEnd, Stranded, Calls

\* Until the read task fails every call in progress can be ended from outside it;
\* afterwards those that register later cannot, and at most one of the others.
THEOREM CallsCanEnd == Spec => []EveryCallCanEnd
<1>1. IInv => EveryCallCanEnd
  BY LeftAloneFacts DEF IInv, OneStranded, EveryCallCanEnd, LeftAlone
<1> QED
  BY Invariance, <1>1, PTL

\* The step in which the read task fails leaves nothing registered.
LEMMA FailureAborts ==
    ASSUME [Next]_vars, reader # "failed", reader' = "failed"
    PROVE  pending' = {} /\ queues' = {}
<1>1. Demux
  BY DEF Next, vars, Call, Refuse, Register, Unsent, Sent, SendFails, Return, TakeChunk, Timeout,
         Abandon, Close, CloseCancels, CloseResumes, CloseAtOnce, CloseRaises,
         Peer, PeerResponds, PeerStreams, PeerBabbles, Disconnect, Put
<1>2. DemuxMalformed \/ DemuxPoison \/ DemuxFails
  BY <1>1 DEF Demux, DemuxResponse, DemuxChunk, DemuxSkipped, DemuxStrayMalformed, DemuxEnds,
              DemuxCancelled
<1> QED
  BY <1>2 DEF DemuxMalformed, DemuxPoison, DemuxFails, AbortPending

\* When the read task fails, the calls in progress are told, but for one at most.
THEOREM FailuresReachCallers == Spec => FailureReachesCallers
<1> DEFINE Told == reader # "failed" /\ reader' = "failed" =>
                      \A c, d \in Calls : LeftAlone(c)' /\ LeftAlone(d)' => c = d
<1>1. ASSUME IInv, [Next]_vars
      PROVE  Told
  <2> SUFFICES ASSUME reader # "failed", reader' = "failed",
                      NEW c \in Calls, NEW d \in Calls, LeftAlone(c)', LeftAlone(d)'
               PROVE  c = d
    OBVIOUS
  <2>1. StreamsCanEnd' /\ OneStranded'
    BY <1>1, StepKeeps DEF IInv
  <2>2. pending' = {} /\ queues' = {}
    BY <1>1, FailureAborts
  <2>3. ASSUME NEW b \in Calls, LeftAlone(b)'
        PROVE  Stranded(b)'
    BY <2>1, <2>2, <2>3 DEF StreamsCanEnd, LeftAlone, HasEnd, Stranded, Active, Calls
  <2> QED
    BY <2>1, <2>3 DEF OneStranded
<1>2. Spec => [][Told]_vars
  BY <1>1, Invariance, PTL DEF Spec
<1> QED
  BY <1>2 DEF FailureReachesCallers

\* The tables hold no entry of a call that was answered, timed out or ended.
THEOREM TablesAreClean == Spec => []NoStaleEntry
<1>1. IInv => NoStaleEntry
  BY DEF IInv
<1> QED
  BY Invariance, <1>1, PTL

\* A channel whose close() got past the read task has nothing registered and
\* stays so.
THEOREM ClosedIsEmpty == Spec => []ClosedMeansEmpty
<1>1. IInv => ClosedMeansEmpty
  BY DEF IInv, Closing, ClosedMeansEmpty
<1> QED
  BY Invariance, <1>1, PTL

\* No step changes a future that is done.
LEMMA StepSetsOnce ==
    ASSUME IInv, [Next]_vars, NEW c \in Calls, fut[c] \notin {"none", "pending"}
    PROVE  fut'[c] = fut[c]
<1>0. /\ pc[c] # "idle" /\ fut \in [Calls -> Futures] /\ pending \subseteq Calls
  BY DEF IInv, Fresh, TypeOK, Calls
<1>1. CASE UNCHANGED vars
  BY <1>1 DEF vars, callVars
<1>2. CASE \E d \in Calls : Call(d)
  BY <1>0, <1>2 DEF Call, Refuse, Register, Unsent, Sent, SendFails, Return, TakeChunk, Timeout,
                       Abandon, Finish
<1>3. CASE Demux
  <2>1. CASE DemuxResponse
    BY <1>0, <2>1 DEF DemuxResponse
  <2>2. CASE Demux /\ ~DemuxResponse
    BY <1>0, <1>3, <2>2
       DEF Demux, DemuxChunk, DemuxSkipped, DemuxStrayMalformed, DemuxMalformed, DemuxPoison,
           DemuxEnds, DemuxFails, DemuxCancelled, AbortPending, callVars
  <2> QED
    BY <1>3, <2>1, <2>2
<1>4. CASE Close
  BY <1>0, <1>4 DEF Close, CloseCancels, CloseResumes, CloseAtOnce, CloseRaises, CloseRest,
                    AbortPending, callVars
<1>5. CASE Peer
  BY <1>5 DEF Peer, PeerResponds, PeerStreams, PeerBabbles, Disconnect, Put, callVars
<1> QED
  BY <1>1, <1>2, <1>3, <1>4, <1>5 DEF Next

\* A future gets one result, whatever the frames, the timers and close() do.
THEOREM OneResult == Spec => FutureSetOnce
<1> DEFINE Once == \A c \in Calls : fut[c] \notin {"none", "pending"} => fut'[c] = fut[c]
<1>1. ASSUME IInv, [Next]_vars
      PROVE  Once
  BY <1>1, StepSetsOnce
<1>2. Spec => [][Once]_vars
  BY <1>1, Invariance, PTL DEF Spec
<1> QED
  BY <1>2 DEF FutureSetOnce

----------------------------------------------------------------------------
(* The channel implements Requests.                                        *)

\* A step of one call shows as a change of that call's state alone.
LEMMA SeenChange ==
    ASSUME NEW c \in Calls, NEW st,
           st = CASE pc'[c] = "idle" -> "new" [] pc'[c] = "done" -> outcome'[c] [] OTHER -> "open",
           \A d \in Calls : d # c => pc'[d] = pc[d] /\ outcome'[d] = outcome[d]
    PROVE  Seen!Become(c, st)
  BY DEF Seen!Become, SeenState

\* A call that ends shows as ended.
LEMMA SeenFinish ==
    ASSUME TypeOK, NEW c \in Calls, NEW how, Finish(c, how)
    PROVE  Seen!Become(c, how)
<1>1. /\ pc'[c] = "done" /\ outcome'[c] = how
      /\ \A d \in Calls : d # c => pc'[d] = pc[d] /\ outcome'[d] = outcome[d]
  BY DEF TypeOK, Finish
<1> QED
  BY <1>1, SeenChange

LEMMA CallImplementsRequests ==
    ASSUME IInv, NEW c \in Calls, Call(c)
    PROVE  [Seen!Next]_<<SeenState, answered, got>>
<1>0. TypeOK /\ Fresh /\ ResultsAnswered /\ OwnKind /\ QueueInOrder /\ c \in Seen!All
  BY DEF IInv, Seen!All, Calls
<1>1. CASE Refuse(c)
  <2>1. Seen!Become(c, "refused") /\ SeenState[c] = "new" /\ UNCHANGED <<answered, got>>
    BY <1>0, <1>1, SeenFinish DEF Refuse, SeenState, peerVars
  <2> QED
    BY <1>0, <2>1 DEF Seen!Next, Seen!Begin
<1>2. CASE Register(c)
  <2>1. /\ pc'[c] = "sending" /\ SeenState[c] = "new" /\ UNCHANGED <<answered, got, outcome>>
        /\ \A d \in Calls : d # c => pc'[d] = pc[d]
    BY <1>0, <1>2 DEF Register, SeenState, peerVars, TypeOK
  <2>2. Seen!Become(c, "open")
    BY <2>1, SeenChange
  <2> QED
    BY <1>0, <2>1, <2>2 DEF Seen!Next, Seen!Begin
<1>7. CASE Unsent(c)
  <2>1. Seen!Become(c, "unsent") /\ SeenState[c] = "new" /\ UNCHANGED <<answered, got>>
    BY <1>0, <1>7, SeenFinish DEF Unsent, SeenState, peerVars
  <2> QED
    BY <1>0, <2>1 DEF Seen!Next, Seen!Begin
<1>3. CASE Sent(c)
  BY <1>0, <1>3 DEF Sent, SeenState, peerVars, TypeOK
<1>4. CASE SendFails(c) \/ Timeout(c) \/ Abandon(c)
  <2>1. \E why \in {"senderror", "timeout", "cancelled"} : Seen!Become(c, why)
    BY <1>0, <1>4, SeenFinish DEF SendFails, Timeout, Abandon
  <2>2. SeenState[c] = "open" /\ UNCHANGED <<answered, got>>
    BY <1>4 DEF SendFails, Timeout, Abandon, SeenState, peerVars
  <2> QED
    BY <1>0, <2>1, <2>2 DEF Seen!Next, Seen!Fail
<1>5. CASE Return(c)
  <2>1. SeenState[c] = "open" /\ UNCHANGED <<answered, got>>
    BY <1>5 DEF Return, SeenState, peerVars
  <2>2. CASE fut[c] = "result" /\ Finish(c, "response")
    <3>1. c \in Unary /\ answered[c] = 1 /\ Seen!Become(c, "response")
      BY <1>0, <2>2, SeenFinish DEF ResultsAnswered
    <3> QED
      BY <1>0, <2>1, <3>1 DEF Seen!Next, Seen!Respond
  <2>3. CASE fut[c] = "reset" /\ Finish(c, "reset")
    <3>1. c \in Unary /\ Seen!Become(c, "reset")
      BY <1>0, <2>3, SeenFinish DEF OwnKind, Calls
    <3> QED
      BY <1>0, <2>1, <3>1 DEF Seen!Next, Seen!Fail
  <2> QED
    BY <1>5, <2>2, <2>3 DEF Return
<1>6. CASE TakeChunk(c)
  <2>1. c \in Streams /\ SeenState[c] = "open" /\ UNCHANGED answered
    BY <1>0, <1>6 DEF TakeChunk, SeenState, peerVars, OwnKind, Calls
  <2>2. CASE Head(q[c]) = EndOfStream
    <3>1. Seen!Become(c, "ended") /\ UNCHANGED got
      BY <1>0, <1>6, <2>2, SeenFinish DEF TakeChunk
    <3> QED
      BY <1>0, <2>1, <3>1 DEF Seen!Next, Seen!Fail
  <2>3. CASE Head(q[c]) # EndOfStream
    <3>1. Head(q[c]) = q[c][1] /\ 1 \in DOMAIN q[c] /\ got[c] \in Nat /\ answered[c] \in Int
      BY <1>0, <1>6, QueueFacts DEF TakeChunk
    <3>2. Head(q[c]) = got[c] + 1 /\ Head(q[c]) <= answered[c]
      BY <1>0, <2>1, <2>3, <3>1 DEF QueueInOrder
    <3>3. got' = [got EXCEPT ![c] = @ + 1] /\ got[c] < answered[c]
      BY <1>6, <2>3, <3>1, <3>2 DEF TakeChunk
    <3>4. CASE got[c] + 1 = LastChunk
      BY <1>0, <1>6, <2>1, <2>3, <3>2, <3>3, <3>4, SeenFinish DEF TakeChunk, Seen!Next, Seen!Take
    <3>5. CASE got[c] + 1 # LastChunk
      <4>1. UNCHANGED <<pc, outcome>>
        BY <1>6, <2>3, <3>2, <3>5 DEF TakeChunk
      <4>2. UNCHANGED SeenState
        BY <4>1 DEF SeenState
      <4> QED
        BY <1>0, <2>1, <3>3, <3>5, <4>2 DEF Seen!Next, Seen!Take
    <3> QED
      BY <3>4, <3>5
  <2> QED
    BY <2>2, <2>3
<1> QED
  BY <1>1, <1>2, <1>3, <1>4, <1>5, <1>6, <1>7 DEF Call

LEMMA PeerImplementsRequests ==
    ASSUME IInv, Peer
    PROVE  [Seen!Next]_<<SeenState, answered, got>>
<1>0. TypeOK /\ ResultsAnswered
  BY DEF IInv
<1>1. UNCHANGED <<SeenState, got>>
  BY DEF Peer, PeerResponds, PeerStreams, PeerBabbles, Disconnect, Put, callVars, SeenState
<1>2. \A c \in Calls : pc[c] # "idle" /\ outcome[c] \notin {"refused", "unsent"} =>
         SeenState[c] \notin {"new", "refused", "unsent"}
  BY <1>0 DEF SeenState, TypeOK, Outcomes
<1>3. ASSUME NEW c \in Calls, pc[c] # "idle", outcome[c] \notin {"refused", "unsent"},
             answered[c] < (IF c \in Unary THEN 1 ELSE LastChunk),
             answered' = [answered EXCEPT ![c] = @ + 1]
      PROVE  Seen!Next
  BY <1>1, <1>2, <1>3 DEF Seen!Next, Seen!Send, Seen!All, Calls
<1>4. CASE PeerResponds
  <2>1. PICK f \in [type : {"response"}, id : Calls] \cup [type : {"malformed"}, id : Unary] :
           /\ pc[f.id] # "idle" /\ outcome[f.id] \notin {"refused", "unsent"}
           /\ answered' = [answered EXCEPT ![f.id] =
                              IF f.type = "response" /\ f.id \in Unary THEN 1 ELSE @]
    BY <1>4 DEF PeerResponds
  <2>2. f.id \in Calls
    BY DEF Calls
  <2>3. CASE f.type = "response" /\ f.id \in Unary /\ answered[f.id] # 1
    <3>1. answered[f.id] = 0
      <4>1. answered[f.id] \in 0..LastChunk /\ LastChunk \in Nat
        BY <1>0, <2>2, ChannelAssumption DEF TypeOK
      <4>2. answered[f.id] <= 1 /\ answered[f.id] # 1
        BY <1>0, <2>3 DEF ResultsAnswered
      <4> QED
        BY <4>1, <4>2
    <3>2. answered' = [answered EXCEPT ![f.id] = @ + 1]
      BY <2>1, <2>3, <3>1
    <3>3. answered[f.id] < (IF f.id \in Unary THEN 1 ELSE LastChunk)
      BY <2>3, <3>1
    <3> DEFINE c == f.id
    <3>4. /\ c \in Calls /\ pc[c] # "idle" /\ outcome[c] \notin {"refused", "unsent"}
          /\ answered[c] < (IF c \in Unary THEN 1 ELSE LastChunk)
          /\ answered' = [answered EXCEPT ![c] = @ + 1]
      BY <2>1, <2>2, <3>2, <3>3
    <3> HIDE DEF c
    <3> QED
      BY <1>3, <3>4
  <2>4. CASE ~(f.type = "response" /\ f.id \in Unary /\ answered[f.id] # 1)
    BY <1>0, <1>1, <2>1, <2>4 DEF TypeOK
  <2> QED
    BY <2>3, <2>4
<1>5. CASE PeerStreams
  <2>1. PICK c \in Streams : /\ pc[c] # "idle" /\ outcome[c] \notin {"refused", "unsent"}
                             /\ answered[c] < LastChunk
                             /\ answered' = [answered EXCEPT ![c] = @ + 1]
    BY <1>5 DEF PeerStreams
  <2>2. c \in Calls /\ c \notin Unary
    BY ChannelAssumption DEF Calls
  <2> QED
    BY <1>3, <2>1, <2>2
<1>6. CASE PeerBabbles \/ Disconnect
  BY <1>1, <1>6 DEF PeerBabbles, Disconnect
<1> QED
  BY <1>4, <1>5, <1>6 DEF Peer

LEMMA StepImplementsRequests ==
    ASSUME IInv, [Next]_vars
    PROVE  [Seen!Next]_<<SeenState, answered, got>>
<1>1. CASE UNCHANGED vars
  BY <1>1 DEF vars, callVars, peerVars, SeenState
<1>2. CASE Demux
  BY <1>2 DEF Demux, DemuxResponse, DemuxChunk, DemuxSkipped, DemuxStrayMalformed, DemuxMalformed,
              DemuxPoison, DemuxEnds, DemuxFails, DemuxCancelled, callVars, peerVars, SeenState
<1>3. CASE Close
  BY <1>3 DEF Close, CloseCancels, CloseResumes, CloseAtOnce, CloseRaises, callVars, peerVars, SeenState
<1> QED
  BY <1>1, <1>2, <1>3, CallImplementsRequests, PeerImplementsRequests DEF Next

\* The callers see what Requests says: a request is given its own answer, in
\* order and without a gap, or told that it failed, and is over once.
THEOREM ChannelImplementsRequests == Spec => ImplementsRequests
<1>1. Init => Seen!Init
  BY DEF Init, Seen!Init, Seen!All, SeenState, Calls
<1>2. Spec => Seen!Spec
  BY <1>1, StepImplementsRequests, Invariance, PTL DEF Spec, Seen!Spec
<1> QED
  BY <1>2 DEF ImplementsRequests

=============================================================================
