------------------------------ MODULE Channel ------------------------------
(***************************************************************************)
(* P2PChannel (mcp_mesh/transport/channel.py): the client end of one       *)
(* connection, shared by the tasks that call send_request() and            *)
(* stream_request(), the background task _demux_loop(), and one task that  *)
(* calls close().  Between two awaits a task runs alone; the actions are   *)
(* the pieces between awaits.                                              *)
(*                                                                         *)
(* The connection and the peer are outside the code modelled: the peer may *)
(* answer any request it got, late, twice, out of order or not at all, and *)
(* send frames that do not parse; the connection may break at any point of *)
(* the inbound byte stream.                                                *)
(*                                                                         *)
(* A call stands for its request id (a fresh uuid), and makes one request. *)
(***************************************************************************)
EXTENDS Integers, Sequences, FiniteSets

CONSTANTS
    Unary,        \* calls of send_request
    Streams,      \* calls of stream_request
    LastChunk,    \* index of the chunk of a stream that has is_final set
    MaxFrames,    \* bound: frames the peer sends
    MaxCancels    \* bound: callers that are cancelled, or stop iterating

Calls == Unary \cup Streams

ASSUME ChannelAssumption ==
    /\ IsFiniteSet(Unary) /\ IsFiniteSet(Streams) /\ Unary \cap Streams = {}
    /\ LastChunk \in Nat \ {0}
    /\ MaxFrames \in Nat /\ MaxCancels \in Nat

VARIABLES
    closed,      \* _closed
    pending,     \* keys of _pending_requests
    queues,      \* keys of _active_queues
    fut,         \* fut[c]: the future of a send_request call
    q,           \* q[c]: the queue of a stream_request call
    reader,      \* _read_task: running, ended, or failed with an exception
    closer,      \* the task in close(): idle, waiting for _read_task, done, raised
    writerOpen,  \* the writer was not closed yet
    pc, outcome, \* where each call is, and how it ended
    got,         \* got[c]: index of the last chunk the consumer of c took
    wire,        \* inbound frames not read yet, oldest first
    connected,   \* is the connection up?
    answered,    \* answered[c]: the last chunk the peer sent for stream c, or 1 for a response
    frames,      \* how many frames the peer sent
    cancels      \* how many callers were cancelled

callVars == <<fut, q, pc, outcome, got>>
peerVars == <<wire, connected, answered, frames>>
vars == <<closed, pending, queues, callVars, reader, closer, writerOpen, peerVars, cancels>>

----------------------------------------------------------------------------

EndOfStream == 0     \* the None that _abort_pending puts in a queue

\* Inbound frames.  `garbled': the length, magic or type byte is wrong.
\* `skipped': the payload is not JSON, has no id, or the type is not routed.
\* `poison': a payload that is no JSON object, or a chunk of a registered
\* stream whose fields do not validate.  `malformed': a response with the id of a
\* send_request call whose fields do not validate.
RoutedFrames ==
    [type : {"response"}, id : Calls] \cup
    [type : {"malformed"}, id : Unary] \cup
    [type : {"chunk"}, id : Calls, index : 1..LastChunk]

OtherFrames == [type : {"garbled", "skipped", "poison"}]

Frames == RoutedFrames \cup OtherFrames

CallStates == {"idle", "sending", "waiting", "done"}
Futures == {"none", "pending", "result", "reset", "cancelled"}
Outcomes == {"none", "refused", "unsent", "senderror", "response", "complete",
             "ended", "reset", "timeout", "cancelled"}

Init ==
    /\ closed = FALSE
    /\ pending = {}
    /\ queues = {}
    /\ fut = [c \in Calls |-> "none"]
    /\ q = [c \in Calls |-> <<>>]
    /\ reader = "running"
    /\ closer = "idle"
    /\ writerOpen = TRUE
    /\ pc = [c \in Calls |-> "idle"]
    /\ outcome = [c \in Calls |-> "none"]
    /\ got = [c \in Calls |-> 0]
    /\ wire = <<>>
    /\ connected = TRUE
    /\ answered = [c \in Calls |-> 0]
    /\ frames = 0
    /\ cancels = 0

\* Call c is over.
Finish(c, how) ==
    /\ pc' = [pc EXCEPT ![c] = "done"]
    /\ outcome' = [outcome EXCEPT ![c] = how]

----------------------------------------------------------------------------
(* send_request() and stream_request()                                     *)

\* The channel was closed: ConnectionResetError, nothing is registered.
Refuse(c) ==
    /\ pc[c] = "idle"
    /\ closed
    /\ Finish(c, "refused")
    /\ UNCHANGED <<closed, pending, queues, fut, q, reader, closer, writerOpen, got,
                   peerVars, cancels>>

\* A bug: the check of _closed is left out.
MutRegister(c) ==
    /\ pc[c] = "idle"
    /\ pc' = [pc EXCEPT ![c] = "sending"]
    /\ IF c \in Unary
       THEN /\ pending' = pending \cup {c}
            /\ fut' = [fut EXCEPT ![c] = "pending"]
            /\ UNCHANGED queues
       ELSE /\ queues' = queues \cup {c}
            /\ UNCHANGED <<pending, fut>>
    /\ UNCHANGED <<closed, q, reader, closer, writerOpen, outcome, got, peerVars, cancels>>

\* A bug: one table is used for both kinds of calls.
MutRegisterInOneTable(c) ==
    /\ pc[c] = "idle"
    /\ ~closed
    /\ pc' = [pc EXCEPT ![c] = "sending"]
    /\ pending' = pending \cup {c}
    /\ fut' = [fut EXCEPT ![c] = "pending"]
    /\ UNCHANGED <<closed, queues, q, reader, closer, writerOpen, outcome, got, peerVars, cancels>>

\* The future or queue is registered and the request written; the call awaits
\* writer.drain().
Register(c) ==
    /\ pc[c] = "idle"
    /\ ~closed
    /\ pc' = [pc EXCEPT ![c] = "sending"]
    /\ IF c \in Unary
       THEN /\ pending' = pending \cup {c}
            /\ fut' = [fut EXCEPT ![c] = "pending"]
            /\ UNCHANGED queues
       ELSE /\ queues' = queues \cup {c}
            /\ UNCHANGED <<pending, fut>>
    /\ UNCHANGED <<closed, q, reader, closer, writerOpen, outcome, got, peerVars, cancels>>

\* The request cannot be written as a frame (its parameters are no JSON, or make a
\* payload over the limit): the call raises, and what it registered stays.
Unsent(c) ==
    /\ pc[c] = "idle"
    /\ ~closed
    /\ IF c \in Unary
       THEN /\ pending' = pending \cup {c}
            /\ fut' = [fut EXCEPT ![c] = "pending"]
            /\ UNCHANGED queues
       ELSE /\ queues' = queues \cup {c}
            /\ UNCHANGED <<pending, fut>>
    /\ Finish(c, "unsent")
    /\ UNCHANGED <<closed, q, reader, closer, writerOpen, got, peerVars, cancels>>

\* drain() returns; the call awaits its future or the first chunk from now on.
Sent(c) ==
    /\ pc[c] = "sending"
    /\ pc' = [pc EXCEPT ![c] = "waiting"]
    /\ UNCHANGED <<closed, pending, queues, fut, q, reader, closer, writerOpen, outcome, got,
                   peerVars, cancels>>

\* drain() raises: what the call registered stays registered.
SendFails(c) ==
    /\ pc[c] = "sending"
    /\ ~connected \/ ~writerOpen
    /\ Finish(c, "senderror")
    /\ UNCHANGED <<closed, pending, queues, fut, q, reader, closer, writerOpen, got,
                   peerVars, cancels>>

\* The future of a send_request call is done and the call returns or raises.
Return(c) ==
    /\ pc[c] = "waiting"
    /\ \/ fut[c] = "result" /\ Finish(c, "response")
       \/ fut[c] = "reset" /\ Finish(c, "reset")
    /\ UNCHANGED <<closed, pending, queues, fut, q, reader, closer, writerOpen, got,
                   peerVars, cancels>>

\* A stream_request call takes a chunk from its queue.  After the final chunk,
\* or the None of an abort, its iteration ends.
TakeChunk(c) ==
    /\ pc[c] = "waiting"
    /\ q[c] # <<>>
    /\ q' = [q EXCEPT ![c] = Tail(@)]
    /\ IF Head(q[c]) = EndOfStream
       THEN Finish(c, "ended") /\ UNCHANGED got
       ELSE /\ got' = [got EXCEPT ![c] = Head(q[c])]
            /\ IF Head(q[c]) = LastChunk
               THEN Finish(c, "complete")
               ELSE UNCHANGED <<pc, outcome>>
    /\ UNCHANGED <<closed, pending, queues, fut, reader, closer, writerOpen, peerVars, cancels>>

\* A bug: the entry of a call that timed out stays.
MutTimeout(c) ==
    /\ pc[c] = "waiting"
    /\ fut' = [fut EXCEPT ![c] = IF @ = "pending" THEN "cancelled" ELSE @]
    /\ Finish(c, "timeout")
    /\ UNCHANGED <<closed, pending, queues, q, reader, closer, writerOpen, got, peerVars, cancels>>

\* wait_for() gives up: its future is cancelled unless it is done already, and
\* the call's entry is removed.  The timer may beat a result that has come but
\* that the call has not been resumed for.
Timeout(c) ==
    /\ pc[c] = "waiting"
    /\ pending' = pending \ {c}
    /\ queues' = queues \ {c}
    /\ fut' = [fut EXCEPT ![c] = IF @ = "pending" THEN "cancelled" ELSE @]
    /\ Finish(c, "timeout")
    /\ UNCHANGED <<closed, q, reader, closer, writerOpen, got, peerVars, cancels>>

\* The calling task is cancelled, or the consumer of a stream stops iterating:
\* the call ends where it awaits and its entry stays.
Abandon(c) ==
    /\ pc[c] \in {"sending", "waiting"}
    /\ cancels < MaxCancels
    /\ cancels' = cancels + 1
    /\ fut' = [fut EXCEPT ![c] = IF @ = "pending" /\ pc[c] = "waiting" THEN "cancelled" ELSE @]
    /\ Finish(c, "cancelled")
    /\ UNCHANGED <<closed, pending, queues, q, reader, closer, writerOpen, got, peerVars>>

----------------------------------------------------------------------------
(* _demux_loop()                                                           *)

\* A bug: the streams are forgotten and not told.
MutAbortSilently ==
    /\ fut' = [c \in Calls |-> IF c \in pending /\ fut[c] = "pending" THEN "reset" ELSE fut[c]]
    /\ pending' = {}
    /\ queues' = {}
    /\ UNCHANGED q

\* A bug: futures that are done already get the exception too.
MutAbortOverwrites ==
    /\ fut' = [c \in Calls |-> IF c \in pending THEN "reset" ELSE fut[c]]
    /\ pending' = {}
    /\ q' = [c \in Calls |-> IF c \in queues THEN Append(q[c], EndOfStream) ELSE q[c]]
    /\ queues' = {}

\* A bug: the unary calls are forgotten and not told.
MutAbortStreamsOnly ==
    /\ pending' = {}
    /\ q' = [c \in Calls |-> IF c \in queues THEN Append(q[c], EndOfStream) ELSE q[c]]
    /\ queues' = {}
    /\ UNCHANGED fut

\* _abort_pending: every registered future that is not done gets a
\* ConnectionResetError, every registered queue a None.
AbortPending ==
    /\ fut' = [c \in Calls |-> IF c \in pending /\ fut[c] = "pending" THEN "reset" ELSE fut[c]]
    /\ pending' = {}
    /\ q' = [c \in Calls |-> IF c \in queues THEN Append(q[c], EndOfStream) ELSE q[c]]
    /\ queues' = {}

\* The loop has a frame to read and was not cancelled.
Reading(type) ==
    /\ reader = "running"
    /\ ~closed
    /\ wire # <<>>
    /\ Head(wire).type = type

\* A bug: a response resolves a request that waits, not the one of its id.
MutDemuxAnyResponse ==
    /\ Reading("response")
    /\ \E c \in pending :
          /\ pending' = pending \ {c}
          /\ fut' = [fut EXCEPT ![c] = IF @ = "pending" THEN "result" ELSE @]
    /\ wire' = Tail(wire)
    /\ UNCHANGED <<closed, queues, q, reader, closer, writerOpen, pc, outcome, got,
                   connected, answered, frames, cancels>>

\* An RPC_RESPONSE resolves the pending future of its id, if there is one.
DemuxResponse ==
    LET c == Head(wire).id IN
    /\ Reading("response")
    /\ pending' = pending \ {c}
    /\ fut' = [fut EXCEPT ![c] = IF c \in pending /\ @ = "pending" THEN "result" ELSE @]
    /\ wire' = Tail(wire)
    /\ UNCHANGED <<closed, queues, q, reader, closer, writerOpen, pc, outcome, got,
                   connected, answered, frames, cancels>>

\* A bug: a queue is forgotten with its first chunk.
MutDemuxChunk ==
    LET c == Head(wire).id IN
    /\ Reading("chunk")
    /\ IF c \in queues
       THEN /\ q' = [q EXCEPT ![c] = Append(@, Head(wire).index)]
            /\ queues' = queues \ {c}
       ELSE UNCHANGED <<q, queues>>
    /\ wire' = Tail(wire)
    /\ UNCHANGED <<closed, pending, fut, reader, closer, writerOpen, pc, outcome, got,
                   connected, answered, frames, cancels>>

\* An RPC_STREAM_CHUNK goes to the queue of its id, if there is one; the final
\* chunk is the last the queue gets.
DemuxChunk ==
    LET c == Head(wire).id IN
    /\ Reading("chunk")
    /\ IF c \in queues
       THEN /\ q' = [q EXCEPT ![c] = Append(@, Head(wire).index)]
            /\ queues' = IF Head(wire).index = LastChunk THEN queues \ {c} ELSE queues
       ELSE UNCHANGED <<q, queues>>
    /\ wire' = Tail(wire)
    /\ UNCHANGED <<closed, pending, fut, reader, closer, writerOpen, pc, outcome, got,
                   connected, answered, frames, cancels>>

DemuxSkipped ==
    /\ Reading("skipped")
    /\ wire' = Tail(wire)
    /\ UNCHANGED <<closed, pending, queues, callVars, reader, closer, writerOpen,
                   connected, answered, frames, cancels>>

\* A malformed response nobody waits for is ignored like a late one.
DemuxStrayMalformed ==
    LET c == Head(wire).id IN
    /\ Reading("malformed")
    /\ c \notin pending \/ fut[c] # "pending"
    /\ pending' = pending \ {c}
    /\ wire' = Tail(wire)
    /\ UNCHANGED <<closed, queues, callVars, reader, closer, writerOpen,
                   connected, answered, frames, cancels>>

\* Anyone else's takes the loop down with a ValidationError: the future was
\* popped and is not resolved, all others are aborted.
DemuxMalformed ==
    LET c == Head(wire).id IN
    /\ Reading("malformed")
    /\ c \in pending /\ fut[c] = "pending"
    /\ reader' = "failed"
    /\ fut' = [d \in Calls |->
                 IF d \in pending \ {c} /\ fut[d] = "pending" THEN "reset" ELSE fut[d]]
    /\ pending' = {}
    /\ q' = [d \in Calls |-> IF d \in queues THEN Append(q[d], EndOfStream) ELSE q[d]]
    /\ queues' = {}
    /\ wire' = Tail(wire)
    /\ UNCHANGED <<closed, closer, writerOpen, pc, outcome, got,
                   connected, answered, frames, cancels>>

\* A bug: the loop dies of a bad payload and tells nobody.
MutDemuxPoison ==
    /\ Reading("poison")
    /\ reader' = "failed"
    /\ wire' = Tail(wire)
    /\ UNCHANGED <<closed, pending, queues, callVars, closer, writerOpen,
                   connected, answered, frames, cancels>>

\* So does a payload that is not an object or not a chunk.
DemuxPoison ==
    /\ Reading("poison")
    /\ reader' = "failed"
    /\ AbortPending
    /\ wire' = Tail(wire)
    /\ UNCHANGED <<closed, closer, writerOpen, pc, outcome, got,
                   connected, answered, frames, cancels>>

\* A frame read_frame() rejects ends the loop; so do the end of the bytes and a
\* connection that is reset.
DemuxEnds ==
    /\ Reading("garbled") \/ (reader = "running" /\ ~closed /\ wire = <<>> /\ ~connected)
    /\ reader' = "ended"
    /\ AbortPending
    /\ UNCHANGED <<closed, closer, writerOpen, pc, outcome, got, peerVars, cancels>>

\* A connection that breaks in another way (broken pipe, time-out, TLS error) is
\* an exception the loop does not catch.
DemuxFails ==
    /\ reader = "running" /\ ~closed
    /\ wire = <<>> /\ ~connected
    /\ reader' = "failed"
    /\ AbortPending
    /\ UNCHANGED <<closed, closer, writerOpen, pc, outcome, got, peerVars, cancels>>

\* The loop gets the cancellation close() sent it.
DemuxCancelled ==
    /\ reader = "running" /\ closed
    /\ reader' = "ended"
    /\ AbortPending
    /\ UNCHANGED <<closed, closer, writerOpen, pc, outcome, got, peerVars, cancels>>

Demux ==
    \/ DemuxResponse \/ DemuxChunk \/ DemuxSkipped
    \/ DemuxStrayMalformed \/ DemuxMalformed \/ DemuxPoison
    \/ DemuxEnds \/ DemuxFails \/ DemuxCancelled

----------------------------------------------------------------------------
(* close(); a second call returns at once and changes nothing.             *)

\* The read task still runs: it is cancelled and awaited.
CloseCancels ==
    /\ ~closed
    /\ reader = "running"
    /\ closed' = TRUE
    /\ closer' = "waiting"
    /\ UNCHANGED <<pending, queues, callVars, reader, writerOpen, peerVars, cancels>>

\* What close() does once the read task is awaited.
CloseRest ==
    /\ AbortPending
    /\ writerOpen' = FALSE
    /\ closer' = "done"

CloseResumes ==
    /\ closer = "waiting"
    /\ reader = "ended"
    /\ CloseRest
    /\ UNCHANGED <<closed, reader, pc, outcome, got, peerVars, cancels>>

\* The read task ended before: awaiting it does not suspend.
CloseAtOnce ==
    /\ ~closed
    /\ reader = "ended"
    /\ closed' = TRUE
    /\ CloseRest
    /\ UNCHANGED <<reader, pc, outcome, got, peerVars, cancels>>

\* The read task failed before: awaiting it raises, and close() goes no further.
CloseRaises ==
    /\ ~closed
    /\ reader = "failed"
    /\ closed' = TRUE
    /\ closer' = "raised"
    /\ UNCHANGED <<pending, queues, callVars, reader, writerOpen, peerVars, cancels>>

Close == CloseCancels \/ CloseResumes \/ CloseAtOnce \/ CloseRaises

----------------------------------------------------------------------------
(* The peer and the connection                                             *)

\* The peer sends a frame.
Put(f) ==
    /\ connected /\ writerOpen
    /\ frames < MaxFrames
    /\ frames' = frames + 1
    /\ wire' = Append(wire, f)
    /\ UNCHANGED <<closed, pending, queues, callVars, reader, closer, writerOpen, connected, cancels>>

\* It answers a request it may have got.
PeerResponds ==
    \E f \in [type : {"response"}, id : Calls] \cup [type : {"malformed"}, id : Unary] :
        /\ pc[f.id] # "idle" /\ outcome[f.id] \notin {"refused", "unsent"}
        /\ Put(f)
        /\ answered' = [answered EXCEPT ![f.id] = IF f.type = "response" /\ f.id \in Unary THEN 1 ELSE @]

\* It sends the next chunk of a stream.
PeerStreams ==
    \E c \in Streams :
        /\ pc[c] # "idle" /\ outcome[c] \notin {"refused", "unsent"}
        /\ answered[c] < LastChunk
        /\ Put([type |-> "chunk", id |-> c, index |-> answered[c] + 1])
        /\ answered' = [answered EXCEPT ![c] = @ + 1]

PeerBabbles == (\E f \in OtherFrames : Put(f)) /\ UNCHANGED answered

\* The connection breaks; frames that did not arrive yet may be lost.
Disconnect ==
    /\ connected
    /\ connected' = FALSE
    /\ \E k \in 0..Len(wire) : wire' = SubSeq(wire, 1, k)
    /\ UNCHANGED <<closed, pending, queues, callVars, reader, closer, writerOpen,
                   answered, frames, cancels>>

Peer == PeerResponds \/ PeerStreams \/ PeerBabbles \/ Disconnect

----------------------------------------------------------------------------

Call(c) ==
    \/ Refuse(c) \/ Register(c) \/ Unsent(c) \/ Sent(c) \/ SendFails(c)
    \/ Return(c) \/ TakeChunk(c) \/ Timeout(c) \/ Abandon(c)

Next == (\E c \in Calls : Call(c)) \/ Demux \/ Close \/ Peer

\* The event loop runs what is ready: the demultiplexer, close() once it is
\* called, and callers.  No timer has to expire, nobody has to call close(),
\* and the peer owes nothing; drain() ends when the connection does.
Fairness ==
    /\ WF_vars(Demux)
    /\ WF_vars(CloseResumes)
    /\ \A c \in Calls :
          /\ WF_vars(~connected /\ (Sent(c) \/ SendFails(c)))
          /\ WF_vars(Return(c))
          /\ WF_vars(TakeChunk(c))

Spec == Init /\ [][Next]_vars /\ Fairness

----------------------------------------------------------------------------
(* Properties                                                              *)

\* Every variable has its type.
TypeOK ==
    /\ closed \in BOOLEAN /\ writerOpen \in BOOLEAN /\ connected \in BOOLEAN
    /\ pending \subseteq Unary
    /\ queues \subseteq Streams
    /\ fut \in [Calls -> Futures]
    /\ q \in [Calls -> Seq(0..LastChunk)]
    /\ reader \in {"running", "ended", "failed"}
    /\ closer \in {"idle", "waiting", "done", "raised"}
    /\ pc \in [Calls -> CallStates]
    /\ outcome \in [Calls -> Outcomes]
    /\ got \in [Calls -> 0..LastChunk]
    /\ wire \in Seq(Frames)
    /\ answered \in [Calls -> 0..LastChunk]
    /\ frames \in 0..MaxFrames
    /\ cancels \in 0..MaxCancels

Active(c) == pc[c] \in {"sending", "waiting"}

\* The future of call c was taken from the pending ones by a malformed response.
Stranded(c) == c \in Unary /\ Active(c) /\ fut[c] = "pending" /\ c \notin pending

\* What ends call c is there: its future is done, or the end of its stream is in
\* its queue.
HasEnd(c) ==
    IF c \in Unary
    THEN fut[c] # "pending"
    ELSE q[c] # <<>> /\ q[c][Len(q[c])] \in {EndOfStream, LastChunk}

\* Only its own timer, or its cancellation, ends call c: it is not registered, or
\* the read task failed, so that nobody reads frames and close() raises before it
\* aborts what is registered.
LeftAlone(c) ==
    /\ Active(c)
    /\ ~HasEnd(c)
    /\ c \notin pending \cup queues \/ reader = "failed"

\* Until the read task fails, every call in progress can be ended from outside it,
\* whatever the interleaving of callers, demultiplexer and close(): it is
\* registered, so that a frame or an abort reaches it, or its result, its
\* exception or the end of its stream is there for it.  Once it failed, nothing
\* reaches the calls that register from then on, and the one call, at most, whose
\* malformed response took the demultiplexer down: no other call is left alone.
EveryCallCanEnd ==
    /\ \A c \in Calls : LeftAlone(c) => reader = "failed"
    /\ \A c, d \in Calls : LeftAlone(c) /\ LeftAlone(d) /\ c # d =>
          c \in pending \cup queues \/ d \in pending \cup queues

\* The read task never fails without telling the calls in progress, but for one,
\* the one whose malformed response it fails of: at that moment no two calls are
\* left alone.
FailureReachesCallers ==
    [][reader # "failed" /\ reader' = "failed" =>
          \A c, d \in Calls : LeftAlone(c)' /\ LeftAlone(d)' => c = d]_vars

\* The tables of the channel hold calls in progress, and besides them only those
\* whose caller was cancelled or could not send: no answered, timed out or
\* finished call leaves an entry behind.  (Those it excepts do, until the loop or
\* close() aborts them.)
NoStaleEntry ==
    \A c \in pending \cup queues :
        Active(c) \/ outcome[c] \in {"cancelled", "senderror", "unsent"}

\* Once close() got past the read task nothing is registered any more, and
\* nothing registers later.  (A close() that raised leaves its tables as they are.)
ClosedMeansEmpty == closer = "done" => pending = {} /\ queues = {}

\* A future gets one result: a second response, or an abort that meets a future
\* its caller cancelled, leaves it alone (in the code it would raise
\* InvalidStateError and take down the demultiplexer).
FutureSetOnce ==
    [][\A c \in Calls : fut[c] \notin {"none", "pending"} => fut'[c] = fut[c]]_vars

\* After a close() that got past the read task no call keeps waiting for a
\* response or a chunk, though no timer ever expires.
CloseFreesCallers ==
    \A c \in Calls : closer = "done" /\ pc[c] = "waiting" ~> pc[c] = "done"

\* A call that is registered while the demultiplexer runs ends once the
\* connection breaks, though no timer ever expires and nobody calls close();
\* unless it is the one that a malformed response strands.
DisconnectFreesCallers ==
    \A c \in Calls :
        ~connected /\ reader = "running" /\ c \in pending \cup queues /\ Active(c)
            ~> pc[c] = "done" \/ Stranded(c)

\* ARCHITECTURE.md:80: a socket disconnection aborts all pending futures.  In
\* the code only those registered by then: send_request looks at _closed and not
\* at the demultiplexer, and what it registers later waits for its timer.
NothingPendingOnDeadChannel == ~connected /\ reader # "running" => pending = {}

\* SOFTWARE_DESIGN.md:318: the writer is flushed and closed on shutdown, and
\* channel.py:131: close() cancels what runs.  In the code a close() after the read
\* task failed raises that task's exception first: the writer stays open, and so
\* do the entries of calls, and a second close() returns at once.
CloseLeavesNothing ==
    closer \in {"done", "raised"} => pending = {} /\ queues = {} /\ ~writerOpen

\* SOFTWARE_DESIGN.md:317: after a disconnection, a streaming request in flight
\* gets an error besides its partial results.  In the code the iteration ends as
\* if it were complete.
NoSilentTruncation ==
    ~connected /\ ~closed => \A c \in Streams : outcome[c] = "ended" => got[c] = LastChunk

\* The callers see what Requests says, for every interleaving of calls, frames,
\* timers and close(): answers reach the calls they were sent for, whole and in
\* order, and every call is over once.
SeenState ==
    [c \in Calls |-> CASE pc[c] = "idle" -> "new" [] pc[c] = "done" -> outcome[c] [] OTHER -> "open"]

Seen == INSTANCE Requests WITH state <- SeenState, taken <- got

ImplementsRequests == Seen!Spec

=============================================================================
