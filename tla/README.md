# Verification of mcp-p2p-swarm-mesh

TLA+ models of the concurrent core of `mcp_mesh`, the TLC runs that check them, and the theorems that
TLAPS proves about them. Paths and line numbers refer to the repository.

## 1. Inventory

The program is one Python process per node, on one asyncio event loop: a task runs alone between two
awaits, so the interleavings are those of the pieces between awaits, of UDP datagrams, of the bytes of a
TCP connection, and of timers and cancellations.

| component | state | operations | correct when |
|---|---|---|---|
| Rate limiter `router/rate_limiter.py` | `_active`, `_waiting` (futures) | `acquire`, `release` | no more callers than slots; FIFO; no slot lost; every waiter served |
| Gossip `discovery/gossip.py` | `_seq`, `_known_endpoints`, socket, loop task | `handle_datagram`, `broadcast_heartbeat`, `start`, `stop` | every pair of nodes meets; acquaintance is mutual; a restart is noticed |
| Failure detector `discovery/detector.py` | loop task | `check_peers`, `start`, `stop` | status follows silence; a dead peer is DEAD in bounded time; a live one is not suspected |
| Registry `registry/catalog.py` | `_peers`, an insertion-ordered dict | `update_peer`, `evict_peer`, lookups, manifest | records of one peer consistent; lookups only name live peers |
| Mesh node, gateway server `node.py`, `gateway/server.py` | the above | start gossip then detector; stop detector then gossip | nothing runs after `stop`; a second life starts clean |
| Channel `transport/channel.py` | `_pending_requests`, `_active_queues`, `_closed`, read task | `send_request`, `stream_request`, `_demux_loop`, `close` | each call ends once, with its own answer, or because of a timer, close or disconnection; a failed read task reaches its callers; chunks in order |
| Framing `protocol/framing.py` | none | `encode_frame`, `read_frame` | the frames sent are the frames read, in order; limits agree; no boundary missed however the stream is cut |
| Dispatcher `router/dispatcher.py` | `_channel_pool`, `_handlers` | `delegate_task`, `delegate_task_stream`, registrations | never a DEAD target; deadline kept; a fresh token per call |
| Tokens `crypto/tokens.py` | `_seen_nonces` | `issue_token`, `verify_token` | a token is accepted at most once, for its tool, before it expires |
| Consensus `consensus/orchestrator.py` | per call: tasks, evaluations | `orchestrate_review` | fewer evaluations than the quorum are a failure; no evaluation is counted late |
| Facade `gateway/mcp_facade.py` | none | maps MCP requests to dispatcher, registry, consensus | lists what can be called |
| Listener, identity, certificates, configuration, audio, `app.py` | handles, keys, buffers, page state | I/O, encodings, signal arithmetic, layout | not for a model checker |

**Interaction.** Gossip writes peer records into the registry and the detector rewrites their status in
place, both on one node's loop. The dispatcher reads the registry, issues a token, and sends over a channel
of its pool (or calls a local handler). A channel is shared by all tasks that call through it and by its
read task. The consensus engine reads the registry and fans out. The facade calls dispatcher, consensus
and registry. Gossip engines of different nodes exchange UDP datagrams.

**What is hard.** Cancellation between `set_result` and the resumption of a waiter; a socket that stays open
while a node stops; datagrams lost, repeated, overtaken, or of a former life; two writers of one record;
late, repeated and malformed answers; a timer that beats an answer; a demultiplexer that dies while callers
register; `close()` at any moment. `PROJECT.json` lists each hazard at its line.

## 2. Plan

Most important behaviour first. Written in this order:

1. `RateLimiter`: the admission control of a node; small enough to be proved completely.
2. `Registry` (operators) and `Membership` (gossip, detector, lifecycle, network, time).
3. `Channel`: the multiplexed client end of a connection.
4. `Gateway`: dispatcher, tokens, consensus and facade of one process, over a registry and channels that
   change under them.
5. `RateLimiterProofs`, `GatewayProofs`.
6. Abstract specifications and the refinements: `Admission`, which `RateLimiter` implements; `Requests`, which
   `Channel` implements; `FrameStream`, which `Framing`, the codec over a byte stream, implements.
7. Releases by callers that hold no slot; event loops that are blocked; a sweep of the whole registry under the
   dispatcher.
8. `ChannelProofs`, `RegistryProofs`, `MembershipProofs`, `GatewayTypeProofs`.
9. `AcquaintanceProofs` and `FramingProofs`, with which every safety property of the passing runs is a theorem.

Left: a `Gateway` whose `link` is the abstract `Requests` instead of its own summary of a channel; cancellation of a
delegation by its caller.

Each run asks one question; a run is replaced by a stronger one when the model grows.

How the modules rest on each other (E: extends, I: implements):

    RateLimiter -I-> Admission       RateLimiterProofs -E-> RateLimiter
    Channel -I-> Requests            ChannelProofs -E-> Channel
    Framing -I-> FrameStream         FramingProofs -E-> Framing
    Membership -E-> Registry         MembershipProofs -E-> Membership, RegistryProofs
                                     AcquaintanceProofs -E-> MembershipProofs
    Gateway -E-> Registry            GatewayProofs -E-> Gateway
                                     GatewayTypeProofs -E-> GatewayProofs, RegistryProofs

The `MC` modules extend the module they are named after with the values TLC gives its constants.

## 3. Modules

### RateLimiter
One variable per attribute (`active`, `waiting`), and `pc` for the callers, which the code keeps in the
event loop. The lock of `acquire()` is never held across an await, so its body up to `await fut` is one
step with three outcomes: `AcquireSlot`, `Shed`, `Enqueue`. `Resume` is the event loop running a task
whose future has a result. `release()` is `HandOver`, `DropDoneFuture` or `FreeSlot`. A future is named
after its caller; once that caller is cancelled the entry is `Cancelled`, a done future that stays in the
list (`CancelQueued`). `CancelGranted` is a cancellation between `set_result` and the resumption.
Most callers are `await acquire()` followed by `try ... finally: release()`, forever (`Release`, `Unwind`). The worker
in `tests/chaos/test_congestion_control.py:15-21` has `acquire()` inside the `try`: a worker that was shed then
releases a slot it never held. That is `StrayRelease`, and `strays` counts them: each admits one caller beyond the
cap, for as long as it takes, and no more than that.

`Admission` is the same without counters, futures and positions: the tasks `inside`, the tasks in `line`, who is
`before` whom, and `excess`, the releases too many. The mapping takes those a slot is set aside for (granted or
holding) to `inside`, the suspended to `line`, the positions of their futures to `before`. Lost slots map to
`Leave`: `Admission` never promises that a place is used again; `WaiterProgress` says when it is.

### Registry, Membership, MCMembership
`Registry` has the dict as a function together with its insertion order, which the peer sample depends on.
`Membership` has one gossip engine, detector and registry per node, the network, and time.

* `HandleDatagram` is the whole of `handle_datagram`: endpoint, record, sample, reciprocal heartbeat.
* `BroadcastHeartbeat` is an iteration of the gossip loop, `CheckPeers` one of the monitor loop.
* `Start`, `StopDetector`, `StopGossip` are `MeshNode.start` and the two halves of `MeshNode.stop`, between which
  the socket is open and the detector off. `Crash` may come at any time. A restart is a new process: the
  state of `__init__`.
* `Tick` is one second. A record holds its age instead of a timestamp (clocks of different nodes need not agree:
  the receiver stamps `last_heartbeat` itself, `gossip.py:101`). `lag` is the time since the node's last sweep.
* An event loop is prompt unless it is blocked. `Due` are the nodes that have something to do; a tick that passes
  them by costs one of `MaxStalls` each, and puts off their broadcast, their sweep and the datagrams in their socket.
* `CheckPeers` changes every record by `Swept`, one after the other in the code, in one step between two awaits.
* `net` is a set of datagrams. Over an unreliable network each may arrive any number of times within `MaxDelay`
  ticks or never, over a reliable one exactly once. Which it is, `reliable`, is chosen once, from `Networks`.
* Sequence numbers are kept as the code keeps them; nothing in the code reads them, and the runs hold them at 0.
* With `HeartbeatInterval = 0` time stands still and broadcasts come at any moment: the discovery and sample
  runs look at who learns of whom, whatever the timing.
* Heartbeats carry empty tool lists (`gossip.py:129,168`), so the tools of a record are left to `Gateway`.

### Channel, MCChannel
One connection, the tasks that call through it, the read task, and one task that closes. Each call makes one
request; its uuid is the call itself. `pending`, `queues`, `closed` are the attributes; `fut[c]` and `q[c]`
the future and the queue of a call, which outlive their entry. Actions are the pieces between awaits:
`Register` up to `drain()` (`Unsent` when the frame cannot be made, after the call was registered),
`Sent` or `SendFails`, then `Return`, `TakeChunk`, `Timeout` or `Abandon` (the
caller is cancelled, or stops iterating). The demultiplexer has one action per way a frame can go through
`_demux_loop`, `DemuxEnds` for the exceptions of `read_frame` it catches, `DemuxFails` for the others, `DemuxCancelled` for the cancellation that
`close()` sent. `close()` suspends only if the read task still runs (`CloseCancels`, `CloseResumes`); if that
ended it goes through (`CloseAtOnce`); if it failed, `await` raises and the rest is skipped (`CloseRaises`).
The peer and the connection are external: answers to requests made, late or repeated, for a stream or a
request; chunks in order; frames of every kind `read_frame` or the loop treats differently; an end of the
connection that may lose what was not delivered. `answered[c]` is what the peer has sent in answer to `c`.

What a call can hope for besides its timer depends on the read task. While that runs, a frame, an abort or the
call's own result ends it, in every interleaving; once it failed, nobody reads, `close()` raises before its abort, and a call
that registers then has its timer only. `LeftAlone` names such calls, `EveryCallCanEnd` says that there is none before
the failure and that afterwards all but one registered since, and `FailureReachesCallers` that at the moment of the failure all
calls in progress are told but one.

`Requests` is what the callers see: a request begins or is refused, its answer is sent piece by piece, and it takes
the pieces in order, or fails. The mapping hides tables, queues, futures, tasks and frames (`SeenState`, `got`,
`answered`). That a response is delivered to the request with its id, that chunks are not reordered or skipped, that
an aborted, cancelled or timed out call stays so: all of it is in `ImplementsRequests`.

### Framing, FrameStream, MCFraming
`FrameCodec` over one connection. A frame is written as `encode_frame` makes it; the bytes arrive in pieces of any
size (`Arrive`); `read_frame` is the two `readexactly()` calls and what follows each up to the next await
(`ReadHeader`, `ReadBody`), or the exception of either (`Incomplete`). `over` is that it raised: `_demux_loop` calls it
no more then. The sender may write what is no frame (`WriteNoFrame`) and the connection may end or be reset at
any byte. A header holds `HeaderSize` digits to the base `Base` (`Shifted` drops the last ones one by one), and the
assumption on `MaxFrameSize` is that it fits in. `FrameStream` has frames instead of bytes: those sent while nothing else was are received in order, and
the stream is given up only when it broke, or was spoilt and every frame before that was received.

### Gateway, MCGateway
One gateway process. `catalog` is its registry, with tools; `handlers`, `pool` and `seen` are `_handlers`,
`_channel_pool` and `_seen_nonces`. `call[t]` is where the call of a task is: one `delegate_task` or
`delegate_task_stream`. When it is over, its record is reset to nothing but how it ended.

* `Dispatch` has one action per branch: no target (`Unreachable`), a pooled channel, a local handler, a made-up
  result. Everything before the first await is one step, hence `IssueToken` and `Request` are part of it.
* `link[ch]` is what a channel is to its callers: open, dead (the demultiplexer stopped, `_closed` unset: it takes
  requests nobody answers), closed. A request that cannot be written as a frame ends `unsent`. It is the summary of `Channel`, which has the detail. A chunk of a stream is
  taken at once; that a queue can hold several is in `Channel`.
* `Tick` is a fraction of a second, `Second` of them to one: `int(timeout_seconds)` (`Ttl`) and the whole-second clock
  of the token (the `cut` of `IssueToken`) each cut off nearly a second, which a coarse tick would hide. `left` is what a
  token has left. `waited` is the timer of `wait_for`; `drained` the time in `drain()`, which runs before it. Timers and ready tasks are served before time passes; `drain()` and a
  coroutine handler may take any time. The wall clock a token is checked by is assumed to run as evenly as the
  event loop's.
* `VerifyToken` is `verify_token`. Nothing under `mcp_mesh` but the tests calls it, so that the environment
  presents any token for any tool at any moment. `Restart` is a new process; a token outlives it, its nonce does
  not, and its signature does if `private_key_hex` is configured (`KeepsKey`). The dashboard's process starts with its
  cluster registered and handlers for some of its tools (`Populated`, `Handled`) and always with a new identity, a
  reset of the page included; a `GatewayServer` starts empty, with or without a configured key.
* `StartReview` and `EndReview` are `orchestrate_review` up to and from `asyncio.wait`. The evaluators answer at
  once or all sleep longer than the deadline, as the code has it. `k_peers` and `min_quorum` are what a client
  gives, zero and negative included. A review is sequential code that nothing disturbs between its two steps but a
  restart, so that no property beyond its type is stated of it.
* `Deploy`, `HeartbeatArrives`, `CheckPeers` and `HeartbeatPing` are what the dashboard, gossip and the detector do to
  the registry, in any order: `Membership` says which orders there are. `CheckPeers` is a sweep of all records, for any
  statuses: it goes by the wall clock, which may be set back. Drop Heartbeat in `app.py:419-425` is one as well.

Not in it: cancellation of a delegation by its caller (in `Channel` it is `Abandon`), and the content of
arguments and results.

## 4. Runs

| run | instance | shows |
|---|---|---|
| `limiter` | 5 callers, 2 slots, queue of 3, 3 cancellations, 2 stray releases | type, cap, exact queue, bounded slot loss, FIFO, progress; implements `Admission` |
| `limiter_leak` | 3 callers | **violated**: `release()` on a cancelled waiter wakes nobody |
| `detection` | 2 nodes, interval 2, timeouts 4 and 5, transit up to 1 tick, unreliable or reliable; 3 starts, 2 stops, 1 stall | status follows silence; a peer that went down is DEAD for good in bounded time; acquaintance is mutual; over the reliable network a node and its seed see each other ALIVE one interval and a round trip after both are up, after any restarts |
| `discovery` | 3 nodes, one seed, no clock | every pair meets |
| `sample` | 4 nodes, sample of 1, no clock | **violated**: with the fixed sample two nodes may never meet |
| `framing` | 3 frames with payloads of 0 to 4 bytes, or things that are no frame; bytes 0..2, header of 2, limit of 5 | the reader stays on boundaries, refuses only what is no frame; implements `FrameStream` |
| `channel` | 1 request, 1 stream of 2 chunks, 3 frames, 1 cancellation | no call is left to its timer before the read task fails, and its failure reaches all in progress but one; a close that got past the read task, and a disconnection, free the callers without any timer; no answered call leaves an entry; empty after such a close; futures set once; implements `Requests` |
| `dead_channel` | 1 request, 1 stream | **violated**: a request is left pending on a channel that is dead |
| `close_raises` | 1 request, 1 stream | **violated**: `close()` after the read task failed leaves the writer open |
| `truncation` | 1 stream of 2 chunks | **violated**: a stream cut short by a disconnection ends like a complete one |
| `gateway` | 1 delegation, 1 review, 2 peers, 2 tools, 2 channels, 3 ticks to a second, timeout of 2 ticks, allowance of 3 s, 3 events, key configured | tokens accepted once by a process and good while the caller waits; calls end on any channel |
| `listed_tools` | no calls | **violated**: `list_tools` shows tools of DEAD peers |

Five callers over two slots and a queue of three reach every case of `acquire()`, a full queue with a newcomer
shed, and several dead futures in a row. Three cancellations exceed the number of slots, so that the state in
which all slots are lost is reached (the guard of `WaiterProgress` is then true). Two stray releases with two slots reach a state in
which as many callers run as nobody gave a slot to. Two nodes are enough for
detection, which is a relation of one registry and one peer. The program's own interval and timeouts (3, 10, 15) are
scaled to 2, 4 and 5, which keeps their order, room for two missed heartbeats before suspicion, and a distance of one tick
between the two timeouts, so that one stall passes a record over both; the theorems hold for all values. Three starts and two
stops let a node go down, come back and meet datagrams of its former life. Ages saturate at `Horizon`, above every
threshold; heartbeats carry no sample there, which only matters to discovery. The sample of five is scaled to one in a mesh of four,
which is to a mesh of eight nodes and more what it is to four. Three frames let a stream of two chunks complete while a
request is answered, or answered twice; one call of each kind lets the request be stranded while the stream is aborted, or an answer
reach the call it was not sent for. The safety properties are proved for any number of calls. Deadlock is not checked in the channel runs: a
channel that is closed and whose calls are over has nothing left to do.
In `framing` a length has two digits to the base three and the limit is five, so that a header can hold lengths below,
at and above both bounds of `read_frame` (0 to 8 against 2 and 5); payloads have each length from none to one too
many (remainders of two to six bytes), and hold magic bytes, types and headers. Two frames and a spoilt third,
or three frames, cut anywhere, are every position a reader can be misled from. Deadlock is not checked there: a
reader may wait for bytes for ever.
`gateway` has one delegation, because delegations meet only in the pool, the channels and the registry, all of which
change under it anyway; interleavings of calls on one channel are the matter of `Channel`. The three events are
shared by the registry, the pool, the channels, reviews and restarts: enough to register a
channel, break it and replace it under a stream, to register a peer and its channel and break or replace that under a
call, to issue a token, spend its nonce, restart and spend it again, twice over. The review asks all peers but one, which
gives each of its outcomes. With three ticks to a second and a timeout of two, `int()` makes nothing of the timeout and takes two ticks, the most it
can, off the clock. The allowance of ten seconds is scaled to three, the least that leaves `drain()` a second after
the two seconds `TokenOutlivesWait` sets aside for the cuts; the property compares sums of these, and is proved for
all values. The key is configured there, so that tokens outlive the process and may be accepted again by the next: the other
case, in which every process has an identity of its own, is within the theorem `TokensAcceptedOnce`.

**Fairness.** `RateLimiter`: `WF` on `Resume`, `Release`, `Unwind`: the event loop runs ready tasks, and a
caller's work ends. No fairness on new calls or cancellations. `Membership` (discovery only): `WF` on `Start`
(nodes are started), on `BroadcastHeartbeat` (the loop sleeps a finite time) and on the delivery of a datagram
that carries news: the network may lose any datagram, but not for ever all of those a node repeats each
interval. `Framing`: `WF` on the reader and on
the delivery of bytes; nobody has to send. `Channel`: `WF` on the demultiplexer, the resumption of `close()`, on `Return` and `TakeChunk` (the
event loop, and consumers that go on iterating), and on the end of `drain()` once the connection is gone. No timer, no
`close()` and nothing of the peer is fair. `Gateway`: `WF` on `Tick`, `TimerExpires` and `Return`: time passes and the
event loop serves timers and futures; no peer, `drain()`, handler or client is fair.

## 5. Theorems

### RateLimiterProofs

From `LimiterAssumption` (the callers are finitely many; slots, depth and cancellations are natural numbers)
and for every value of the constants:

* `TypeCorrectness`, `CapHolds`, `SlotLossIsBounded`, `QueueIsExact`: `Spec => []` of the four invariants of the
  run `limiter`;
* `FirstComeFirstServed`: the action property `NoOvertaking`;
* `LimiterImplementsAdmission`: `Spec => Admitting!Spec`.

None of the cap, the loss bound and the queue invariant is inductive alone: the cap needs that `_active` counts
all slots in use but those that stray releases gave away, including those handed over and not yet resumed; a hand-over keeps that only if the head of the
queue is a suspended caller that holds none; and that is the queue invariant. Their conjunction with the type
invariant, `IInv`, is inductive: `InitEstablishesIInv`, then one lemma per group of actions (`AcquiringKeepsIInv`,
`ReleaseKeepsIInv`, `UnwindKeepsIInv`), on lemmas about the positions of an element in a sequence and in its
tail. `NoOvertaking` follows from `IInv` by two lemmas: while somebody waits all slots are taken, so that only the
head of the queue is given one (`SlotsGoInOrder`), and no operation reorders the queue (`OrderIsKept`). The refinement
needs what each list operation does to the relation `before` (`AheadAfterPop`, `AheadAfterAppend`,
`AheadAfterCancel`), that the line is no longer than the queue (`SuspendedFitQueue`), and maps the actions one by one
(`AcquireSlotEnters`, `EnqueueJoins`, `CancellationsLeave`, `ReleaseMapped`).

### ChannelProofs

From `ChannelAssumption`, for any number of requests, streams, chunks, frames and cancellations: `TypeCorrectness`,
`CallsCanEnd`, `TablesAreClean`, `ClosedIsEmpty` are the four invariants of the run `channel`, `OneResult` and
`FailuresReachCallers` its action properties, and `ChannelImplementsRequests` the refinement.
`ClosedIsEmpty` is about a `close()` that got past the read task: one that raised leaves its tables (run `close_raises`).

No part of it is inductive. That a call can end needs what its queue may hold (`StreamsCanEnd`), that one call at most is
stranded and the demultiplexer did not survive it (`OneStranded`), and where `close()` is (`Closing`). The step in which
the read task fails is an abort (`FailureAborts`), so what it leaves alone can only be the stranded call. That answers
are one's own needs that nothing about a call exists before it is made (`Fresh`), that results belong to answered
requests (`ResultsAnswered`), and the order of chunks from the wire to the queue to the consumer: `QueueInOrder`
says it of a queue, and `Follow(c)` of the frames of stream `c` still on the wire: they come after those in the queue,
in order, and without a gap while the connection stands. There is one lemma per action (`...Keeps`), and for `Follow`
lemmas about what an append at one end and a removal at the other do to it. The refinement then follows step by step:
each piece between awaits is one action of `Requests` or leaves what callers see alone.

### RegistryProofs, MembershipProofs

`RegistryProofs` has what `update_peer` and a change in place do to a catalog: the ids stay those of the dict and the
order lists each once. `MembershipProofs` proves, from `MembershipAssumption`, for any number of nodes and any timeouts,
delays, samples, stops and stalls, `TypeCorrectness`, `StatusIsExact` and `DetectionIsBounded`: the
first three invariants of the run `detection`.

`StatusFollowsSilence` is nearly inductive once `lag` has a bound (`LagBounded`). `BoundedDetection` is far from it: it
must be known how old the last datagram of a peer that went down can be (`LastWords`), and how the silence of a peer, the
age of its record and the time since the sweep stand to each other (`SilenceShows`). `Shows` has two cases, since a
heartbeat may come after the last sweep, and then the status is fresher than the sweep. Each tick that passes a blocked
node widens the gap by one, which is why `stalls` is in the bound; `Drift` is that arithmetic, saturation at
`Horizon` included. The bound of the theorem is failure_timeout, one sweep, the longest transit and the stalls.

### AcquaintanceProofs

From `MembershipAssumption`, on `MembershipProofs`: `AcquaintanceIsMutual` and, from `HeartbeatInterval > 0` and
`HeartbeatInterval + 2 * MaxDelay <= SuspectTimeout` as well, `SeedsSettle`: the other two invariants of the run
`detection`. The condition is what the argument gives: one interval and a round trip is how long a node may not hear from
its seed. The code's defaults, 3 and 10 seconds, satisfy it for transits up to 3 seconds.

Every action but `Tick` is first shown to do no more than `Changes` says: records are only renewed, nobody is forgotten by
a node that lives on, each new datagram goes to an endpoint of its sender, and a datagram that leaves the network was
handled or its addressee was down. The invariants are then shown for a step of that kind and for a tick.

`MutualAcquaintance` relates two nodes, and what they know of each other comes by datagrams: `Met` adds that the sender of
a datagram on its way has the addressee for an endpoint (`Introduced`) unless it began another life since, which its
`since` and the age of the datagram tell.

`SeedAndNodeSettle` needs to know when a heartbeat was sent that must have been heard by now. `Settling` says, for each window of one
heartbeat interval that ended `k` ticks ago, that a node which ran through it sent its seed a heartbeat in it, and
that this is on its way, or was received (`Heard`), and that its answer is, or was (`Answered`). A window that is
`MaxDelay` old has no heartbeat on its way any more, one that is twice as old no answer, hence the bound.

### FramingProofs

From `FramingAssumption` (a base of two at least, a header in which `MaxFrameSize` fits, any types and payloads):

* `TypesHold`, `AlwaysOnBoundary`, `OnlyBadFramesAreRefused`: the three invariants of the run `framing`;
* `ImplementsStreamSteps`: the initial states and the steps of `Framing` are those of `FrameStream`, the safety part of
  `ImplementsFrameStream`;
* `RoundTrip`: every length up to the maximum is read from a header as it was written.

`OnBoundary` says nothing of a stream that was spoilt, so it cannot be inductive: that the frames before the spoilt place are
all returned needs to be known after it. `Aligned` says it of both: the bytes not consumed, with those the
connection lost behind them, are the encodings of the frames not returned and then nothing, or something that
begins with what the reader must refuse (`Spoilt`). `Whole` adds that what was read is a prefix of what was sent. `AtFrame` is
the heart: a header and what follows it begin the next frame, or all frames were read and it is refusable. Both
`ReadHeader` and `ReadBody` rest on it: the header is the length of the frame's remainder by `RoundTrip`, and sequences with
equal wholes and equally long first parts have equal parts.

The functions the model defines by recursion (`Shifted`, `FromBytes`, `FlattenSeq` of the community modules) are dealt with by
induction, for which the library's theorem with an operator parameter is not needed: natural numbers are
well-founded, so that a set that holds 0 and the successor of each of its members below n holds all up to n
(`SetInduction`), and a function with a given step exists (`Recursion`). A proof names the set of numbers for
which its claim holds. `Then` is concatenation by another name, which the provers know only the laws of.

### GatewayProofs

From `GatewayAssumption` (of which the proofs use that the ticks to a second, timeout and allowance are positive integers and `None` is
no channel and no tool), for any number of peers, tools, channels, tasks and restarts:

* `TokensAcceptedOnce`: `Spec => []AcceptedOnce`;
* `TokensOutliveWaits`: `Spec => []TokenOutlivesWait`.

`AcceptedOnce` alone is not inductive: that a token is accepted now must say that this process has not accepted it
before, i.e. that a nonce it has not seen was counted by earlier processes only (`NoncesCount`), and that a token is
new when it is issued (`Fresh`). `TokenOutlivesWait` needs the budget behind it (`LifetimeAccounted`): what the token has
left, the time in `drain()` and the time waited add up to at least the ttl less what the clock's `int()` can cut off,
a second but one tick; and that the ttl is short of timeout and allowance by no more (`Lifetimes`). With the types of
calls and tokens these make `IInv`. Most steps do not come near it: `Harmless` says what they leave alone, and
`HarmlessKeepsIInv` is proved once for the registry, the channels, the reviews and the ends of calls. What is left
is a call that starts (`IssueKeepsIInv`), `VerifyToken`, `Tick` and `Restart`, each with its own lemma.

### GatewayTypeProofs

From all of `GatewayAssumption`, on `GatewayProofs` and `RegistryProofs`: `TypeCorrectness`, for any `k_peers` and
`min_quorum`. The type of the registry is an invariant of the actions that write it, for a sweep that
changes any number of records at once. `seen` holds issued tokens only, restarts are events, and the panel of a review is
a natural number whatever `k_peers` is (`SelectedIsNat`, which is where a negative count of a slice is dealt with).

**Only model-checked.** Liveness under fairness is out of the prover's reach: `WaiterProgress`, `CloseFreesCallers`,
`DisconnectFreesCallers`, `SentCallsEnd`, `EveryPairMeets`, and the fairness of `FrameStream` in `ImplementsFrameStream`. Every
other property of a passing run is a theorem.

## 6. What the code does otherwise than it says

* `rate_limiter.py:38-41`: a cancelled waiter swallows a slot (`limiter_leak`). `SlotLossBounded` says that is the only
  way to lose one, `WaiterProgress` that waiters are served as long as a slot is left.
* `gossip.py:155` takes the first five peers, PRIORITIZED_PLAN.md:84 a random sample (`sample`).
* `channel.py:75` accepts requests after the connection broke, ARCHITECTURE.md:80 aborts all (`dead_channel`).
* `channel.py:124` ends a stream that a disconnection broke silently, SOFTWARE_DESIGN.md:317 reports an error
  (`truncation`).
* `channel.py:138` lets the exception of a failed read task out of `close()` before the writer is closed,
  SOFTWARE_DESIGN.md:318 closes all of them (`close_raises`).
* `mcp_facade.py:43` lists the tools of every record, its comment (`:41`) those of active peers (`listed_tools`).
* Met while reading, without a run: `gossip.py:108` replaces a record whatever its sequence number, so a heartbeat that was overtaken
  replaces a newer one (SOFTWARE_DESIGN.md:292 reconciles versions; what that can do to
  detection is within the bound of `BoundedDetection`); DEAD peers are never evicted (ARCHITECTURE.md:135 against
  `catalog.py:16`, which nobody calls); nonces are never evicted (DEPLOYMENT_PLAN.md:215 against
  `tokens.py:81`); one malformed frame ends the demultiplexer of a connection that is up (TEST_CASES.md:238 against
  `channel.py:28`); evaluators are made up when there are not enough peers, so that a mesh of none reaches its quorum
  (ARCHITECTURE.md:209 and `test_swarm_consensus.py:32` count valid responses of peers, `orchestrator.py:31-34`); a heartbeat, which
  carries no tools, erases those of the record it replaces (`gossip.py:103`); the timeout is not applied to local
  handlers (USAGE_GUIDE.md:108 against `dispatcher.py:73`); Drop Heartbeat sweeps all peers by the real
  clock (`app.py:423`), and no loop of the page refreshes the others; `"auto"` takes the first candidate and balances nothing
  (USAGE_GUIDE.md:105); a call whose caller was cancelled, or whose request could not be written, keeps its entry while
  the demultiplexer runs (`channel.py:81-88`; `NoStaleEntry` excepts these).

## 7. Not modelled

The JSON of messages, which pydantic checks: `Channel` has a frame for each way it can turn out. What the facade formats
(resources, prompts, diagnostics). The content of arguments and results.

* Audio (`audio/server.py`, `audio/transcriber.py`): a handler computes on one buffer of floating-point samples and
  reads or writes files. It keeps nothing between calls and nothing runs beside it; its properties are numeric and
  belong to tests.
* Listener (`transport/listener.py`): hands an accepted connection to a callback. Its only state is the server handle.
* Identity and certificates: keys and X.509 by a library.
* Configuration: values, which are constants here; the theorems hold for all of them.
* `MeshNode.register_tool` and the `tool` decorator: two writes before anything runs. `start_and_block`: a loop of
  `sleep`.
* The rest of `app.py`: layout, and calls of what is modelled.

That evaluators answer by themselves, without a call over a channel, is the code's. The volume of reciprocal heartbeats
(each is answered, so two nodes exchange them without end) is not visible in a set of datagrams.
