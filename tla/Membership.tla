----------------------------- MODULE Membership -----------------------------
(***************************************************************************)
(* Membership of the mesh: on every node a GossipEngine                    *)
(* (mcp_mesh/discovery/gossip.py) and a FailureDetector                    *)
(* (mcp_mesh/discovery/detector.py) share one CapabilityRegistry, and      *)
(* MeshNode (mcp_mesh/node.py) starts and stops both.  Nodes exchange      *)
(* heartbeats over UDP.                                                    *)
(*                                                                         *)
(* A node id stands for the node's UDP endpoint as well.  Time advances in *)
(* ticks of one check period (1.0 s).  A record keeps the time since its   *)
(* last_heartbeat instead of the time of it, and datagrams carry their     *)
(* time in transit.  An event loop that is not blocked is prompt: it runs  *)
(* what is due before the next tick.  Now and then it is blocked and the   *)
(* tick passes first.  `net' holds the datagrams that may still arrive.    *)
(* On a reliable network each arrives once, within MaxDelay ticks;         *)
(* otherwise it may arrive any number of times within MaxDelay ticks, or   *)
(* never.  Either way datagrams overtake each other, and wait in the       *)
(* socket of a node whose loop is blocked.                                 *)
(*                                                                         *)
(* Heartbeats always carry empty tool lists, so a record's capabilities    *)
(* are left out here.                                                      *)
(***************************************************************************)
EXTENDS Integers, FiniteSets, Registry

CONSTANTS
    Nodes,
    Seeds,               \* Seeds[n]: the endpoints n is configured with
    SampleSize,          \* length of the slice of peers a heartbeat carries: 5
    HeartbeatInterval,   \* heartbeat_interval: 3 ticks.  0: broadcasts at any
                         \* moment, and time stands still
    SuspectTimeout,      \* suspect_timeout: 10 ticks
    FailureTimeout,      \* failure_timeout: 15 ticks
    MaxDelay,            \* bound: ticks a datagram is in transit
    Networks,            \* which networks there are: {FALSE}, {TRUE} or both;
                         \* TRUE is the reliable one
    MaxSeq,              \* bound: sequence numbers saturate here
    MaxStarts,           \* bound: how many times nodes are started
    MaxStops,            \* bound: how many times nodes stop or crash
    MaxStalls            \* bound: ticks that pass while a node's loop is blocked

ASSUME MembershipAssumption ==
    /\ IsFiniteSet(Nodes)
    /\ Seeds \in [Nodes -> SUBSET Nodes]
    /\ SampleSize \in Nat
    /\ HeartbeatInterval \in Nat
    /\ SuspectTimeout \in Nat /\ FailureTimeout \in Nat
    /\ SuspectTimeout <= FailureTimeout
    /\ MaxDelay \in Nat /\ Networks \subseteq BOOLEAN
    /\ MaxSeq \in Nat
    /\ MaxStarts \in Nat /\ MaxStops \in Nat /\ MaxStalls \in Nat

VARIABLES
    phase,      \* "down", "up", or "stopping": between the two halves of MeshNode.stop
    known,      \* _known_endpoints
    seq,        \* _seq
    catalog,    \* the registry: records [status, age, seq]
    beat,       \* ticks since the gossip loop's last broadcast
    lag,        \* ticks since the monitor loop was last at work; it is due from 1 on
    since,      \* ticks since the node was last started or went down
    net,        \* the datagrams in transit
    reliable,   \* does each datagram arrive exactly once?
    starts,     \* how many times a node was started
    stops,      \* how many times a node stopped or crashed
    stalls      \* how many ticks passed a blocked node by

nodeVars == <<known, seq, catalog, beat, lag>>
vars == <<phase, nodeVars, since, net, reliable, starts, stops, stalls>>

----------------------------------------------------------------------------

\* Ages and `since' saturate above every value a property tells apart.
Horizon == FailureTimeout + MaxDelay + MaxStalls + 3

Older(t) == IF t < Horizon THEN t + 1 ELSE t

Records == [status : Statuses, age : 0..Horizon, seq : 0..MaxSeq]

Datagrams ==
    [from : Nodes, to : Nodes, seq : 0..MaxSeq, sample : SUBSET Nodes, delay : 0..MaxDelay]

Datagram(n, to, s, sample) == [from |-> n, to |-> to, seq |-> s, sample |-> sample, delay |-> 0]

Up(n) == phase[n] = "up"

\* The UDP socket is open: also while the node stops.
Listening(n) == phase[n] \in {"up", "stopping"}

Init ==
    /\ phase = [n \in Nodes |-> "down"]
    /\ known = [n \in Nodes |-> Seeds[n]]
    /\ seq = [n \in Nodes |-> 0]
    /\ catalog = [n \in Nodes |-> EmptyCatalog]
    /\ beat = [n \in Nodes |-> 0]
    /\ lag = [n \in Nodes |-> 0]
    /\ since = [n \in Nodes |-> 0]
    /\ net = {}
    /\ reliable \in Networks
    /\ starts = 0
    /\ stops = 0
    /\ stalls = 0

----------------------------------------------------------------------------
(* GossipEngine                                                            *)

\* The record handle_datagram makes of a heartbeat.
FreshRecord(m) == [status |-> "ALIVE", age |-> 0, seq |-> m.seq]

\* A bug: the record is refreshed but its status is left to the detector.
MutReceiveKeepsStatus(m) ==
    LET n == m.to
        old == catalog[n].rec[m.from].status
        status == IF m.from \in PeersOf(catalog[n]) THEN old ELSE "ALIVE"
    IN
    /\ m.from # n
    /\ known' = [known EXCEPT ![n] = @ \cup {m.from} \cup (m.sample \ {n})]
    /\ catalog' = [catalog EXCEPT
                     ![n] = UpdatePeer(@, m.from, [FreshRecord(m) EXCEPT !.status = status])]

\* A bug: the sender of a heartbeat is not added to the endpoints.
MutReceiveForgetsSender(m) ==
    LET n == m.to IN
    /\ m.from # n
    /\ known' = [known EXCEPT ![n] = @ \cup (m.sample \ {n})]
    /\ catalog' = [catalog EXCEPT ![n] = UpdatePeer(@, m.from, FreshRecord(m))]

\* A bug: the peers of the sample are left aside.
MutReceiveIgnoresSample(m) ==
    LET n == m.to IN
    /\ m.from # n
    /\ known' = [known EXCEPT ![n] = @ \cup {m.from}]
    /\ catalog' = [catalog EXCEPT ![n] = UpdatePeer(@, m.from, FreshRecord(m))]

\* handle_datagram up to the reply: the sender is a known endpoint from now on,
\* its record is replaced whatever it was, and the peers of the sample become
\* known endpoints.
Receive(m) ==
    LET n == m.to IN
    /\ m.from # n
    /\ known' = [known EXCEPT ![n] = @ \cup {m.from} \cup (m.sample \ {n})]
    /\ catalog' = [catalog EXCEPT ![n] = UpdatePeer(@, m.from, FreshRecord(m))]

\* The reply to every heartbeat that is not the node's own, replies included.
Reciprocal(m) == Datagram(m.to, m.from, seq[m.to], {})

\* What is left in transit once m arrived.
After(m) == IF reliable THEN net \ {m} ELSE net

\* A heartbeat arrives at a node that listens.
HandleDatagram(m) ==
    /\ Listening(m.to)
    /\ Receive(m)
    /\ net' = After(m) \cup {Reciprocal(m)}
    /\ UNCHANGED <<phase, seq, beat, lag, since, reliable, starts, stops, stalls>>

\* A node's own heartbeat is ignored, and nobody gets one sent to a dead socket.
DiscardDatagram(m) ==
    /\ m.from = m.to \/ ~Listening(m.to)
    /\ net' = After(m)
    /\ UNCHANGED <<phase, nodeVars, since, reliable, starts, stops, stalls>>

\* The peer_sample of n's next heartbeat.
PeerSample(n) == FirstPeers(catalog[n], SampleSize) \ {n}

\* A bug: heartbeats go to the peers in the registry only, never to the seeds.
MutBroadcastToPeersOnly(n) ==
    /\ Listening(n)
    /\ beat[n] = HeartbeatInterval
    /\ seq' = [seq EXCEPT ![n] = IF @ < MaxSeq THEN @ + 1 ELSE @]
    /\ net' = net \cup {Datagram(n, e, seq'[n], PeerSample(n)) : e \in PeersOf(catalog[n])}
    /\ beat' = [beat EXCEPT ![n] = 0]
    /\ UNCHANGED <<phase, known, catalog, lag, since, reliable, starts, stops, stalls>>

\* An iteration of the gossip loop: broadcast_heartbeat, then sleep.
BroadcastHeartbeat(n) ==
    /\ Listening(n)
    /\ beat[n] = HeartbeatInterval
    /\ seq' = [seq EXCEPT ![n] = IF @ < MaxSeq THEN @ + 1 ELSE @]
    /\ net' = net \cup {Datagram(n, e, seq'[n], PeerSample(n)) : e \in known[n]}
    /\ beat' = [beat EXCEPT ![n] = 0]
    /\ UNCHANGED <<phase, known, catalog, lag, since, reliable, starts, stops, stalls>>

----------------------------------------------------------------------------
(* FailureDetector                                                         *)

\* The status check_peers gives a record of this age.
StatusAfter(age) ==
    IF age > FailureTimeout THEN "DEAD"
    ELSE IF age > SuspectTimeout THEN "SUSPECT" ELSE "ALIVE"

\* A bug: a peer once suspected is left as it is.
MutSwept(r) == [r EXCEPT !.status = IF @ = "ALIVE" THEN StatusAfter(r.age) ELSE @]

\* The record check_peers leaves.  The status follows from the age alone.
Swept(r) == [r EXCEPT !.status = StatusAfter(r.age)]

\* An iteration of the monitor loop: check_peers, then sleep(1.0).  No record is
\* ever removed.
CheckPeers(n) ==
    /\ Up(n)
    /\ lag[n] > 0
    /\ catalog' = [catalog EXCEPT ![n] = MapRecords(@, Swept)]
    /\ lag' = [lag EXCEPT ![n] = 0]
    /\ UNCHANGED <<phase, known, seq, beat, since, net, reliable, starts, stops, stalls>>

----------------------------------------------------------------------------
(* MeshNode                                                                *)

\* A process starts with the state __init__ gives it: MeshNode.start binds the
\* socket and creates both loops, which run their body at once.
Start(n) ==
    /\ phase[n] = "down"
    /\ starts < MaxStarts
    /\ starts' = starts + 1
    /\ phase' = [phase EXCEPT ![n] = "up"]
    /\ known' = [known EXCEPT ![n] = Seeds[n]]
    /\ seq' = [seq EXCEPT ![n] = 0]
    /\ catalog' = [catalog EXCEPT ![n] = EmptyCatalog]
    /\ beat' = [beat EXCEPT ![n] = HeartbeatInterval]
    /\ lag' = [lag EXCEPT ![n] = 1]
    /\ since' = [since EXCEPT ![n] = 0]
    /\ UNCHANGED <<net, reliable, stops, stalls>>

\* What is left of a node that is gone: nothing, until it starts again.
GoDown(n) ==
    /\ phase' = [phase EXCEPT ![n] = "down"]
    /\ known' = [known EXCEPT ![n] = Seeds[n]]
    /\ seq' = [seq EXCEPT ![n] = 0]
    /\ catalog' = [catalog EXCEPT ![n] = EmptyCatalog]
    /\ beat' = [beat EXCEPT ![n] = 0]
    /\ lag' = [lag EXCEPT ![n] = 0]
    /\ since' = [since EXCEPT ![n] = 0]
    /\ UNCHANGED <<net, reliable, starts, stalls>>

\* MeshNode.stop awaits detector.stop first: the socket stays open meanwhile.
StopDetector(n) ==
    /\ Up(n)
    /\ stops < MaxStops
    /\ stops' = stops + 1
    /\ phase' = [phase EXCEPT ![n] = "stopping"]
    /\ lag' = [lag EXCEPT ![n] = 0]
    /\ UNCHANGED <<known, seq, catalog, beat, since, net, reliable, starts, stalls>>

\* ... and then gossip.stop, after which the process ends.
StopGossip(n) == phase[n] = "stopping" /\ GoDown(n) /\ UNCHANGED stops

Crash(n) == Up(n) /\ stops < MaxStops /\ stops' = stops + 1 /\ GoDown(n)

----------------------------------------------------------------------------
(* Time                                                                    *)

Aged(r) == [r EXCEPT !.age = Older(@)]

\* The nodes whose loop has something to do.
Due == {n \in Nodes : Up(n) /\ (beat[n] = HeartbeatInterval \/ lag[n] > 0)}

\* A tick.  Where something is due the loop is blocked, and what it does is put
\* off, a broadcast, a sweep and the datagrams that come alike.
Tick ==
    /\ stalls' = stalls + Cardinality(Due)
    /\ stalls' <= MaxStalls
    /\ \A n \in Nodes : phase[n] # "stopping"
    /\ reliable => \A m \in net : m.delay < MaxDelay \/ m.to \in Due
    /\ net' = {[m EXCEPT !.delay = IF @ < MaxDelay THEN @ + 1 ELSE @] :
                   m \in {d \in net : d.delay < MaxDelay \/ d.to \in Due}}
    /\ beat' = [n \in Nodes |-> IF Up(n) /\ beat[n] < HeartbeatInterval THEN beat[n] + 1 ELSE beat[n]]
    /\ lag' = [n \in Nodes |-> IF Up(n) THEN lag[n] + 1 ELSE 0]
    /\ catalog' = [n \in Nodes |-> MapRecords(catalog[n], Aged)]
    /\ since' = [n \in Nodes |-> Older(since[n])]
    /\ UNCHANGED <<phase, known, seq, reliable, starts, stops>>

Next ==
    \/ \E m \in net : HandleDatagram(m) \/ DiscardDatagram(m)
    \/ \E n \in Nodes :
          \/ BroadcastHeartbeat(n) \/ CheckPeers(n)
          \/ Start(n) \/ StopDetector(n) \/ StopGossip(n) \/ Crash(n)
    \/ Tick

Spec == Init /\ [][Next]_vars

\* Does m tell its addressee of an endpoint or a peer it does not know?
CarriesNews(m) ==
    \/ m.from \notin PeersOf(catalog[m.to])
    \/ ~ (m.sample \ {m.to}) \subseteq known[m.to]

DeliverNews(n) == \E m \in net : m.to = n /\ CarriesNews(m) /\ HandleDatagram(m)

\* Every node starts, its gossip loop runs, and the network does not withhold
\* for ever what a node keeps repeating in its heartbeats.
Fairness ==
    \A n \in Nodes :
        WF_vars(Start(n)) /\ WF_vars(BroadcastHeartbeat(n)) /\ WF_vars(DeliverNews(n))

FairSpec == Spec /\ Fairness

----------------------------------------------------------------------------
(* Properties                                                              *)

\* Type invariant.  The insertion order of a registry lists each of its peers
\* once, as the order of a dict does.
TypeOK ==
    /\ phase \in [Nodes -> {"down", "up", "stopping"}]
    /\ known \in [Nodes -> SUBSET Nodes]
    /\ seq \in [Nodes -> 0..MaxSeq]
    /\ catalog = [n \in Nodes |-> catalog[n]]
    /\ \A n \in Nodes : IsCatalog(catalog[n], Nodes, Records)
    /\ beat \in [Nodes -> 0..HeartbeatInterval]
    /\ lag \in [Nodes -> 0..(MaxStalls + 1)]
    /\ since \in [Nodes -> 0..Horizon]
    /\ net \subseteq Datagrams
    /\ reliable \in Networks
    /\ starts \in 0..MaxStarts
    /\ stops \in 0..MaxStops
    /\ stalls \in 0..MaxStalls

\* Whatever order heartbeats and sweeps come in, and however long the loop is
\* blocked, the status a running node shows for a peer is the one its silence
\* called for when the node last swept: handle_datagram and check_peers both
\* write the record and never leave a status of one beside the age of the other.
StatusFollowsSilence ==
    \A n \in Nodes : Up(n) =>
        \A p \in PeersOf(catalog[n]) :
            LET r == catalog[n].rec[p] IN r.status = StatusAfter(r.age - lag[n])

\* A peer that went down is DEAD in every registry that lists it, from
\* failure_timeout plus one sweep plus the longest transit time on (and the
\* ticks that blocked nodes missed), and stays so: no late or repeated heartbeat
\* of its former life revives it after that.
BoundedDetection ==
    \A n, p \in Nodes :
        /\ Up(n) /\ phase[p] = "down" /\ p \in PeersOf(catalog[n])
        /\ since[p] > MaxDelay + FailureTimeout + 1 + stalls
        => catalog[n].rec[p].status = "DEAD"

\* Registration is mutual: a node that lists a peer, from a heartbeat the peer
\* sent in its present life, is an endpoint of that peer and the peer one of
\* its own, so each keeps hearing from the other.
MutualAcquaintance ==
    \A n, p \in Nodes :
        /\ Listening(n) /\ Listening(p) /\ p \in PeersOf(catalog[n])
        /\ since[p] > catalog[n].rec[p].age + MaxDelay + stalls
        => n \in known[p] /\ p \in known[n]

\* On a network that loses nothing, and as long as no loop is blocked, a node and
\* its seed list each other ALIVE once both have been up for a heartbeat interval and a round trip, however
\* they were stopped and restarted before: neither is missed, suspected, or
\* still taken for dead from its former life.
SeedAndNodeSettle ==
    reliable /\ stalls = 0 => \A n \in Nodes : \A p \in Seeds[n] \ {n} :
        /\ Up(n) /\ since[n] > HeartbeatInterval + 2 * MaxDelay
        /\ Up(p) /\ since[p] > HeartbeatInterval + 2 * MaxDelay
        => /\ p \in PeersOf(catalog[n]) /\ catalog[n].rec[p].status = "ALIVE"
           /\ n \in PeersOf(catalog[p]) /\ catalog[p].rec[n].status = "ALIVE"

\* Nodes that know one common seed and nothing else all end up in each other's
\* registry, whatever heartbeats are lost, repeated or overtaken on the way.
EveryPairMeets ==
    \A n, p \in Nodes : n # p => <>(p \in PeersOf(catalog[n]))

\* The same as a safety property, for a mesh larger than a sample: as long as
\* some pair of running nodes has not met, a datagram in transit or the next
\* heartbeat of some node tells its receiver something new.  It would follow
\* from the `random peer sample' of PRIORITIZED_PLAN.md:84; the code takes the
\* first five peers it ever registered, each time.
NobodyLeftOut ==
    (\A n \in Nodes : Up(n)) =>
        \/ \A n \in Nodes : Nodes \ {n} = PeersOf(catalog[n])
        \/ \E m \in net : CarriesNews(m)
        \/ \E n \in Nodes : \E e \in known[n] \ {n} :
              CarriesNews(Datagram(n, e, seq[n], PeerSample(n)))

=============================================================================
