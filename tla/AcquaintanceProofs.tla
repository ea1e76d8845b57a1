-------------------------- MODULE AcquaintanceProofs --------------------------
(***************************************************************************)
(* Who knows whom, for any number of nodes: a node that lists a peer and   *)
(* that peer are endpoints of one another, and on a network that loses     *)
(* nothing a node and its seed list each other ALIVE after a heartbeat     *)
(* interval and a round trip.                                              *)
(*                                                                         *)
(* A step that is no tick changes little that matters here.  Changes says  *)
(* what, and every action but Tick is shown to do no more; the invariants  *)
(* are then shown for a step of that kind and for a tick.                  *)
(***************************************************************************)
EXTENDS MembershipProofs

----------------------------------------------------------------------------
(* The invariants.                                                         *)

\* A running node has the endpoints it is configured with.
SeedsKnown == \A n \in Nodes : Listening(n) => Seeds[n] \subseteq known[n]

\* Who sends a datagram has its addressee for an endpoint, if the sender is
\* still in the life it sent it in.
Introduced ==
    \A m \in net : Listening(m.from) /\ since[m.from] > m.delay + stalls => m.to \in known[m.from]

\* So it is with the peers a node lists.
Acquainted ==
    \A n \in Nodes : \A p \in PeersOf(catalog[n]) : Listening(n) =>
        /\ p \in known[n]
        /\ Listening(p) /\ since[p] > catalog[n].rec[p].age + MaxDelay + stalls => n \in known[p]

Met == SeedsKnown /\ Introduced /\ Acquainted

\* A heartbeat from n to p that was sent between lo and hi ticks ago.
Sent(n, p, lo, hi) ==
    \E m \in net : m.from = n /\ m.to = p /\ lo <= m.delay /\ m.delay <= hi

\* A heartbeat of that time is on its way to p, or p heard from n at most hi
\* ticks ago, or p was not there yet.
Heard(n, p, lo, hi) ==
    \/ Sent(n, p, lo, hi)
    \/ n \in PeersOf(catalog[p]) /\ catalog[p].rec[n].age <= hi
    \/ since[p] <= hi

\* Such a heartbeat or the answer to it is on its way, or n heard from p.
Answered(n, p, lo, hi) ==
    \/ Sent(n, p, lo, hi)
    \/ Sent(p, n, lo - MaxDelay, hi)
    \/ p \in PeersOf(catalog[n]) /\ catalog[n].rec[p].age <= hi
    \/ since[p] <= hi

\* In each window of a heartbeat interval, k ticks back and the present one,
\* a node that ran sent its seed a heartbeat.
Settling ==
    reliable /\ stalls = 0 => \A n \in Nodes : \A p \in Seeds[n] \ {n} : Up(n) /\ Up(p) =>
        /\ \A b \in Nat : beat[n] = b /\ since[n] >= b =>
              Heard(n, p, 0, b) /\ Answered(n, p, 0, b)
        /\ \A k \in Nat \ {0} : since[n] >= k + HeartbeatInterval - 1 =>
              /\ Heard(n, p, k, k + HeartbeatInterval - 1)
              /\ Answered(n, p, k, k + HeartbeatInterval - 1)

----------------------------------------------------------------------------
(* What a step that is no tick changes.                                    *)

\* The record of p at x is not an older one.
Renewed(x, p) ==
    p \in PeersOf(catalog'[x]) /\ catalog'[x].rec[p].age <= catalog[x].rec[p].age

\* x has just broadcast.
Broadcasts(x) ==
    beat'[x] = 0 /\ \A e \in known[x] : \E d \in net' : d.from = x /\ d.to = e /\ d.delay = 0

\* x lives on.
Continues(x) ==
    /\ Listening(x) /\ (Up(x)' => Up(x))
    /\ since'[x] = since[x] /\ known[x] \subseteq known'[x]
    /\ \A p \in PeersOf(catalog[x]) : Renewed(x, p)
    /\ beat'[x] = beat[x] \/ Broadcasts(x)

\* x has just been started.
Begins(x) ==
    /\ since'[x] = 0 /\ known'[x] = Seeds[x] /\ PeersOf(catalog'[x]) = {}
    /\ beat'[x] = HeartbeatInterval

\* p is listed by x as it was, or after a heartbeat.
Founded(x, p) ==
    \/ p \in PeersOf(catalog[x]) /\ catalog'[x].rec[p].age = catalog[x].rec[p].age
    \/ \E m \in net : m.to = x /\ m.from = p /\ catalog'[x].rec[p].age = 0 /\ p \in known'[x]

\* m was handled: its sender is listed anew and is sent a reply.
Handled(m) ==
    /\ m.from \in PeersOf(catalog'[m.to]) /\ catalog'[m.to].rec[m.from].age = 0
    /\ \E d \in net' : d.from = m.to /\ d.to = m.from /\ d.delay = 0

Changes ==
    /\ reliable' = reliable /\ stalls' = stalls
    /\ \A x \in Nodes : Listening(x)' =>
          /\ Continues(x) \/ Begins(x)
          /\ \A p \in PeersOf(catalog'[x]) : Founded(x, p)
    /\ \A m \in net' : m \in net \/ m.to \in known'[m.from]
    /\ \A m \in net : \/ m \in net' \/ Handled(m)
                      \/ reliable => m.from = m.to \/ ~Listening(m.to)

\* The ages of what is not touched.
LEMMA SameAges ==
    ASSUME TypeOK, NEW x \in Nodes, catalog'[x] = catalog[x]
    PROVE  /\ \A p \in PeersOf(catalog[x]) : Renewed(x, p)
           /\ \A p \in PeersOf(catalog'[x]) : Founded(x, p)
<1>1. \A p \in PeersOf(catalog[x]) : catalog[x].rec[p].age \in 0..Horizon
  BY RecordFacts
<1> QED
  BY <1>1, Numbers DEF Renewed, Founded

LEMMA HandleChanges ==
    ASSUME TypeOK, NEW m \in net, HandleDatagram(m)
    PROVE  Changes
<1> DEFINE n == m.to
           f == m.from
           r == FreshRecord(m)
<1>1. n \in Nodes /\ f \in Nodes /\ m \in Datagrams /\ Listed(catalog[n])
  BY Typed, Numbers
<1>2. r \in Records /\ r.age = 0
  BY <1>1, Numbers DEF FreshRecord, Records, Statuses, Datagrams
<1>3. /\ UNCHANGED <<phase, seq, beat, lag, since, reliable, starts, stops, stalls>>
      /\ known' = [known EXCEPT ![n] = @ \cup {f} \cup (m.sample \ {n})]
      /\ catalog' = [catalog EXCEPT ![n] = UpdatePeer(@, f, r)]
      /\ net' = After(m) \cup {Reciprocal(m)} /\ Listening(n)
  BY DEF HandleDatagram, Receive
<1> HIDE DEF r
<1>4. /\ Listed(UpdatePeer(catalog[n], f, r))
      /\ catalog' = [catalog EXCEPT ![n] = UpdatePeer(catalog[n], f, r)]
  BY <1>1, <1>2, <1>3, UpdateListed
<1>5. catalog'[n] = UpdatePeer(catalog[n], f, r) /\ \A x \in Nodes : x # n => catalog'[x] = catalog[x]
  BY <1>1, <1>4, CatalogReplaced
<1>6. /\ PeersOf(catalog'[n]) = PeersOf(catalog[n]) \cup {f} /\ catalog'[n].rec[f] = r
      /\ \A x \in PeersOf(catalog[n]) : x # f => catalog'[n].rec[x] = catalog[n].rec[x]
  BY <1>1, <1>2, <1>5, UpdateListed
<1>7. f \in known'[n] /\ \A x \in Nodes : known[x] \subseteq known'[x]
  BY <1>1, <1>3, Typed
<1>8. Reciprocal(m) \in net' /\ Reciprocal(m).from = n /\ Reciprocal(m).to = f /\ Reciprocal(m).delay = 0
  BY <1>3 DEF Reciprocal, Datagram
<1>9. ASSUME NEW x \in Nodes
      PROVE  /\ \A p \in PeersOf(catalog[x]) : Renewed(x, p)
             /\ \A p \in PeersOf(catalog'[x]) : Founded(x, p)
  <2>1. CASE x # n
    BY <1>5, <2>1, SameAges
  <2>2. CASE x = n
    <3>1. \A p \in PeersOf(catalog[n]) : catalog[n].rec[p].age \in 0..Horizon
      BY <1>1, RecordFacts
    <3>2. \A p \in PeersOf(catalog[n]) : Renewed(n, p)
      BY <1>2, <1>6, <3>1, Numbers DEF Renewed
    <3>3. \A p \in PeersOf(catalog'[n]) : Founded(n, p)
      BY <1>2, <1>6, <1>7 DEF Founded
    <3> QED
      BY <2>2, <3>2, <3>3
  <2> QED
    BY <2>1, <2>2
<1>10. \A x \in Nodes : Listening(x)' => Continues(x)
  BY <1>3, <1>7, <1>9 DEF Continues, Listening, Up
<1>11. \A d \in net' : d \in net \/ d.to \in known'[d.from]
  BY <1>3, <1>7, <1>8 DEF After
<1>12. Handled(m)
  BY <1>2, <1>6, <1>8 DEF Handled
<1>13. \A d \in net : d \in net' \/ d = m
  BY <1>3 DEF After
<1> QED
  BY <1>3, <1>9, <1>10, <1>11, <1>12, <1>13 DEF Changes

\* Steps that leave the registries' ages, the endpoints and the lives of all
\* nodes alone.
LEMMA DiscardChanges ==
    ASSUME TypeOK, NEW m \in net, DiscardDatagram(m)
    PROVE  Changes
<1>1. /\ UNCHANGED <<phase, known, seq, catalog, beat, lag, since, reliable, starts, stops, stalls>>
      /\ net' = After(m) /\ (m.from = m.to \/ ~Listening(m.to))
  BY DEF DiscardDatagram, nodeVars
<1>2. \A x \in Nodes : Listening(x)' => Continues(x) /\ \A p \in PeersOf(catalog'[x]) : Founded(x, p)
  BY <1>1, SameAges DEF Continues, Listening, Up
<1>3. net' \subseteq net /\ \A d \in net : d \in net' \/ d = m
  BY <1>1 DEF After
<1> QED
  BY <1>1, <1>2, <1>3 DEF Changes

LEMMA BroadcastChanges ==
    ASSUME TypeOK, NEW n \in Nodes, BroadcastHeartbeat(n)
    PROVE  Changes
<1>1. /\ UNCHANGED <<phase, known, catalog, lag, since, reliable, starts, stops, stalls>>
      /\ beat' = [beat EXCEPT ![n] = 0]
      /\ net' = net \cup {Datagram(n, e, seq'[n], PeerSample(n)) : e \in known[n]}
  BY DEF BroadcastHeartbeat
<1>2. \A e \in known[n] : LET d == Datagram(n, e, seq'[n], PeerSample(n))
                          IN  d \in net' /\ d.from = n /\ d.to = e /\ d.delay = 0
  BY <1>1 DEF Datagram
<1>3. beat'[n] = 0 /\ \A x \in Nodes : x # n => beat'[x] = beat[x]
  BY <1>1, Typed
<1>4. Broadcasts(n)
  BY <1>2, <1>3 DEF Broadcasts
<1>5. \A x \in Nodes : Listening(x)' => Continues(x) /\ \A p \in PeersOf(catalog'[x]) : Founded(x, p)
  BY <1>1, <1>3, <1>4, SameAges DEF Continues, Listening, Up
<1>6. \A d \in net' : d \in net \/ d.to \in known'[d.from]
  BY <1>1 DEF Datagram
<1> QED
  BY <1>1, <1>5, <1>6 DEF Changes

LEMMA CheckChanges ==
    ASSUME TypeOK, NEW n \in Nodes, CheckPeers(n)
    PROVE  Changes
<1>1. /\ UNCHANGED <<phase, known, seq, beat, since, net, reliable, starts, stops, stalls>>
      /\ catalog' = [catalog EXCEPT ![n] = MapRecords(@, Swept)]
  BY DEF CheckPeers
<1>2. Listed(catalog[n]) /\ Listed(MapRecords(catalog[n], Swept))
  BY Typed, SweptListed
<1>3. catalog'[n] = MapRecords(catalog[n], Swept) /\ \A x \in Nodes : x # n => catalog'[x] = catalog[x]
  <2>1. catalog' = [catalog EXCEPT ![n] = MapRecords(catalog[n], Swept)]
    BY <1>1
  <2> QED
    BY <1>2, <2>1, CatalogReplaced
<1>4. /\ PeersOf(catalog'[n]) = PeersOf(catalog[n])
      /\ \A p \in PeersOf(catalog[n]) : catalog'[n].rec[p] = Swept(catalog[n].rec[p])
  BY <1>2, <1>3, SweptListed
<1>5. \A p \in PeersOf(catalog[n]) : /\ catalog'[n].rec[p].age = catalog[n].rec[p].age
                                     /\ catalog[n].rec[p].age \in 0..Horizon
  <2>1. \A r \in Records : Swept(r).age = r.age
    BY DEF Swept, Records
  <2> QED
    BY <1>4, <2>1, RecordFacts
<1>6. ASSUME NEW x \in Nodes
      PROVE  /\ \A p \in PeersOf(catalog[x]) : Renewed(x, p)
             /\ \A p \in PeersOf(catalog'[x]) : Founded(x, p)
  <2>1. CASE x # n
    BY <1>3, <2>1, SameAges
  <2>2. CASE x = n
    BY <1>4, <1>5, <2>2, Numbers DEF Renewed, Founded
  <2> QED
    BY <2>1, <2>2
<1>7. \A x \in Nodes : Listening(x)' => Continues(x)
  BY <1>1, <1>6 DEF Continues, Listening, Up
<1> QED
  BY <1>1, <1>6, <1>7 DEF Changes

\* A node comes or goes.
LEMMA LifeChanges ==
    ASSUME TypeOK, NEW n \in Nodes, Start(n) \/ GoDown(n)
    PROVE  Changes
<1>1. /\ known' = [known EXCEPT ![n] = Seeds[n]] /\ catalog' = [catalog EXCEPT ![n] = EmptyCatalog]
      /\ since' = [since EXCEPT ![n] = 0] /\ UNCHANGED <<net, reliable, stalls>>
      /\ \/ /\ phase' = [phase EXCEPT ![n] = "up"]
            /\ beat' = [beat EXCEPT ![n] = HeartbeatInterval]
         \/ /\ phase' = [phase EXCEPT ![n] = "down"]
            /\ beat' = [beat EXCEPT ![n] = 0]
  BY DEF Start, GoDown
<1>2. catalog'[n] = EmptyCatalog /\ \A x \in Nodes : x # n => catalog'[x] = catalog[x]
  BY <1>1, EmptyListed, CatalogReplaced
<1>3. /\ known'[n] = Seeds[n] /\ since'[n] = 0 /\ PeersOf(catalog'[n]) = {}
      /\ beat'[n] = HeartbeatInterval \/ phase'[n] = "down"
      /\ \A x \in Nodes : x # n => /\ phase'[x] = phase[x] /\ known'[x] = known[x]
                                   /\ since'[x] = since[x] /\ beat'[x] = beat[x]
  BY <1>1, <1>2, Typed, EmptyListed
<1>4. ASSUME NEW x \in Nodes, Listening(x)'
      PROVE  /\ Continues(x) \/ Begins(x)
             /\ \A p \in PeersOf(catalog'[x]) : Founded(x, p)
  <2>1. CASE x = n
    BY <1>3, <1>4, <2>1 DEF Begins, Listening
  <2>2. CASE x # n
    <3>1. /\ \A p \in PeersOf(catalog[x]) : Renewed(x, p)
          /\ \A p \in PeersOf(catalog'[x]) : Founded(x, p)
      BY <1>2, <2>2, SameAges
    <3> QED
      BY <1>3, <1>4, <2>2, <3>1 DEF Continues, Listening, Up
  <2> QED
    BY <2>1, <2>2
<1> QED
  BY <1>1, <1>4 DEF Changes

LEMMA StopDetectorChanges ==
    ASSUME TypeOK, NEW n \in Nodes, StopDetector(n)
    PROVE  Changes
<1>1. /\ UNCHANGED <<known, seq, catalog, beat, since, net, reliable, starts, stalls>>
      /\ phase' = [phase EXCEPT ![n] = "stopping"] /\ Up(n)
  BY DEF StopDetector
<1>2. phase'[n] = "stopping" /\ \A x \in Nodes : x # n => phase'[x] = phase[x]
  BY <1>1, Typed
<1>3. \A x \in Nodes : Listening(x)' => Continues(x) /\ \A p \in PeersOf(catalog'[x]) : Founded(x, p)
  BY <1>1, <1>2, SameAges DEF Continues, Listening, Up
<1> QED
  BY <1>1, <1>3 DEF Changes

LEMMA StutterChanges ==
    ASSUME TypeOK, UNCHANGED vars
    PROVE  Changes
<1>1. UNCHANGED <<phase, known, seq, catalog, beat, lag, since, net, reliable, starts, stops, stalls>>
  BY DEF vars, nodeVars
<1>2. \A x \in Nodes : Listening(x)' => Continues(x) /\ \A p \in PeersOf(catalog'[x]) : Founded(x, p)
  BY <1>1, SameAges DEF Continues, Listening, Up
<1> QED
  BY <1>1, <1>2 DEF Changes

\* Every step is a tick or one of these.
LEMMA TickOrChanges ==
    ASSUME TypeOK, [Next]_vars
    PROVE  Tick \/ Changes
<1>1. ASSUME NEW n \in Nodes,
             \/ BroadcastHeartbeat(n) \/ CheckPeers(n)
             \/ Start(n) \/ StopDetector(n) \/ StopGossip(n) \/ Crash(n)
      PROVE  Changes
  BY <1>1, BroadcastChanges, CheckChanges, LifeChanges, StopDetectorChanges DEF StopGossip, Crash
<1>2. CASE \E m \in net : HandleDatagram(m) \/ DiscardDatagram(m)
  BY <1>2, HandleChanges, DiscardChanges
<1> QED
  BY <1>1, <1>2, StutterChanges DEF Next

----------------------------------------------------------------------------
(* What a tick changes.                                                    *)

LEMMA TickDatagrams ==
    ASSUME TypeOK, Tick, NEW d \in net'
    PROVE  \E m \in net : /\ m.from = d.from /\ m.to = d.to
                          /\ m.delay + stalls < d.delay + stalls'
<1>1. PICK m \in net : /\ d = [m EXCEPT !.delay = IF @ < MaxDelay THEN @ + 1 ELSE @]
                       /\ m.delay < MaxDelay \/ m.to \in Due
  BY TickRest
<1>2. m \in Datagrams /\ m.delay \in Nat /\ MaxDelay \in Nat /\ stalls \in Nat
  BY Numbers
<1>3. /\ d.from = m.from /\ d.to = m.to
      /\ d.delay = (IF m.delay < MaxDelay THEN m.delay + 1 ELSE m.delay)
  BY <1>1, <1>2 DEF Datagrams
<1>4. stalls' \in Nat /\ stalls <= stalls' /\ (m.to \in Due => stalls + 1 <= stalls')
  BY TickStalls
<1> QED
  BY <1>1, <1>2, <1>3, <1>4

LEMMA TickLives ==
    ASSUME TypeOK, Tick, NEW n \in Nodes
    PROVE  /\ since[n] \in Nat /\ since'[n] \in Nat /\ since'[n] <= since[n] + 1
           /\ since'[n] \in 0..Horizon
           /\ \A p \in PeersOf(catalog[n]) :
                 /\ catalog[n].rec[p].age \in Nat /\ catalog'[n].rec[p].age \in Nat
                 /\ catalog'[n].rec[p].age <= catalog[n].rec[p].age + 1
                 /\ catalog'[n].rec[p].age = catalog[n].rec[p].age + 1 \/ catalog'[n].rec[p].age = Horizon
<1>1. Horizon \in Nat
  BY Numbers
<1>2. since[n] \in 0..Horizon /\ since'[n] = Older(since[n])
  BY Numbers, TickRest
<1>3. \A p \in PeersOf(catalog[n]) :
         catalog[n].rec[p].age \in 0..Horizon /\ catalog'[n].rec[p].age = Older(catalog[n].rec[p].age)
  BY RecordFacts, TickAges
<1>4. \A t \in 0..Horizon : /\ Older(t) \in 0..Horizon /\ Older(t) <= t + 1
                            /\ Older(t) = t + 1 \/ Older(t) = Horizon
  BY <1>1, OlderBounds
<1>5. \A t \in 0..Horizon : t \in Nat
  BY <1>1
<1> QED
  BY <1>1, <1>2, <1>3, <1>4, <1>5

----------------------------------------------------------------------------
(* Acquaintance.                                                           *)

LEMMA ChangesKeepMet ==
    ASSUME TypeOK, TypeOK', Met, Changes
    PROVE  Met'
<1>0. SeedsKnown /\ Introduced /\ Acquainted
  BY DEF Met
<1>1. /\ stalls' = stalls /\ stalls \in Nat /\ MaxDelay \in Nat
      /\ \A x \in Nodes : since[x] \in Nat
      /\ \A m \in net : m.from \in Nodes /\ m.to \in Nodes /\ m.delay \in Nat /\ m.delay <= MaxDelay
  BY Numbers DEF Changes
<1>2. \A m \in net' : m.from \in Nodes /\ m.to \in Nodes /\ m.delay \in Nat
  <2>1. \A m \in Datagrams : m.from \in Nodes /\ m.to \in Nodes /\ m.delay \in Nat
    BY MembershipAssumption DEF Datagrams
  <2> QED
    BY <2>1 DEF TypeOK
<1>3. SeedsKnown'
  <2>1. ASSUME NEW n \in Nodes, Listening(n)'
        PROVE  Seeds[n] \subseteq known'[n]
    BY <1>0, <2>1 DEF Changes, Continues, Begins, SeedsKnown
  <2> QED
    BY <2>1 DEF SeedsKnown
<1>4. ASSUME NEW m \in net, Listening(m.from)', since'[m.from] > m.delay + stalls'
      PROVE  m.to \in known'[m.from]
  <2>1. Continues(m.from)
    BY <1>1, <1>4 DEF Changes, Begins
  <2> QED
    BY <1>0, <1>1, <1>4, <2>1 DEF Continues, Introduced
<1>5. Introduced'
  <2>1. ASSUME NEW m \in net', Listening(m.from)', since'[m.from] > m.delay + stalls'
        PROVE  m.to \in known'[m.from]
    BY <1>4, <2>1 DEF Changes
  <2> QED
    BY <2>1 DEF Introduced
<1>6. Acquainted'
  <2>1. ASSUME NEW n \in Nodes, NEW p \in PeersOf(catalog'[n]), Listening(n)'
        PROVE  p \in known'[n]
    <3>1. Continues(n) /\ Founded(n, p)
      BY <2>1 DEF Changes, Begins
    <3>2. CASE p \in PeersOf(catalog[n])
      BY <1>0, <3>1, <3>2 DEF Continues, Acquainted
    <3>3. CASE p \notin PeersOf(catalog[n])
      BY <3>1, <3>3 DEF Founded
    <3> QED
      BY <3>2, <3>3
  <2>2. ASSUME NEW n \in Nodes, NEW p \in PeersOf(catalog'[n]), Listening(n)', Listening(p)',
               since'[p] > catalog'[n].rec[p].age + MaxDelay + stalls'
        PROVE  n \in known'[p]
    <3>1. Continues(n) /\ Founded(n, p)
      BY <2>2 DEF Changes, Begins
    <3>2. CASE \E m \in net : m.to = n /\ m.from = p /\ catalog'[n].rec[p].age = 0
      <4>1. PICK m \in net : m.to = n /\ m.from = p /\ catalog'[n].rec[p].age = 0
        BY <3>2
      <4>2. p \in Nodes /\ since'[p] \in Nat /\ stalls' \in Nat
        <5>1. since' \in [Nodes -> 0..Horizon] /\ Horizon \in Nat /\ p \in Nodes
          BY <1>1, <4>1, Numbers DEF TypeOK
        <5> QED
          BY <1>1, <5>1
      <4>3. since'[p] > m.delay + stalls'
        BY <1>1, <2>2, <4>1, <4>2
      <4> QED
        BY <1>4, <2>2, <4>1, <4>3
    <3>3. CASE p \in PeersOf(catalog[n]) /\ catalog'[n].rec[p].age = catalog[n].rec[p].age
      <4>1. p \in Nodes /\ catalog[n].rec[p].age \in Nat
        BY <3>3, RecordFacts, Numbers
      <4>2. Continues(p)
        BY <1>1, <2>2, <3>3, <4>1 DEF Changes, Begins
      <4>3. n \in known[p]
        BY <1>0, <1>1, <2>2, <3>1, <3>3, <4>2 DEF Continues, Acquainted
      <4> QED
        BY <4>2, <4>3 DEF Continues
    <3> QED
      BY <3>1, <3>2, <3>3 DEF Founded
  <2> QED
    BY <2>1, <2>2 DEF Acquainted
<1> QED
  BY <1>3, <1>5, <1>6 DEF Met

LEMMA TickKeepsMet ==
    ASSUME TypeOK, TypeOK', Met, Tick
    PROVE  Met'
<1>0. SeedsKnown /\ Introduced /\ Acquainted
  BY DEF Met
<1>1. /\ UNCHANGED <<phase, known>> /\ stalls \in Nat /\ stalls' \in Nat /\ stalls <= stalls'
      /\ MaxDelay \in Nat /\ Horizon \in Nat
  BY TickRest, TickStalls, Numbers
<1>2. SeedsKnown'
  BY <1>0, <1>1 DEF SeedsKnown, Listening
<1>3. Introduced'
  <2>1. ASSUME NEW d \in net', Listening(d.from), since'[d.from] > d.delay + stalls'
        PROVE  d.to \in known[d.from]
    <3>1. PICK m \in net : m.from = d.from /\ m.to = d.to /\ m.delay + stalls < d.delay + stalls'
      BY TickDatagrams
    <3>2. m.from \in Nodes /\ m.delay \in Nat
      BY Numbers
    <3>3. since[m.from] \in Nat /\ since'[m.from] \in Nat /\ since'[m.from] <= since[m.from] + 1
      BY <3>2, TickLives
    <3>4. d.delay \in Nat
      <4>1. \A e \in Datagrams : e.delay \in Nat
        BY MembershipAssumption DEF Datagrams
      <4> QED
        BY <4>1 DEF TypeOK
    <3>5. since[m.from] > m.delay + stalls
      BY <1>1, <2>1, <3>1, <3>2, <3>3, <3>4
    <3> QED
      BY <1>0, <2>1, <3>1, <3>5 DEF Introduced
  <2> QED
    BY <1>1, <2>1 DEF Introduced, Listening
<1>4. Acquainted'
  <2>1. ASSUME NEW n \in Nodes, NEW p \in PeersOf(catalog[n]), Listening(n), Listening(p),
               since'[p] > catalog'[n].rec[p].age + MaxDelay + stalls'
        PROVE  n \in known[p]
    <3>1. p \in Nodes
      BY RecordFacts
    <3>2. /\ since[p] \in Nat /\ since'[p] \in 0..Horizon /\ since'[p] <= since[p] + 1
          /\ catalog[n].rec[p].age \in Nat
          /\ catalog'[n].rec[p].age = catalog[n].rec[p].age + 1 \/ catalog'[n].rec[p].age = Horizon
      BY <3>1, TickLives
    <3>3. since[p] > catalog[n].rec[p].age + MaxDelay + stalls
      BY <1>1, <2>1, <3>2
    <3> QED
      BY <1>0, <2>1, <3>3 DEF Acquainted
  <2>2. \A n \in Nodes : PeersOf(catalog'[n]) = PeersOf(catalog[n])
    BY TickAges
  <2> QED
    BY <1>0, <1>1, <2>1, <2>2 DEF Acquainted, Listening
<1> QED
  BY <1>2, <1>3, <1>4 DEF Met

LEMMA MetInvariance == Spec => []Met
<1>1. Init => Met
  BY EmptyListed DEF Init, Met, SeedsKnown, Introduced, Acquainted, Listening
<1>2. TypeOK /\ TypeOK' /\ Met /\ [Next]_vars => Met'
  BY TickOrChanges, TickKeepsMet, ChangesKeepMet
<1>3. IInv => TypeOK
  BY DEF IInv
<1> QED
  BY <1>1, <1>2, <1>3, Invariance, PTL DEF Spec

\* A node and a peer it lists are endpoints of one another, once the peer has
\* lived longer than its last heartbeat took: GossipEngine.handle_datagram
\* makes an endpoint of every sender, and only an endpoint is sent a heartbeat.
THEOREM AcquaintanceIsMutual == Spec => []MutualAcquaintance
<1>1. Met => MutualAcquaintance
  BY DEF Met, Acquainted, MutualAcquaintance
<1> QED
  BY <1>1, MetInvariance, PTL

----------------------------------------------------------------------------
(* Settling.                                                               *)

\* A step that is no tick lets no contact lapse between nodes that live on.
LEMMA ChangesKeepContact ==
    ASSUME TypeOK, Changes, reliable, NEW n \in Nodes, NEW p \in Nodes, n # p,
           Listening(n)', Listening(p)', Continues(n), Continues(p), NEW lo \in Int, NEW hi \in Nat
    PROVE  /\ Heard(n, p, lo, hi) => Heard(n, p, lo, hi)'
           /\ Answered(n, p, lo, hi) => Answered(n, p, lo, hi)'
<1>1. /\ \A m \in net : m.delay \in Nat /\ m.delay <= MaxDelay
      /\ MaxDelay \in Nat
  BY Numbers
<1>2. Listening(n) /\ Listening(p) /\ since'[p] = since[p]
  BY DEF Continues
<1>3. \A x \in {n, p} : \A y \in PeersOf(catalog[x]) :
         /\ y \in PeersOf(catalog'[x]) /\ catalog'[x].rec[y].age <= catalog[x].rec[y].age
         /\ catalog[x].rec[y].age \in Nat
  BY RecordFacts, Numbers DEF Continues, Renewed
<1>4. ASSUME NEW x \in {n, p}, NEW y \in {n, p}, x # y, y \in PeersOf(catalog[x]), catalog[x].rec[y].age <= hi
      PROVE  y \in PeersOf(catalog'[x]) /\ catalog'[x].rec[y].age <= hi
  <2>1. catalog'[x].rec[y].age \in Nat \/ catalog'[x].rec[y].age = 0
    <3>1. Founded(x, y)
      BY <1>3, <1>4 DEF Changes
    <3> QED
      BY <1>3, <1>4, <3>1 DEF Founded
  <2> QED
    BY <1>3, <1>4, <2>1
<1>5. ASSUME NEW x \in {n, p}, NEW y \in {n, p}, x # y, NEW m \in net, m.from = x, m.to = y
      PROVE  m \in net' \/ Handled(m)
  BY <1>2, <1>5 DEF Changes
<1>6. ASSUME Heard(n, p, lo, hi)
      PROVE  Heard(n, p, lo, hi)'
  <2>1. CASE Sent(n, p, lo, hi)
    <3>1. PICK m \in net : m.from = n /\ m.to = p /\ lo <= m.delay /\ m.delay <= hi
      BY <2>1 DEF Sent
    <3>2. CASE m \in net'
      BY <3>1, <3>2 DEF Heard, Sent
    <3>3. CASE Handled(m)
      BY <3>1, <3>3 DEF Heard, Handled
    <3> QED
      BY <1>5, <3>1, <3>2, <3>3
  <2>2. CASE n \in PeersOf(catalog[p]) /\ catalog[p].rec[n].age <= hi
    BY <1>4, <2>2 DEF Heard
  <2>3. CASE since[p] <= hi
    BY <1>2, <2>3 DEF Heard
  <2> QED
    BY <1>6, <2>1, <2>2, <2>3 DEF Heard
<1>7. ASSUME Answered(n, p, lo, hi)
      PROVE  Answered(n, p, lo, hi)'
  <2>1. CASE Sent(n, p, lo, hi)
    <3>1. PICK m \in net : m.from = n /\ m.to = p /\ lo <= m.delay /\ m.delay <= hi
      BY <2>1 DEF Sent
    <3>2. CASE m \in net'
      BY <3>1, <3>2 DEF Answered, Sent
    <3>3. CASE Handled(m)
      <4>1. PICK d \in net' : d.from = p /\ d.to = n /\ d.delay = 0
        BY <3>1, <3>3 DEF Handled
      <4>2. lo - MaxDelay <= d.delay /\ d.delay <= hi
        BY <1>1, <3>1, <4>1
      <4>3. Sent(p, n, lo - MaxDelay, hi)'
        BY <4>1, <4>2 DEF Sent
      <4> QED
        BY <4>3 DEF Answered
    <3> QED
      BY <1>5, <3>1, <3>2, <3>3
  <2>2. CASE Sent(p, n, lo - MaxDelay, hi)
    <3>1. PICK m \in net : m.from = p /\ m.to = n /\ lo - MaxDelay <= m.delay /\ m.delay <= hi
      BY <2>2 DEF Sent
    <3>2. CASE m \in net'
      BY <3>1, <3>2 DEF Answered, Sent
    <3>3. CASE Handled(m)
      BY <3>1, <3>3 DEF Answered, Handled
    <3> QED
      BY <1>5, <3>1, <3>2, <3>3
  <2>3. CASE p \in PeersOf(catalog[n]) /\ catalog[n].rec[p].age <= hi
    BY <1>4, <2>3 DEF Answered
  <2>4. CASE since[p] <= hi
    BY <1>2, <2>4 DEF Answered
  <2> QED
    BY <1>7, <2>1, <2>2, <2>3, <2>4 DEF Answered
<1> QED
  BY <1>6, <1>7

\* A tick moves the window of a contact on by one, where nothing is put off.
LEMMA TickKeepsContact ==
    ASSUME TypeOK, Tick, reliable, Due = {}, NEW n \in Nodes, NEW p \in Nodes,
           NEW lo \in Int, NEW hi \in Nat
    PROVE  /\ Heard(n, p, lo, hi) => Heard(n, p, lo + 1, hi + 1)'
           /\ Answered(n, p, lo, hi) => Answered(n, p, lo + 1, hi + 1)'
<1>1. ASSUME NEW x, NEW y, NEW l \in Int, Sent(x, y, l, hi)
      PROVE  Sent(x, y, l + 1, hi + 1)'
  <2>1. PICK m \in net : m.from = x /\ m.to = y /\ l <= m.delay /\ m.delay <= hi
    BY <1>1 DEF Sent
  <2>2. /\ m \in Datagrams /\ m.delay \in Nat /\ m.delay < MaxDelay
        /\ net' = {[d EXCEPT !.delay = IF @ < MaxDelay THEN @ + 1 ELSE @] :
                       d \in {e \in net : e.delay < MaxDelay \/ e.to \in Due}}
    BY Numbers DEF Tick
  <2>3. PICK d \in net' : d = [m EXCEPT !.delay = IF @ < MaxDelay THEN @ + 1 ELSE @]
    BY <2>2
  <2>4. d.from = x /\ d.to = y /\ d.delay = m.delay + 1
    BY <2>1, <2>2, <2>3 DEF Datagrams
  <2>5. l + 1 <= d.delay /\ d.delay <= hi + 1
    BY <2>1, <2>2, <2>4
  <2> QED
    BY <2>4, <2>5 DEF Sent
<1>2. ASSUME NEW x \in Nodes, NEW y \in PeersOf(catalog[x]), catalog[x].rec[y].age <= hi
      PROVE  y \in PeersOf(catalog'[x]) /\ catalog'[x].rec[y].age <= hi + 1
  <2>1. PeersOf(catalog'[x]) = PeersOf(catalog[x])
    BY TickAges
  <2>2. /\ catalog[x].rec[y].age \in Nat /\ catalog'[x].rec[y].age \in Nat
        /\ catalog'[x].rec[y].age <= catalog[x].rec[y].age + 1
    BY TickLives
  <2> QED
    BY <1>2, <2>1, <2>2
<1>3. since[p] <= hi => since'[p] <= hi + 1
  <2>1. since[p] \in Nat /\ since'[p] \in Nat /\ since'[p] <= since[p] + 1
    BY TickLives
  <2> QED
    BY <2>1
<1>4. MaxDelay \in Int /\ lo - MaxDelay \in Int /\ (lo - MaxDelay) + 1 = (lo + 1) - MaxDelay
  BY Numbers
<1>5. ASSUME Heard(n, p, lo, hi)
      PROVE  Heard(n, p, lo + 1, hi + 1)'
  BY <1>1, <1>2, <1>3, <1>5 DEF Heard
<1>6. ASSUME Answered(n, p, lo, hi)
      PROVE  Answered(n, p, lo + 1, hi + 1)'
  <2>1. CASE Sent(p, n, lo - MaxDelay, hi)
    <3>1. Sent(p, n, (lo - MaxDelay) + 1, hi + 1)'
      BY <1>1, <1>4, <2>1
    <3>2. Sent(p, n, (lo + 1) - MaxDelay, hi + 1)'
      BY <1>4, <3>1 DEF Sent
    <3> QED
      BY <3>2 DEF Answered
  <2>2. CASE Sent(n, p, lo, hi)
    BY <1>1, <2>2 DEF Answered
  <2>3. CASE p \in PeersOf(catalog[n]) /\ catalog[n].rec[p].age <= hi
    BY <1>2, <2>3 DEF Answered
  <2>4. CASE since[p] <= hi
    BY <1>3, <2>4 DEF Answered
  <2> QED
    BY <1>6, <2>1, <2>2, <2>3, <2>4 DEF Answered
<1> QED
  BY <1>5, <1>6

\* What one heartbeat interval is.
Interval == HeartbeatInterval \in Nat /\ HeartbeatInterval > 0

LEMMA ChangesKeepSettling ==
    ASSUME TypeOK, TypeOK', Interval, SeedsKnown, Settling, Changes
    PROVE  Settling'
<1> SUFFICES ASSUME reliable, stalls = 0, NEW n \in Nodes, NEW p \in Seeds[n] \ {n}, Up(n)', Up(p)'
             PROVE  /\ \A b \in Nat : beat'[n] = b /\ since'[n] >= b =>
                          Heard(n, p, 0, b)' /\ Answered(n, p, 0, b)'
                    /\ \A k \in Nat \ {0} : since'[n] >= k + HeartbeatInterval - 1 =>
                          /\ Heard(n, p, k, k + HeartbeatInterval - 1)'
                          /\ Answered(n, p, k, k + HeartbeatInterval - 1)'
  BY DEF Settling, Changes, Heard, Answered, Sent
<1>0. Listening(n)' /\ Listening(p)'
  BY DEF Up, Listening
<1>1. p \in Nodes /\ n # p
  BY MembershipAssumption
<1>2. beat'[n] \in Nat /\ beat[n] \in Nat /\ HeartbeatInterval \in Nat \ {0}
  <2>1. beat \in [Nodes -> 0..HeartbeatInterval] /\ beat' \in [Nodes -> 0..HeartbeatInterval]
    BY DEF TypeOK
  <2> QED
    BY <2>1 DEF Interval
<1>3. CASE Begins(n)
  BY <1>2, <1>3 DEF Begins
<1>4. CASE Begins(p)
  <2>1. \A hi \in Nat : since'[p] <= hi
    BY <1>4 DEF Begins
  <2>2. \A lo \in Int : \A hi \in Nat : Heard(n, p, lo, hi)' /\ Answered(n, p, lo, hi)'
    BY <2>1 DEF Heard, Answered
  <2>3. \A k \in Nat \ {0} : k + HeartbeatInterval - 1 \in Nat /\ k \in Int
    BY <1>2
  <2>4. \A b \in Nat : Heard(n, p, 0, b)' /\ Answered(n, p, 0, b)'
    BY <2>2
  <2>5. \A k \in Nat \ {0} : /\ Heard(n, p, k, k + HeartbeatInterval - 1)'
                             /\ Answered(n, p, k, k + HeartbeatInterval - 1)'
    BY <2>2, <2>3
  <2> QED
    BY <2>4, <2>5
<1>5. CASE Continues(n) /\ Continues(p)
  <2>1. Up(n) /\ Up(p) /\ since'[n] = since[n] /\ Listening(n)
    BY <1>5 DEF Continues
  <2>2. /\ \A b \in Nat : beat[n] = b /\ since[n] >= b =>
              Heard(n, p, 0, b) /\ Answered(n, p, 0, b)
        /\ \A k \in Nat \ {0} : since[n] >= k + HeartbeatInterval - 1 =>
              /\ Heard(n, p, k, k + HeartbeatInterval - 1)
              /\ Answered(n, p, k, k + HeartbeatInterval - 1)
    BY <2>1 DEF Settling
  <2>3. \A k \in Nat \ {0} : k + HeartbeatInterval - 1 \in Nat /\ k \in Int
    BY <1>2
  <2>4. \A k \in Nat \ {0} : since'[n] >= k + HeartbeatInterval - 1 =>
           /\ Heard(n, p, k, k + HeartbeatInterval - 1)'
           /\ Answered(n, p, k, k + HeartbeatInterval - 1)'
    BY <1>0, <1>1, <1>5, <2>1, <2>2, <2>3, ChangesKeepContact
  <2>5. CASE beat'[n] = beat[n]
    <3>1. ASSUME NEW b \in Nat, beat[n] = b, since[n] >= b
          PROVE  Heard(n, p, 0, b)' /\ Answered(n, p, 0, b)'
      BY <1>0, <1>1, <1>5, <2>2, <3>1, ChangesKeepContact
    <3> QED
      BY <2>1, <2>4, <2>5, <3>1
  <2>6. CASE Broadcasts(n)
    <3>1. p \in known[n]
      BY <2>1 DEF SeedsKnown
    <3>2. PICK d \in net' : d.from = n /\ d.to = p /\ d.delay = 0
      BY <2>6, <3>1 DEF Broadcasts
    <3>3. beat'[n] = 0
      BY <2>6 DEF Broadcasts
    <3>4. \E m \in net' : m.from = n /\ m.to = p /\ 0 <= m.delay /\ m.delay <= 0
      BY <3>2
    <3>5. Heard(n, p, 0, 0)' /\ Answered(n, p, 0, 0)'
      BY <3>4 DEF Heard, Answered, Sent
    <3> QED
      BY <2>4, <3>3, <3>5
  <2> QED
    BY <1>5, <2>5, <2>6 DEF Continues
<1> QED
  BY <1>0, <1>1, <1>3, <1>4, <1>5 DEF Changes

LEMMA TickKeepsSettling ==
    ASSUME TypeOK, TypeOK', Interval, Settling, Tick
    PROVE  Settling'
<1> SUFFICES ASSUME reliable, stalls' = 0, NEW n \in Nodes, NEW p \in Seeds[n] \ {n}, Up(n), Up(p)
             PROVE  /\ \A b \in Nat : beat'[n] = b /\ since'[n] >= b =>
                          Heard(n, p, 0, b)' /\ Answered(n, p, 0, b)'
                    /\ \A k \in Nat \ {0} : since'[n] >= k + HeartbeatInterval - 1 =>
                          /\ Heard(n, p, k, k + HeartbeatInterval - 1)'
                          /\ Answered(n, p, k, k + HeartbeatInterval - 1)'
  <2>1. UNCHANGED <<phase, reliable>>
    BY TickRest
  <2> QED
    BY <2>1 DEF Settling, Heard, Answered, Sent, Up
<1>1. p \in Nodes /\ n # p
  BY MembershipAssumption
<1>2. stalls = 0 /\ Due = {}
  <2>1. stalls \in Nat /\ stalls <= stalls' /\ \A x \in Due : stalls + 1 <= stalls'
    BY TickStalls, Numbers
  <2> QED
    BY <2>1
<1>3. /\ beat[n] \in Nat /\ beat[n] < HeartbeatInterval /\ beat'[n] = beat[n] + 1
      /\ HeartbeatInterval \in Nat \ {0}
  <2>1. beat \in [Nodes -> 0..HeartbeatInterval] /\ HeartbeatInterval \in Nat \ {0}
    BY DEF TypeOK, Interval
  <2>2. beat[n] # HeartbeatInterval
    BY <1>2 DEF Due
  <2>3. beat'[n] = (IF Up(n) /\ beat[n] < HeartbeatInterval THEN beat[n] + 1 ELSE beat[n])
    BY DEF Tick
  <2> QED
    BY <2>1, <2>2, <2>3
<1>4. since[n] \in Nat /\ since'[n] \in Nat /\ since'[n] <= since[n] + 1
  BY TickLives
<1>5. /\ \A b \in Nat : beat[n] = b /\ since[n] >= b =>
            Heard(n, p, 0, b) /\ Answered(n, p, 0, b)
      /\ \A k \in Nat \ {0} : since[n] >= k + HeartbeatInterval - 1 =>
            /\ Heard(n, p, k, k + HeartbeatInterval - 1)
            /\ Answered(n, p, k, k + HeartbeatInterval - 1)
  BY <1>2 DEF Settling
<1>6. PICK b \in Nat : beat[n] = b /\ beat'[n] = b + 1 /\ b + 1 <= HeartbeatInterval
  BY <1>3
\* The window of the last heartbeat.
<1>7. ASSUME since'[n] >= b + 1
      PROVE  Heard(n, p, 1, b + 1)' /\ Answered(n, p, 1, b + 1)'
  <2>1. Heard(n, p, 0, b) /\ Answered(n, p, 0, b)
    BY <1>4, <1>5, <1>6, <1>7
  <2>2. Heard(n, p, 0 + 1, b + 1)' /\ Answered(n, p, 0 + 1, b + 1)'
    BY <1>1, <1>2, <2>1, TickKeepsContact
  <2> QED
    BY <2>2
\* Wider windows.
<1>8. ASSUME NEW lo \in {0, 1}, NEW hi \in Nat, b + 1 <= hi, since'[n] >= b + 1
      PROVE  Heard(n, p, lo, hi)' /\ Answered(n, p, lo, hi)'
  <2>1. Heard(n, p, 1, b + 1)' /\ Answered(n, p, 1, b + 1)'
    BY <1>7, <1>8
  <2>2. /\ \A m \in net' : m.delay \in Nat
        /\ since'[p] \in Nat
        /\ \A x \in {n, p} : \A y \in PeersOf(catalog'[x]) : catalog'[x].rec[y].age \in Nat
    <3>1. \A m \in Datagrams : m.delay \in Nat
      BY MembershipAssumption DEF Datagrams
    <3>2. \A x \in {n, p} : PeersOf(catalog'[x]) = PeersOf(catalog[x])
      BY <1>1, TickAges
    <3> QED
      BY <1>1, <3>1, <3>2, TickLives DEF TypeOK
  <2>3. \A t \in Nat : /\ t <= b + 1 => t <= hi
                       /\ 1 <= t => lo <= t
                       /\ 1 - MaxDelay <= t => lo - MaxDelay <= t
    BY <1>8, Numbers
  <2>4. Heard(n, p, lo, hi)'
    BY <2>1, <2>2, <2>3 DEF Heard, Sent
  <2>5. Answered(n, p, lo, hi)'
    BY <2>1, <2>2, <2>3 DEF Answered, Sent
  <2> QED
    BY <2>4, <2>5
<1>9. ASSUME NEW k \in Nat \ {0}, since'[n] >= k + HeartbeatInterval - 1
      PROVE  /\ Heard(n, p, k, k + HeartbeatInterval - 1)'
             /\ Answered(n, p, k, k + HeartbeatInterval - 1)'
  <2> DEFINE hi == k + HeartbeatInterval - 1
  <2>1. CASE k = 1
    <3>1. hi \in Nat /\ b + 1 <= hi /\ since'[n] >= b + 1
      BY <1>3, <1>4, <1>6, <1>9, <2>1
    <3>2. Heard(n, p, 1, hi)' /\ Answered(n, p, 1, hi)'
      BY <1>8, <3>1
    <3> QED
      BY <2>1, <3>2
  <2>2. CASE k # 1
    <3>1. PICK j \in Nat \ {0} : k = j + 1
      <4>1. k - 1 \in Nat \ {0} /\ k = (k - 1) + 1
        BY <2>2
      <4> QED
        BY <4>1
    <3>2. /\ j \in Int /\ j + HeartbeatInterval - 1 \in Nat
          /\ since[n] >= j + HeartbeatInterval - 1
          /\ (j + HeartbeatInterval - 1) + 1 = k + HeartbeatInterval - 1
      BY <1>3, <1>4, <1>9, <3>1
    <3>3. /\ Heard(n, p, j + 1, (j + HeartbeatInterval - 1) + 1)'
          /\ Answered(n, p, j + 1, (j + HeartbeatInterval - 1) + 1)'
      BY <1>1, <1>2, <1>5, <3>1, <3>2, TickKeepsContact
    <3> QED
      BY <3>1, <3>2, <3>3
  <2> QED
    BY <2>1, <2>2
<1>10. ASSUME NEW c \in Nat, beat'[n] = c, since'[n] >= c
       PROVE  Heard(n, p, 0, c)' /\ Answered(n, p, 0, c)'
  <2>1. c = b + 1
    BY <1>6, <1>10
  <2> QED
    BY <1>8, <1>10, <2>1
<1> QED
  BY <1>9, <1>10

LEMMA SettlingInvariance == ASSUME Interval PROVE Spec => []Settling
<1>1. Init => Settling
  BY DEF Init, Settling, Up
<1>2. TypeOK /\ TypeOK' /\ Met /\ Settling /\ [Next]_vars => Settling'
  BY TickOrChanges, TickKeepsSettling, ChangesKeepSettling DEF Met
<1>3. IInv => TypeOK
  BY DEF IInv
<1> QED
  BY <1>1, <1>2, <1>3, Invariance, MetInvariance, PTL DEF Spec

\* On a network that loses nothing and where no loop is blocked, a node and its
\* seed list each other ALIVE a heartbeat interval and a round trip after both
\* started, whatever became of their former lives, if suspect_timeout leaves
\* room for that: GossipEngine's loop, its replies and FailureDetector.check_peers
\* together.  The defaults, 3 s and 10 s, do for delays up to 3 s.
THEOREM SeedsSettle ==
    ASSUME HeartbeatInterval > 0, HeartbeatInterval + 2 * MaxDelay <= SuspectTimeout
    PROVE  Spec => []SeedAndNodeSettle
<1>1. Interval
  BY MembershipAssumption DEF Interval
<1>2. IInv /\ Settling => SeedAndNodeSettle
  <2> SUFFICES ASSUME IInv, Settling, reliable, stalls = 0, NEW n \in Nodes, NEW p \in Seeds[n] \ {n},
                      Up(n), since[n] > HeartbeatInterval + 2 * MaxDelay,
                      Up(p), since[p] > HeartbeatInterval + 2 * MaxDelay
               PROVE  /\ p \in PeersOf(catalog[n]) /\ catalog[n].rec[p].status = "ALIVE"
                      /\ n \in PeersOf(catalog[p]) /\ catalog[p].rec[n].status = "ALIVE"
    BY DEF SeedAndNodeSettle
  <2>1. TypeOK /\ StatusFollowsSilence /\ p \in Nodes
    BY MembershipAssumption DEF IInv
  <2>2. /\ MaxDelay \in Nat /\ SuspectTimeout \in Nat /\ FailureTimeout \in Nat
        /\ SuspectTimeout <= FailureTimeout /\ HeartbeatInterval \in Nat \ {0}
        /\ since[n] \in Nat /\ since[p] \in Nat
        /\ \A m \in net : m.delay \in Nat /\ m.delay <= MaxDelay
        /\ \A x \in Nodes : lag[x] \in Nat
    <3>1. since[n] \in 0..Horizon /\ since[p] \in 0..Horizon /\ Horizon \in Nat
      BY <2>1, Numbers
    <3>2. since[n] \in Nat /\ since[p] \in Nat
      BY <3>1
    <3> QED
      BY <1>1, <2>1, <3>2, Numbers DEF Interval
  \* A record that young is ALIVE, whenever it was swept.
  <2>3. ASSUME NEW x \in Nodes, Up(x), NEW y \in PeersOf(catalog[x]),
               catalog[x].rec[y].age <= HeartbeatInterval + 2 * MaxDelay
        PROVE  catalog[x].rec[y].status = "ALIVE"
    <3>1. catalog[x].rec[y].status = StatusAfter(catalog[x].rec[y].age - lag[x])
      BY <2>1, <2>3 DEF StatusFollowsSilence
    <3>2. catalog[x].rec[y].age \in Nat
      BY <2>1, RecordFacts, Numbers
    <3>3. ~(catalog[x].rec[y].age - lag[x] > SuspectTimeout)
      BY <2>2, <2>3, <3>2
    <3>4. ~(catalog[x].rec[y].age - lag[x] > FailureTimeout)
      BY <2>2, <2>3, <3>2
    <3> QED
      BY <3>1, <3>3, <3>4 DEF StatusAfter
  <2>4. n \in PeersOf(catalog[p]) /\ catalog[p].rec[n].age <= HeartbeatInterval + 2 * MaxDelay
    <3> DEFINE k == MaxDelay + 1
               hi == k + HeartbeatInterval - 1
    <3>1. k \in Nat \ {0} /\ since[n] >= hi /\ ~(since[p] <= hi) /\ hi = HeartbeatInterval + MaxDelay
      BY <2>2
    <3>2. Heard(n, p, k, hi)
      BY <3>1 DEF Settling
    <3>3. \A m \in net : ~(k <= m.delay)
      BY <2>2
    <3>4. n \in PeersOf(catalog[p]) /\ catalog[p].rec[n].age <= hi
      BY <3>1, <3>2, <3>3 DEF Heard, Sent
    <3>5. catalog[p].rec[n].age \in Nat
      BY <2>1, <3>4, RecordFacts, Numbers
    <3> QED
      BY <2>2, <3>1, <3>4, <3>5
  <2>5. p \in PeersOf(catalog[n]) /\ catalog[n].rec[p].age <= HeartbeatInterval + 2 * MaxDelay
    <3> DEFINE k == 2 * MaxDelay + 1
               hi == k + HeartbeatInterval - 1
    <3>1. k \in Nat \ {0} /\ since[n] >= hi /\ ~(since[p] <= hi) /\ hi = HeartbeatInterval + 2 * MaxDelay
      BY <2>2
    <3>2. Answered(n, p, k, hi)
      BY <3>1 DEF Settling
    <3>3. \A m \in net : ~(k <= m.delay) /\ ~(k - MaxDelay <= m.delay)
      BY <2>2
    <3> HIDE DEF k
    <3> QED
      BY <3>1, <3>2, <3>3 DEF Answered, Sent
  <2> QED
    BY <2>1, <2>3, <2>4, <2>5
<1> QED
  BY <1>1, <1>2, Invariance, SettlingInvariance, PTL

=============================================================================
