--------------------------- MODULE MembershipProofs ---------------------------
(***************************************************************************)
(* What Membership guarantees for any number of nodes, any timeouts and    *)
(* any bound on delays, stops and stalls: the status of a peer is exact,   *)
(* and a peer that is gone is found DEAD in bounded time.                  *)
(*                                                                         *)
(* Both rest on how far the time since a sweep (lag) and the time since a  *)
(* heartbeat (age) can be apart from the time since a peer went down       *)
(* (since).  A tick that a blocked node misses widens the gap by one, and  *)
(* `stalls' counts those.                                                  *)
(***************************************************************************)
EXTENDS Membership, RegistryProofs

\* Only a blocked loop is behind, by the ticks it missed.
LagBounded == \A n \in Nodes : IF Up(n) THEN lag[n] <= stalls + 1 ELSE lag[n] = 0

\* The datagrams of a peer that went down are old.
LastWords ==
    \A m \in net : phase[m.from] = "down" => since[m.from] <= m.delay + stalls

\* A silence of s ticks and the age of a record, at a node that swept l ticks ago,
\* after k stalls: either the node has not swept since it heard of the peer for
\* the last time, or the age leaves little room.
Shows(age, l, s, k) ==
    \/ age < l /\ s <= MaxDelay + k
    \/ age >= l /\ s <= age + MaxDelay + k /\ s + l <= age + MaxDelay + k + 1

\* So is what is known of it.
SilenceShows ==
    \A n, p \in Nodes : p \in PeersOf(catalog[n]) /\ phase[p] = "down" =>
        Shows(catalog[n].rec[p].age, lag[n], since[p], stalls)

IInv == TypeOK /\ LagBounded /\ StatusFollowsSilence /\ LastWords /\ SilenceShows

----------------------------------------------------------------------------
(* The registries.                                                         *)

Listed(cat) == IsCatalog(cat, Nodes, Records)

LEMMA CatalogFields ==
    ASSUME NEW cat, Listed(cat)
    PROVE  /\ cat.order \in Seq(Nodes) /\ PeersOf(cat) \subseteq Nodes
           /\ cat.rec \in [PeersOf(cat) -> Records] /\ cat \in Catalogs(Nodes, Records)
<1>1. cat \in Catalogs(Nodes, Records)
  BY CatalogsListIdsOnce DEF Listed
<1> QED
  BY <1>1, FieldsOfCatalog, MembershipAssumption

LEMMA EmptyListed == Listed(EmptyCatalog) /\ PeersOf(EmptyCatalog) = {}
  BY EmptyIsCatalog DEF Listed

LEMMA UpdateListed ==
    ASSUME NEW cat, Listed(cat), NEW p \in Nodes, NEW r \in Records
    PROVE  /\ Listed(UpdatePeer(cat, p, r))
           /\ PeersOf(UpdatePeer(cat, p, r)) = PeersOf(cat) \cup {p}
           /\ UpdatePeer(cat, p, r).rec[p] = r
           /\ \A x \in PeersOf(cat) : x # p => UpdatePeer(cat, p, r).rec[x] = cat.rec[x]
  BY UpdatedIsCatalog, MembershipAssumption DEF Listed

LEMMA ChangeListed ==
    ASSUME NEW cat, Listed(cat), NEW f \in [PeersOf(cat) -> Records]
    PROVE  /\ Listed([cat EXCEPT !.rec = f])
           /\ PeersOf([cat EXCEPT !.rec = f]) = PeersOf(cat)
           /\ [cat EXCEPT !.rec = f].rec = f
  BY ChangedIsCatalog, MembershipAssumption DEF Listed

\* The passing of a tick on one catalog.
LEMMA AgedListed ==
    ASSUME NEW cat, Listed(cat)
    PROVE  /\ Listed(MapRecords(cat, Aged))
           /\ PeersOf(MapRecords(cat, Aged)) = PeersOf(cat)
           /\ \A x \in PeersOf(cat) : MapRecords(cat, Aged).rec[x] = Aged(cat.rec[x])
<1> DEFINE f == [x \in PeersOf(cat) |-> Aged(cat.rec[x])]
<1>1. ASSUME NEW x \in PeersOf(cat)
      PROVE  Aged(cat.rec[x]) \in Records
  <2>1. cat.rec[x] \in Records
    BY CatalogFields
  <2>2. Horizon \in Nat
    BY MembershipAssumption DEF Horizon
  <2>3. \A t \in 0..Horizon : Older(t) \in 0..Horizon
    BY <2>2 DEF Older
  <2> QED
    BY <2>1, <2>3 DEF Aged, Records
<1>2. f \in [PeersOf(cat) -> Records] /\ \A x \in PeersOf(cat) : f[x] = Aged(cat.rec[x])
  BY <1>1
<1>3. MapRecords(cat, Aged) = [cat EXCEPT !.rec = f]
  BY DEF MapRecords
<1> HIDE DEF f
<1> QED
  BY <1>2, <1>3, ChangeListed

\* A sweep over one catalog.
LEMMA SweptListed ==
    ASSUME NEW cat, Listed(cat)
    PROVE  /\ Listed(MapRecords(cat, Swept))
           /\ PeersOf(MapRecords(cat, Swept)) = PeersOf(cat)
           /\ \A x \in PeersOf(cat) : MapRecords(cat, Swept).rec[x] = Swept(cat.rec[x])
<1> DEFINE f == [x \in PeersOf(cat) |-> Swept(cat.rec[x])]
<1>1. \A x \in PeersOf(cat) : Swept(cat.rec[x]) \in Records
  BY CatalogFields DEF Swept, StatusAfter, Statuses, Records
<1>2. f \in [PeersOf(cat) -> Records] /\ \A x \in PeersOf(cat) : f[x] = Swept(cat.rec[x])
  BY <1>1
<1>3. MapRecords(cat, Swept) = [cat EXCEPT !.rec = f]
  BY DEF MapRecords
<1> HIDE DEF f
<1> QED
  BY <1>2, <1>3, ChangeListed

----------------------------------------------------------------------------
(* Types.                                                                  *)

\* TypeOK with its part about the catalogs in one piece.
LEMMA Typed ==
    TypeOK <=>
        /\ phase \in [Nodes -> {"down", "up", "stopping"}]
        /\ known \in [Nodes -> SUBSET Nodes]
        /\ seq \in [Nodes -> 0..MaxSeq]
        /\ catalog \in [Nodes -> Catalogs(Nodes, Records)]
        /\ \A n \in Nodes : Listed(catalog[n])
        /\ beat \in [Nodes -> 0..HeartbeatInterval]
        /\ lag \in [Nodes -> 0..(MaxStalls + 1)]
        /\ since \in [Nodes -> 0..Horizon]
        /\ net \subseteq Datagrams
        /\ reliable \in Networks
        /\ starts \in 0..MaxStarts
        /\ stops \in 0..MaxStops
        /\ stalls \in 0..MaxStalls
<1>1. ASSUME \A n \in Nodes : Listed(catalog[n])
      PROVE  catalog = [n \in Nodes |-> catalog[n]] <=> catalog \in [Nodes -> Catalogs(Nodes, Records)]
  <2>1. \A n \in Nodes : catalog[n] \in Catalogs(Nodes, Records)
    BY <1>1, CatalogFields
  <2> QED
    BY <2>1
<1> QED
  BY <1>1 DEF TypeOK, Listed

\* One catalog is replaced.
LEMMA CatalogReplaced ==
    ASSUME TypeOK, NEW n \in Nodes, NEW cat, Listed(cat), catalog' = [catalog EXCEPT ![n] = cat]
    PROVE  /\ catalog' \in [Nodes -> Catalogs(Nodes, Records)]
           /\ \A x \in Nodes : Listed(catalog'[x])
           /\ catalog'[n] = cat
           /\ \A x \in Nodes : x # n => catalog'[x] = catalog[x]
<1>1. /\ catalog \in [Nodes -> Catalogs(Nodes, Records)] /\ cat \in Catalogs(Nodes, Records)
      /\ \A x \in Nodes : Listed(catalog[x])
  BY Typed, CatalogFields
<1>2. /\ catalog' \in [Nodes -> Catalogs(Nodes, Records)] /\ catalog'[n] = cat
      /\ \A x \in Nodes : x # n => catalog'[x] = catalog[x]
  BY <1>1
<1> QED
  BY <1>1, <1>2

\* The next sequence number, and the datagrams a broadcast sends.
LEMMA BroadcastTypes ==
    ASSUME TypeOK, NEW n \in Nodes
    PROVE  /\ \A m \in {Datagram(n, e, s, PeerSample(n)) : e \in known[n], s \in 0..MaxSeq} : m \in Datagrams
           /\ (IF seq[n] < MaxSeq THEN seq[n] + 1 ELSE seq[n]) \in 0..MaxSeq
<1> USE MembershipAssumption
<1>1. PeerSample(n) \subseteq Nodes
  <2>1. catalog[n].order \in Seq(Nodes)
    BY Typed, CatalogFields
  <2> QED
    BY <2>1 DEF PeerSample, FirstPeers
<1>2. known[n] \subseteq Nodes /\ seq[n] \in 0..MaxSeq
  BY Typed
<1> QED
  BY <1>1, <1>2 DEF Datagram, Datagrams

----------------------------------------------------------------------------
(* Every action keeps the invariant.                                       *)

\* A record and its age.
LEMMA RecordFacts ==
    ASSUME TypeOK, NEW n \in Nodes, NEW p \in PeersOf(catalog[n])
    PROVE  /\ p \in Nodes /\ catalog[n].rec[p] \in Records
           /\ catalog[n].rec[p].age \in 0..Horizon
<1>1. Listed(catalog[n])
  BY Typed
<1>2. p \in Nodes /\ catalog[n].rec[p] \in Records
  BY <1>1, CatalogFields
<1> QED
  BY <1>2 DEF Records

LEMMA Numbers ==
    ASSUME TypeOK
    PROVE  /\ stalls \in Nat /\ MaxDelay \in Nat /\ MaxStalls \in Nat /\ Horizon \in Nat
           /\ FailureTimeout \in Nat /\ SuspectTimeout \in Nat /\ SuspectTimeout <= FailureTimeout
           /\ stalls <= MaxStalls /\ Horizon = FailureTimeout + MaxDelay + MaxStalls + 3
           /\ \A n \in Nodes : lag[n] \in Nat /\ since[n] \in 0..Horizon
           /\ \A m \in net : m \in Datagrams /\ m.from \in Nodes /\ m.to \in Nodes /\ m.delay \in 0..MaxDelay
  BY Typed, MembershipAssumption DEF Horizon, Datagrams

LEMMA HandleKeeps ==
    ASSUME IInv, NEW m \in net, HandleDatagram(m)
    PROVE  IInv'
<1> DEFINE n == m.to
           f == m.from
           r == FreshRecord(m)
<1>0. TypeOK /\ LagBounded /\ StatusFollowsSilence /\ LastWords /\ SilenceShows
  BY DEF IInv
<1>1. n \in Nodes /\ f \in Nodes /\ m \in Datagrams /\ Listed(catalog[n]) /\ Horizon \in Nat
  BY <1>0, Typed, Numbers
<1>2. r \in Records /\ r.status = "ALIVE" /\ r.age = 0
  BY <1>1 DEF FreshRecord, Records, Statuses, Datagrams
<1>3. /\ UNCHANGED <<phase, seq, beat, lag, since, reliable, starts, stops, stalls>>
      /\ known' = [known EXCEPT ![n] = @ \cup {f} \cup (m.sample \ {n})]
      /\ catalog' = [catalog EXCEPT ![n] = UpdatePeer(@, f, r)]
      /\ net' \subseteq net \cup {Reciprocal(m)} /\ Listening(n)
  BY DEF HandleDatagram, Receive, After
<1> HIDE DEF r
<1>4. /\ catalog' \in [Nodes -> Catalogs(Nodes, Records)] /\ \A x \in Nodes : Listed(catalog'[x])
      /\ PeersOf(catalog'[n]) = PeersOf(catalog[n]) \cup {f}
      /\ catalog'[n].rec[f] = r
      /\ \A x \in PeersOf(catalog[n]) : x # f => catalog'[n].rec[x] = catalog[n].rec[x]
      /\ \A x \in Nodes : x # n => catalog'[x] = catalog[x]
  <2>1. /\ Listed(UpdatePeer(catalog[n], f, r))
        /\ catalog' = [catalog EXCEPT ![n] = UpdatePeer(catalog[n], f, r)]
    BY <1>1, <1>2, <1>3, UpdateListed
  <2>2. /\ catalog' \in [Nodes -> Catalogs(Nodes, Records)] /\ \A x \in Nodes : Listed(catalog'[x])
        /\ catalog'[n] = UpdatePeer(catalog[n], f, r)
        /\ \A x \in Nodes : x # n => catalog'[x] = catalog[x]
    BY <1>0, <1>1, <2>1, CatalogReplaced
  <2> QED
    BY <1>1, <1>2, <2>2, UpdateListed
<1>5. Reciprocal(m) \in Datagrams /\ Reciprocal(m).from = n
  BY <1>0, <1>1, Typed, MembershipAssumption DEF Reciprocal, Datagram, Datagrams
<1>6. TypeOK'
  <2>1. known' \in [Nodes -> SUBSET Nodes]
    <3>1. known \in [Nodes -> SUBSET Nodes] /\ m.sample \in SUBSET Nodes
      BY <1>0, <1>1, Typed DEF Datagrams
    <3> QED
      BY <1>1, <1>3, <3>1
  <2>2. net' \subseteq Datagrams
    BY <1>0, <1>3, <1>5, Typed
  <2> QED
    BY <1>0, <1>3, <1>4, <2>1, <2>2, Typed DEF TypeOK, Listed
<1>7. LagBounded'
  BY <1>0, <1>3 DEF LagBounded, Up
<1>8. StatusFollowsSilence'
  <2>1. ASSUME NEW x \in Nodes, Up(x), NEW y \in PeersOf(catalog'[x])
        PROVE  catalog'[x].rec[y].status = StatusAfter(catalog'[x].rec[y].age - lag[x])
    <3>1. CASE x = n /\ y = f
      <4>1. lag[n] \in Nat /\ ~(0 - lag[n] > FailureTimeout) /\ ~(0 - lag[n] > SuspectTimeout)
        BY <1>0, <1>1, Numbers
      <4> QED
        BY <1>2, <1>4, <3>1, <4>1 DEF StatusAfter
    <3>2. CASE ~(x = n /\ y = f)
      BY <1>0, <1>4, <2>1, <3>2 DEF StatusFollowsSilence
    <3> QED
      BY <3>1, <3>2
  <2> QED
    BY <1>3, <2>1 DEF StatusFollowsSilence, Up
<1>9. LastWords'
  BY <1>0, <1>3, <1>5 DEF LastWords, Listening
<1>10. SilenceShows'
  <2>1. ASSUME NEW x \in Nodes, NEW y \in Nodes, y \in PeersOf(catalog'[x]), phase[y] = "down"
        PROVE  Shows(catalog'[x].rec[y].age, lag[x], since[y], stalls)
    <3>1. CASE x = n /\ y = f
      <4>1. since[f] <= m.delay + stalls /\ m.delay <= MaxDelay
        BY <1>0, <2>1, <3>1, Numbers DEF LastWords
      <4>2. lag[n] \in Nat /\ since[f] \in Nat /\ MaxDelay \in Nat /\ stalls \in Nat /\ m.delay \in Nat
        BY <1>0, <1>1, Numbers
      <4>3. catalog'[x].rec[y].age = 0
        BY <1>2, <1>4, <3>1
      <4> QED
        BY <3>1, <4>1, <4>2, <4>3 DEF Shows
    <3>2. CASE ~(x = n /\ y = f)
      BY <1>0, <1>4, <2>1, <3>2 DEF SilenceShows
    <3> QED
      BY <3>1, <3>2
  <2> QED
    BY <1>3, <2>1 DEF SilenceShows
<1> QED
  BY <1>6, <1>7, <1>8, <1>9, <1>10 DEF IInv

LEMMA DiscardKeeps ==
    ASSUME IInv, NEW m \in net, DiscardDatagram(m)
    PROVE  IInv'
<1>1. net' \subseteq net /\ UNCHANGED <<phase, nodeVars, since, reliable, starts, stops, stalls>>
  BY DEF DiscardDatagram, After
<1>2. TypeOK' /\ LagBounded' /\ StatusFollowsSilence' /\ LastWords' /\ SilenceShows'
  BY <1>1 DEF IInv, TypeOK, LagBounded, StatusFollowsSilence, LastWords, SilenceShows, nodeVars, Up
<1> QED
  BY <1>2 DEF IInv

LEMMA BroadcastKeeps ==
    ASSUME IInv, NEW n \in Nodes, BroadcastHeartbeat(n)
    PROVE  IInv'
<1>0. TypeOK /\ LagBounded /\ StatusFollowsSilence /\ LastWords /\ SilenceShows
  BY DEF IInv
<1>1. /\ UNCHANGED <<phase, known, catalog, lag, since, reliable, starts, stops, stalls>>
      /\ Listening(n) /\ beat' = [beat EXCEPT ![n] = 0]
      /\ seq' = [seq EXCEPT ![n] = IF @ < MaxSeq THEN @ + 1 ELSE @]
      /\ net' = net \cup {Datagram(n, e, seq'[n], PeerSample(n)) : e \in known[n]}
  BY DEF BroadcastHeartbeat
<1>2. seq' \in [Nodes -> 0..MaxSeq] /\ beat' \in [Nodes -> 0..HeartbeatInterval]
  BY <1>0, <1>1, Typed, BroadcastTypes, MembershipAssumption
<1>3. net' \subseteq Datagrams /\ \A m \in net' : m \in net \/ m.from = n
  BY <1>0, <1>1, <1>2, Typed, BroadcastTypes DEF Datagram
<1>4. TypeOK'
  BY <1>0, <1>1, <1>2, <1>3 DEF TypeOK
<1>5. LagBounded' /\ StatusFollowsSilence' /\ SilenceShows'
  BY <1>0, <1>1 DEF LagBounded, StatusFollowsSilence, SilenceShows, Up
<1>6. LastWords'
  BY <1>0, <1>1, <1>3 DEF LastWords, Listening
<1> QED
  BY <1>4, <1>5, <1>6 DEF IInv

LEMMA CheckKeeps ==
    ASSUME IInv, NEW n \in Nodes, CheckPeers(n)
    PROVE  IInv'
<1>0. TypeOK /\ LagBounded /\ StatusFollowsSilence /\ LastWords /\ SilenceShows
  BY DEF IInv
<1>1. /\ UNCHANGED <<phase, known, seq, beat, since, net, reliable, starts, stops, stalls>>
      /\ Up(n)
      /\ catalog' = [catalog EXCEPT ![n] = MapRecords(@, Swept)]
      /\ lag' = [lag EXCEPT ![n] = 0]
  BY DEF CheckPeers
<1>2. /\ catalog' \in [Nodes -> Catalogs(Nodes, Records)] /\ \A x \in Nodes : Listed(catalog'[x])
      /\ PeersOf(catalog'[n]) = PeersOf(catalog[n])
      /\ \A x \in PeersOf(catalog[n]) : catalog'[n].rec[x] = Swept(catalog[n].rec[x])
      /\ \A x \in Nodes : x # n => catalog'[x] = catalog[x]
      /\ lag'[n] = 0 /\ \A x \in Nodes : x # n => lag'[x] = lag[x]
  <2>1. Listed(catalog[n]) /\ lag \in [Nodes -> 0..(MaxStalls + 1)]
    BY <1>0, Typed
  <2>2. Listed(MapRecords(catalog[n], Swept)) /\ catalog' = [catalog EXCEPT ![n] = MapRecords(catalog[n], Swept)]
    BY <1>1, <2>1, SweptListed
  <2>3. /\ catalog' \in [Nodes -> Catalogs(Nodes, Records)] /\ \A x \in Nodes : Listed(catalog'[x])
        /\ catalog'[n] = MapRecords(catalog[n], Swept)
        /\ \A x \in Nodes : x # n => catalog'[x] = catalog[x]
    BY <1>0, <2>2, CatalogReplaced
  <2>4. lag'[n] = 0 /\ \A x \in Nodes : x # n => lag'[x] = lag[x]
    BY <1>1, <2>1
  <2> QED
    BY <2>1, <2>3, <2>4, SweptListed
<1>3. \A x \in PeersOf(catalog[n]) : /\ catalog'[n].rec[x].age = catalog[n].rec[x].age
                                     /\ catalog'[n].rec[x].status = StatusAfter(catalog[n].rec[x].age)
                                     /\ catalog[n].rec[x].age \in Nat
  <2>1. ASSUME NEW r \in Records
        PROVE  Swept(r).age = r.age /\ Swept(r).status = StatusAfter(r.age)
    BY DEF Swept, Records
  <2>2. \A x \in PeersOf(catalog[n]) :
           catalog[n].rec[x] \in Records /\ catalog[n].rec[x].age \in 0..Horizon
    BY <1>0, RecordFacts
  <2>3. \A h \in 0..Horizon : h \in Nat
    BY <1>0, Numbers
  <2> QED
    BY <1>2, <2>1, <2>2, <2>3
<1>4. TypeOK'
  <2>1. lag' \in [Nodes -> 0..(MaxStalls + 1)]
    BY <1>0, <1>1, Typed, MembershipAssumption
  <2> QED
    BY <1>0, <1>1, <1>2, <2>1, Typed DEF TypeOK, Listed
<1>5. LagBounded'
  <2>1. stalls \in Nat
    BY <1>0, Numbers
  <2> QED
    BY <1>0, <1>1, <1>2, <2>1 DEF LagBounded, Up
<1>6. StatusFollowsSilence'
  <2>1. \A x \in PeersOf(catalog[n]) : catalog'[n].rec[x].age - lag'[n] = catalog[n].rec[x].age
    BY <1>2, <1>3
  <2> QED
    BY <1>0, <1>1, <1>2, <1>3, <2>1 DEF StatusFollowsSilence, Up
<1>7. LastWords'
  BY <1>0, <1>1 DEF LastWords
<1>8. SilenceShows'
  <2>1. ASSUME NEW x \in Nodes, NEW y \in Nodes, y \in PeersOf(catalog'[x]), phase[y] = "down"
        PROVE  Shows(catalog'[x].rec[y].age, lag'[x], since[y], stalls)
    <3>1. CASE x = n
      <4>1. catalog[n].rec[y].age \in Nat /\ since[y] \in Nat /\ MaxDelay \in Nat /\ stalls \in Nat
        BY <1>0, <1>2, <1>3, <2>1, <3>1, Numbers
      <4>2. since[y] <= catalog[n].rec[y].age + MaxDelay + stalls
        BY <1>0, <1>2, <2>1, <3>1, <4>1 DEF SilenceShows, Shows
      <4> QED
        BY <1>2, <1>3, <2>1, <3>1, <4>1, <4>2 DEF Shows
    <3>2. CASE x # n
      BY <1>0, <1>2, <2>1, <3>2 DEF SilenceShows
    <3> QED
      BY <3>1, <3>2
  <2> QED
    BY <1>1, <2>1 DEF SilenceShows
<1> QED
  BY <1>4, <1>5, <1>6, <1>7, <1>8 DEF IInv

\* A node that comes or goes forgets what it knew.
LEMMA ForgetKeeps ==
    ASSUME IInv, NEW n \in Nodes, NEW ph \in {"up", "down"}, NEW b \in 0..HeartbeatInterval,
           NEW l \in 0..1, ph = "down" => l = 0,
           phase' = [phase EXCEPT ![n] = ph], known' = [known EXCEPT ![n] = Seeds[n]],
           seq' = [seq EXCEPT ![n] = 0], catalog' = [catalog EXCEPT ![n] = EmptyCatalog],
           beat' = [beat EXCEPT ![n] = b], lag' = [lag EXCEPT ![n] = l],
           since' = [since EXCEPT ![n] = 0], net' = net, reliable' = reliable, stalls' = stalls,
           starts' \in 0..MaxStarts, stops' \in 0..MaxStops
    PROVE  IInv'
<1>0. TypeOK /\ LagBounded /\ StatusFollowsSilence /\ LastWords /\ SilenceShows
  BY DEF IInv
<1>1. /\ catalog' \in [Nodes -> Catalogs(Nodes, Records)] /\ \A x \in Nodes : Listed(catalog'[x])
      /\ PeersOf(catalog'[n]) = {} /\ \A x \in Nodes : x # n => catalog'[x] = catalog[x]
  <2>1. /\ catalog' \in [Nodes -> Catalogs(Nodes, Records)] /\ \A x \in Nodes : Listed(catalog'[x])
        /\ catalog'[n] = EmptyCatalog /\ \A x \in Nodes : x # n => catalog'[x] = catalog[x]
    BY <1>0, EmptyListed, CatalogReplaced
  <2> QED
    BY <2>1, EmptyListed
<1>2. /\ phase'[n] = ph /\ lag'[n] = l /\ since'[n] = 0
      /\ \A x \in Nodes : x # n => phase'[x] = phase[x] /\ lag'[x] = lag[x] /\ since'[x] = since[x]
  BY <1>0, Typed
<1>3. TypeOK'
  <2>1. /\ phase' \in [Nodes -> {"down", "up", "stopping"}] /\ known' \in [Nodes -> SUBSET Nodes]
        /\ seq' \in [Nodes -> 0..MaxSeq]
    BY <1>0, Typed, MembershipAssumption
  <2>2. /\ beat' \in [Nodes -> 0..HeartbeatInterval] /\ since' \in [Nodes -> 0..Horizon]
    BY <1>0, Typed, Numbers
  <2>3. lag' \in [Nodes -> 0..(MaxStalls + 1)]
    BY <1>0, Typed, MembershipAssumption
  <2> QED
    BY <1>0, <1>1, <2>1, <2>2, <2>3, Typed DEF TypeOK, Listed
<1>4. LagBounded'
  BY <1>0, <1>2, Numbers DEF LagBounded, Up
<1>5. StatusFollowsSilence'
  BY <1>0, <1>1, <1>2 DEF StatusFollowsSilence, Up
<1>6. LastWords'
  <2>1. ASSUME NEW m \in net, phase'[m.from] = "down"
        PROVE  since'[m.from] <= m.delay + stalls
    <3>1. m.from \in Nodes /\ m.delay \in Nat /\ stalls \in Nat
      BY <1>0, Numbers
    <3>2. CASE m.from = n
      BY <1>2, <3>1, <3>2
    <3>3. CASE m.from # n
      BY <1>0, <1>2, <2>1, <3>1, <3>3 DEF LastWords
    <3> QED
      BY <3>2, <3>3
  <2> QED
    BY <2>1 DEF LastWords
<1>7. SilenceShows'
  <2>1. ASSUME NEW x \in Nodes, NEW y \in Nodes, y \in PeersOf(catalog'[x]), phase'[y] = "down"
        PROVE  Shows(catalog'[x].rec[y].age, lag'[x], since'[y], stalls)
    <3>1. x # n /\ y \in PeersOf(catalog[x]) /\ catalog'[x] = catalog[x] /\ lag'[x] = lag[x]
      BY <1>1, <1>2, <2>1
    <3>2. CASE y = n
      <4>1. /\ catalog[x].rec[y].age \in 0..Horizon /\ MaxDelay \in Nat /\ stalls \in Nat
            /\ lag[x] \in Nat /\ Horizon \in Nat
        BY <1>0, <3>1, RecordFacts, Numbers
      <4>2. lag[x] <= stalls + 1
        BY <1>0, <4>1 DEF LagBounded
      <4> QED
        BY <1>2, <3>1, <3>2, <4>1, <4>2 DEF Shows
    <3>3. CASE y # n
      BY <1>0, <1>2, <2>1, <3>1, <3>3 DEF SilenceShows
    <3> QED
      BY <3>2, <3>3
  <2> QED
    BY <2>1 DEF SilenceShows
<1> QED
  BY <1>3, <1>4, <1>5, <1>6, <1>7 DEF IInv

LEMMA StartKeeps ==
    ASSUME IInv, NEW n \in Nodes, Start(n)
    PROVE  IInv'
<1>1. starts' \in 0..MaxStarts /\ stops' \in 0..MaxStops /\ HeartbeatInterval \in 0..HeartbeatInterval
  BY Typed, MembershipAssumption DEF IInv, Start
<1>2. "up" \in {"up", "down"} /\ 1 \in 0..1 /\ "up" # "down"
  OBVIOUS
<1>3. /\ phase' = [phase EXCEPT ![n] = "up"] /\ known' = [known EXCEPT ![n] = Seeds[n]]
      /\ seq' = [seq EXCEPT ![n] = 0] /\ catalog' = [catalog EXCEPT ![n] = EmptyCatalog]
      /\ beat' = [beat EXCEPT ![n] = HeartbeatInterval] /\ lag' = [lag EXCEPT ![n] = 1]
      /\ since' = [since EXCEPT ![n] = 0] /\ net' = net /\ reliable' = reliable /\ stalls' = stalls
  BY DEF Start
<1> QED
  BY <1>1, <1>2, <1>3, ForgetKeeps, Zenon

LEMMA GoDownKeeps ==
    ASSUME IInv, NEW n \in Nodes, GoDown(n), stops' \in 0..MaxStops
    PROVE  IInv'
<1>1. starts' \in 0..MaxStarts /\ 0 \in 0..HeartbeatInterval
  BY Typed, MembershipAssumption DEF IInv, GoDown
<1>2. "down" \in {"up", "down"} /\ 0 \in 0..1 /\ 0 = 0
  OBVIOUS
<1>3. /\ phase' = [phase EXCEPT ![n] = "down"] /\ known' = [known EXCEPT ![n] = Seeds[n]]
      /\ seq' = [seq EXCEPT ![n] = 0] /\ catalog' = [catalog EXCEPT ![n] = EmptyCatalog]
      /\ beat' = [beat EXCEPT ![n] = 0] /\ lag' = [lag EXCEPT ![n] = 0]
      /\ since' = [since EXCEPT ![n] = 0] /\ net' = net /\ reliable' = reliable /\ stalls' = stalls
  BY DEF GoDown
<1> QED
  BY <1>1, <1>2, <1>3, ForgetKeeps, Zenon

LEMMA StopGossipKeeps ==
    ASSUME IInv, NEW n \in Nodes, StopGossip(n)
    PROVE  IInv'
<1>1. stops' \in 0..MaxStops /\ GoDown(n)
  BY Typed DEF IInv, StopGossip
<1> QED
  BY <1>1, GoDownKeeps

LEMMA CrashKeeps ==
    ASSUME IInv, NEW n \in Nodes, Crash(n)
    PROVE  IInv'
<1>1. stops' \in 0..MaxStops /\ GoDown(n)
  BY Typed, MembershipAssumption DEF IInv, Crash
<1> QED
  BY <1>1, GoDownKeeps

LEMMA StopDetectorKeeps ==
    ASSUME IInv, NEW n \in Nodes, StopDetector(n)
    PROVE  IInv'
<1>0. TypeOK /\ LagBounded /\ StatusFollowsSilence /\ LastWords /\ SilenceShows
  BY DEF IInv
<1>1. /\ UNCHANGED <<known, seq, catalog, beat, since, net, reliable, starts, stalls>>
      /\ stops' = stops + 1 /\ stops < MaxStops
      /\ phase' = [phase EXCEPT ![n] = "stopping"] /\ lag' = [lag EXCEPT ![n] = 0]
  BY DEF StopDetector
<1>2. /\ phase'[n] = "stopping" /\ lag'[n] = 0
      /\ \A x \in Nodes : x # n => phase'[x] = phase[x] /\ lag'[x] = lag[x]
  BY <1>0, <1>1, Typed
<1>3. TypeOK'
  <2>1. phase' \in [Nodes -> {"down", "up", "stopping"}] /\ lag' \in [Nodes -> 0..(MaxStalls + 1)]
    BY <1>0, <1>1, Typed, MembershipAssumption
  <2>2. stops' \in 0..MaxStops
    BY <1>0, <1>1, Typed, MembershipAssumption
  <2> QED
    BY <1>0, <1>1, <2>1, <2>2 DEF TypeOK
<1>4. LagBounded' /\ StatusFollowsSilence'
  BY <1>0, <1>1, <1>2 DEF LagBounded, StatusFollowsSilence, Up
<1>5. LastWords'
  BY <1>0, <1>1, <1>2, Numbers DEF LastWords
<1>6. SilenceShows'
  <2>1. ASSUME NEW x \in Nodes, NEW y \in Nodes, y \in PeersOf(catalog[x]), phase'[y] = "down"
        PROVE  Shows(catalog[x].rec[y].age, lag'[x], since[y], stalls)
    <3>1. y # n /\ phase[y] = "down"
      BY <1>2, <2>1
    <3>2. CASE x = n
      <4>1. catalog[x].rec[y].age \in Nat /\ since[y] \in Nat /\ MaxDelay \in Nat /\ stalls \in Nat
        BY <1>0, <2>1, RecordFacts, Numbers
      <4>2. since[y] <= catalog[x].rec[y].age + MaxDelay + stalls
        BY <1>0, <2>1, <3>1, <4>1 DEF SilenceShows, Shows
      <4> QED
        BY <1>2, <3>2, <4>1, <4>2 DEF Shows
    <3>3. CASE x # n
      BY <1>0, <1>2, <2>1, <3>1, <3>3 DEF SilenceShows
    <3> QED
      BY <3>2, <3>3
  <2> QED
    BY <1>1, <2>1 DEF SilenceShows
<1> QED
  BY <1>3, <1>4, <1>5, <1>6 DEF IInv

\* What a tick adds to the stalls: at least one if any loop was blocked.
LEMMA TickStalls ==
    ASSUME TypeOK, Tick
    PROVE  /\ stalls' \in 0..MaxStalls /\ stalls <= stalls'
           /\ \A n \in Due : stalls + 1 <= stalls'
<1>1. IsFiniteSet(Due)
  BY MembershipAssumption, FS_Subset DEF Due
<1>2. Cardinality(Due) \in Nat
  BY <1>1, FS_CardinalityType
<1>3. ASSUME NEW n \in Due
      PROVE  Cardinality(Due) # 0
  BY <1>1, FS_EmptySet
<1>4. stalls' = stalls + Cardinality(Due) /\ stalls' <= MaxStalls
  BY DEF Tick
<1>5. stalls \in Nat /\ MaxStalls \in Nat
  BY Numbers
<1> QED
  BY <1>2, <1>3, <1>4, <1>5

LEMMA OlderBounds ==
    ASSUME Horizon \in Nat, NEW t \in 0..Horizon
    PROVE  /\ Older(t) \in 0..Horizon /\ t <= Older(t) /\ Older(t) <= t + 1
           /\ t < Horizon => Older(t) = t + 1
           /\ t >= Horizon => Older(t) = Horizon /\ t = Horizon
  BY DEF Older

\* The records after a tick.
LEMMA TickAges ==
    ASSUME TypeOK, Tick
    PROVE  /\ catalog' \in [Nodes -> Catalogs(Nodes, Records)]
           /\ \A n \in Nodes :
                 /\ Listed(catalog'[n]) /\ PeersOf(catalog'[n]) = PeersOf(catalog[n])
                 /\ \A p \in PeersOf(catalog[n]) :
                       /\ catalog'[n].rec[p].status = catalog[n].rec[p].status
                       /\ catalog'[n].rec[p].age = Older(catalog[n].rec[p].age)
<1>1. catalog' = [n \in Nodes |-> MapRecords(catalog[n], Aged)]
  BY DEF Tick
<1>2. ASSUME NEW n \in Nodes
      PROVE  /\ Listed(catalog'[n]) /\ PeersOf(catalog'[n]) = PeersOf(catalog[n])
             /\ \A p \in PeersOf(catalog[n]) : catalog'[n].rec[p] = Aged(catalog[n].rec[p])
  <2>1. Listed(catalog[n]) /\ catalog'[n] = MapRecords(catalog[n], Aged)
    BY <1>1, Typed
  <2> QED
    BY <2>1, AgedListed
<1>3. \A r \in Records : Aged(r).status = r.status /\ Aged(r).age = Older(r.age)
  BY DEF Aged, Records
<1>4. \A n \in Nodes : \A p \in PeersOf(catalog[n]) : catalog[n].rec[p] \in Records
  BY RecordFacts
<1>5. catalog' \in [Nodes -> Catalogs(Nodes, Records)]
  <2>1. \A n \in Nodes : catalog'[n] \in Catalogs(Nodes, Records)
    BY <1>2, CatalogFields
  <2>2. catalog' = [n \in Nodes |-> catalog'[n]]
    BY <1>1
  <2> QED
    BY <2>1, <2>2
<1> QED
  BY <1>2, <1>3, <1>4, <1>5

\* The loops, the lives and the datagrams after a tick.
LEMMA TickRest ==
    ASSUME TypeOK, Tick
    PROVE  /\ \A n \in Nodes : /\ lag'[n] = (IF Up(n) THEN lag[n] + 1 ELSE 0)
                                /\ since'[n] = Older(since[n])
           /\ \A d \in net' : \E m \in net :
                 /\ d = [m EXCEPT !.delay = IF @ < MaxDelay THEN @ + 1 ELSE @]
                 /\ m.delay < MaxDelay \/ m.to \in Due
           /\ UNCHANGED <<phase, known, seq, reliable, starts, stops>>
           /\ beat' \in [Nodes -> 0..HeartbeatInterval] /\ since' \in [Nodes -> 0..Horizon]
           /\ net' \subseteq Datagrams
<1>1. /\ beat' = [n \in Nodes |-> IF Up(n) /\ beat[n] < HeartbeatInterval THEN beat[n] + 1 ELSE beat[n]]
      /\ lag' = [n \in Nodes |-> IF Up(n) THEN lag[n] + 1 ELSE 0]
      /\ since' = [n \in Nodes |-> Older(since[n])]
      /\ UNCHANGED <<phase, known, seq, reliable, starts, stops>>
  BY DEF Tick
<1>2. beat' \in [Nodes -> 0..HeartbeatInterval]
  <2>1. beat \in [Nodes -> 0..HeartbeatInterval] /\ HeartbeatInterval \in Nat
    BY Typed, MembershipAssumption
  <2>2. \A b \in 0..HeartbeatInterval : b < HeartbeatInterval => b + 1 \in 0..HeartbeatInterval
    BY <2>1
  <2> QED
    BY <1>1, <2>1, <2>2
<1>3. since' \in [Nodes -> 0..Horizon]
  <2>1. since \in [Nodes -> 0..Horizon] /\ Horizon \in Nat
    BY Typed, Numbers
  <2>2. \A t \in 0..Horizon : Older(t) \in 0..Horizon
    BY <2>1, OlderBounds
  <2> QED
    BY <1>1, <2>1, <2>2
<1>4. \A d \in net' : \E m \in net :
         /\ d = [m EXCEPT !.delay = IF @ < MaxDelay THEN @ + 1 ELSE @]
         /\ m.delay < MaxDelay \/ m.to \in Due
  <2>1. net' = {[m EXCEPT !.delay = IF @ < MaxDelay THEN @ + 1 ELSE @] :
                   m \in {d \in net : d.delay < MaxDelay \/ d.to \in Due}}
    BY DEF Tick
  <2> QED
    BY <2>1
<1>5. \A m \in Datagrams : [m EXCEPT !.delay = IF @ < MaxDelay THEN @ + 1 ELSE @] \in Datagrams
  BY MembershipAssumption DEF Datagrams
<1>6. net' \subseteq Datagrams
  BY <1>4, <1>5, Typed
<1> QED
  BY <1>1, <1>2, <1>3, <1>4, <1>6

\* What a tick makes of the ages of a record and of a silence.
LEMMA Drift ==
    ASSUME TypeOK, NEW age \in 0..Horizon, NEW s \in 0..Horizon, NEW l \in Nat, NEW l2 \in Nat,
           NEW k \in Nat, NEW k2 \in 0..MaxStalls, k <= k2,
           l2 = l + 1 \/ (l = 0 /\ l2 = 0), l > 0 => k + 1 <= k2, l2 <= k2 + 1,
           Shows(age, l, s, k)
    PROVE  Shows(Older(age), l2, Older(s), k2)
<1> DEFINE age2 == Older(age)
           s2 == Older(s)
           D == MaxDelay
<1>1. /\ D \in Nat /\ FailureTimeout \in Nat /\ MaxStalls \in Nat /\ Horizon \in Nat
      /\ Horizon = FailureTimeout + D + MaxStalls + 3 /\ age \in Nat /\ s \in Nat /\ k2 \in Nat
      /\ k2 <= MaxStalls
  BY Numbers
<1>2. /\ age2 \in Nat /\ s2 \in Nat /\ s2 <= s + 1 /\ s2 <= Horizon
      /\ age < Horizon => age2 = age + 1
      /\ age >= Horizon => age2 = Horizon
  BY <1>1, OlderBounds
<1>3. \/ age < l /\ s <= D + k
      \/ age >= l /\ s <= age + D + k /\ s + l <= age + D + k + 1
  BY DEF Shows
<1> HIDE DEF age2, s2, D
<1>4. \/ age2 < l2 /\ s2 <= D + k2
      \/ age2 >= l2 /\ s2 <= age2 + D + k2 /\ s2 + l2 <= age2 + D + k2 + 1
  <2>1. CASE age >= Horizon
    <3>1. age2 = Horizon /\ l2 <= Horizon /\ s2 <= age2 + D + k2
      BY <1>1, <1>2, <2>1
    <3>2. s2 + l2 <= age2 + D + k2 + 1
      BY <1>1, <1>2, <3>1
    <3> QED
      BY <3>1, <3>2
  <2>2. CASE age < Horizon /\ age < l
    <3>1. l2 = l + 1 /\ age2 = age + 1 /\ k + 1 <= k2 /\ s <= D + k
      BY <1>1, <1>2, <1>3, <2>2
    <3> QED
      BY <1>1, <1>2, <2>2, <3>1
  <2>3. CASE age < Horizon /\ age >= l
    <3>1. age2 = age + 1 /\ s <= age + D + k /\ s + l <= age + D + k + 1
      BY <1>1, <1>2, <1>3, <2>3
    <3>2. age2 >= l2 /\ s2 <= age2 + D + k2
      BY <1>1, <1>2, <2>3, <3>1
    <3>3. CASE l = 0
      <4>1. l2 <= 1
        BY <3>3
      <4> QED
        BY <1>1, <1>2, <3>1, <3>2, <3>3, <4>1
    <3>4. CASE l > 0
      <4>1. k + 1 <= k2 /\ l2 = l + 1
        BY <3>4
      <4> QED
        BY <1>1, <1>2, <3>1, <3>2, <4>1
    <3> QED
      BY <3>3, <3>4
  <2> QED
    BY <1>1, <2>1, <2>2, <2>3
<1> QED
  BY <1>4 DEF Shows, age2, s2, D

LEMMA TickKeeps ==
    ASSUME IInv, Tick
    PROVE  IInv'
<1>0. TypeOK /\ LagBounded /\ StatusFollowsSilence /\ LastWords /\ SilenceShows
  BY DEF IInv
<1>1. /\ stalls' \in 0..MaxStalls /\ stalls <= stalls' /\ stalls \in Nat /\ stalls' \in Nat
      /\ \A n \in Due : stalls + 1 <= stalls'
      /\ MaxDelay \in Nat /\ MaxStalls \in Nat /\ Horizon \in Nat /\ FailureTimeout \in Nat
      /\ Horizon = FailureTimeout + MaxDelay + MaxStalls + 3
      /\ SuspectTimeout \in Nat /\ SuspectTimeout <= FailureTimeout
  BY <1>0, TickStalls, Numbers
<1>2. UNCHANGED <<phase, known, seq, reliable, starts, stops>>
  BY <1>0, TickRest
<1>3. ASSUME NEW n \in Nodes
      PROVE  /\ lag[n] \in Nat /\ lag'[n] \in Nat
             /\ IF Up(n) THEN lag'[n] = lag[n] + 1 /\ lag'[n] <= stalls' + 1
                         ELSE lag[n] = 0 /\ lag'[n] = 0
             /\ lag[n] > 0 => stalls + 1 <= stalls'
  <2>1. lag[n] \in Nat /\ lag'[n] = (IF Up(n) THEN lag[n] + 1 ELSE 0)
    BY <1>0, Numbers, TickRest
  <2>2. IF Up(n) THEN lag[n] <= stalls + 1 ELSE lag[n] = 0
    BY <1>0 DEF LagBounded
  <2>3. lag[n] > 0 => stalls + 1 <= stalls'
    BY <1>1, <2>1, <2>2 DEF Due
  <2> QED
    BY <1>1, <2>1, <2>2, <2>3
<1>4. ASSUME NEW n \in Nodes, NEW p \in PeersOf(catalog[n])
      PROVE  /\ catalog[n].rec[p].age \in 0..Horizon
             /\ catalog'[n].rec[p].age = Older(catalog[n].rec[p].age)
             /\ catalog'[n].rec[p].status = catalog[n].rec[p].status
  BY <1>0, RecordFacts, TickAges
<1>5. TypeOK'
  <2>1. lag' \in [Nodes -> 0..(MaxStalls + 1)]
    <3>1. lag' = [n \in Nodes |-> IF Up(n) THEN lag[n] + 1 ELSE 0]
      BY DEF Tick
    <3>2. \A n \in Nodes : lag'[n] \in 0..(MaxStalls + 1)
      BY <1>1, <1>3
    <3> QED
      BY <3>1, <3>2
  <2>2. catalog' \in [Nodes -> Catalogs(Nodes, Records)] /\ \A n \in Nodes : Listed(catalog'[n])
    BY <1>0, TickAges
  <2>3. /\ beat' \in [Nodes -> 0..HeartbeatInterval] /\ since' \in [Nodes -> 0..Horizon]
        /\ net' \subseteq Datagrams
    BY <1>0, TickRest
  <2> QED
    BY <1>0, <1>1, <1>2, <2>1, <2>2, <2>3, Typed DEF TypeOK, Listed
<1>6. LagBounded'
  BY <1>2, <1>3 DEF LagBounded, Up
<1>7. StatusFollowsSilence'
  <2>1. ASSUME NEW n \in Nodes, Up(n), NEW p \in PeersOf(catalog[n])
        PROVE  catalog'[n].rec[p].status = StatusAfter(catalog'[n].rec[p].age - lag'[n])
    <3> DEFINE age == catalog[n].rec[p].age
               age2 == catalog'[n].rec[p].age
    <3>1. catalog'[n].rec[p].status = StatusAfter(age - lag[n])
      BY <1>0, <1>4, <2>1 DEF StatusFollowsSilence
    <3>2. age \in 0..Horizon /\ age2 = Older(age) /\ age \in Nat
      BY <1>1, <1>4
    <3>3. lag'[n] = lag[n] + 1 /\ lag[n] \in Nat /\ lag'[n] <= MaxStalls + 1
      BY <1>1, <1>3, <2>1
    <3> HIDE DEF age, age2
    <3>4. CASE age < Horizon
      <4>1. age2 = age + 1
        BY <1>1, <3>2, <3>4, OlderBounds
      <4>2. age2 - lag'[n] = age - lag[n]
        BY <3>2, <3>3, <4>1
      <4> QED
        BY <3>1, <4>2 DEF age2
    <3>5. CASE age >= Horizon
      <4>1. age = Horizon /\ age2 = Horizon
        BY <1>1, <3>2, <3>5, OlderBounds
      <4>2. age - lag[n] > FailureTimeout /\ age2 - lag'[n] > FailureTimeout
        BY <1>1, <3>2, <3>3, <4>1
      <4> QED
        BY <3>1, <4>2 DEF StatusAfter, age2
    <3> QED
      BY <1>1, <3>2, <3>4, <3>5
  <2>2. \A n \in Nodes : PeersOf(catalog'[n]) = PeersOf(catalog[n])
    BY <1>0, TickAges
  <2> QED
    BY <1>2, <2>1, <2>2 DEF StatusFollowsSilence, Up
<1>8. LastWords'
  <2>1. ASSUME NEW d \in net', phase[d.from] = "down"
        PROVE  since'[d.from] <= d.delay + stalls'
    <3>1. PICK m \in net : /\ d = [m EXCEPT !.delay = IF @ < MaxDelay THEN @ + 1 ELSE @]
                           /\ m.delay < MaxDelay \/ m.to \in Due
      BY <1>0, TickRest
    <3>2. m \in Datagrams /\ m.from \in Nodes /\ m.delay \in 0..MaxDelay
      BY <1>0, Numbers
    <3>3. d.from = m.from /\ d.delay = (IF m.delay < MaxDelay THEN m.delay + 1 ELSE m.delay)
      BY <3>1, <3>2 DEF Datagrams
    <3>4. since[m.from] <= m.delay + stalls
      BY <1>0, <2>1, <3>3 DEF LastWords
    <3>5. since[m.from] \in 0..Horizon /\ since'[m.from] = Older(since[m.from])
      BY <1>0, <3>2, Numbers, TickRest
    <3>6. since'[m.from] <= since[m.from] + 1 /\ since[m.from] \in Nat /\ since'[m.from] \in Nat
      BY <1>1, <3>5, OlderBounds
    <3> QED
      BY <1>1, <3>1, <3>2, <3>3, <3>4, <3>6
  <2> QED
    BY <1>2, <2>1 DEF LastWords
<1>9. SilenceShows'
  <2>1. ASSUME NEW n \in Nodes, NEW p \in Nodes, p \in PeersOf(catalog[n]), phase[p] = "down"
        PROVE  Shows(catalog'[n].rec[p].age, lag'[n], since'[p], stalls')
    <3> DEFINE age == catalog[n].rec[p].age
    <3>1. /\ age \in 0..Horizon /\ catalog'[n].rec[p].age = Older(age)
          /\ since[p] \in 0..Horizon /\ since'[p] = Older(since[p])
      BY <1>0, <1>4, <2>1, Numbers, TickRest
    <3>2. /\ lag[n] \in Nat /\ lag'[n] \in Nat
          /\ lag'[n] = lag[n] + 1 \/ (lag[n] = 0 /\ lag'[n] = 0)
          /\ lag[n] > 0 => stalls + 1 <= stalls'
          /\ lag'[n] <= stalls' + 1
      BY <1>1, <1>3
    <3>3. Shows(age, lag[n], since[p], stalls)
      BY <1>0, <2>1 DEF SilenceShows
    <3>4. stalls \in Nat /\ stalls' \in 0..MaxStalls /\ stalls <= stalls'
      BY <1>1
    <3> HIDE DEF age
    <3>5. Shows(Older(age), lag'[n], Older(since[p]), stalls')
      BY <1>0, <3>1, <3>2, <3>3, <3>4, Drift
    <3> QED
      BY <3>1, <3>5
  <2>2. \A n \in Nodes : PeersOf(catalog'[n]) = PeersOf(catalog[n])
    BY <1>0, TickAges
  <2> QED
    BY <1>2, <2>1, <2>2 DEF SilenceShows
<1> QED
  BY <1>5, <1>6, <1>7, <1>8, <1>9 DEF IInv

LEMMA InitHolds == Init => IInv
<1> SUFFICES ASSUME Init PROVE IInv
  OBVIOUS
<1>1. /\ \A n \in Nodes : phase[n] = "down" /\ since[n] = 0 /\ lag[n] = 0 /\ catalog[n] = EmptyCatalog
      /\ net = {} /\ stalls = 0
  BY DEF Init
<1>2. TypeOK
  <2>1. catalog \in [Nodes -> Catalogs(Nodes, Records)] /\ \A n \in Nodes : Listed(catalog[n])
    BY EmptyListed, CatalogFields DEF Init
  <2>2. Horizon \in Nat
    BY MembershipAssumption DEF Horizon
  <2> QED
    BY <2>1, <2>2, MembershipAssumption DEF Init, TypeOK, Listed
<1>3. \A n \in Nodes : PeersOf(catalog[n]) = {}
  BY <1>1, EmptyListed
<1> QED
  BY <1>1, <1>2, <1>3 DEF IInv, LagBounded, StatusFollowsSilence, LastWords, SilenceShows, Up

LEMMA StepKeeps == IInv /\ [Next]_vars => IInv'
<1> SUFFICES ASSUME IInv, [Next]_vars PROVE IInv'
  OBVIOUS
<1>1. CASE UNCHANGED vars
  BY <1>1 DEF IInv, TypeOK, LagBounded, StatusFollowsSilence, LastWords, SilenceShows, Up, vars, nodeVars
<1>2. CASE Tick
  BY <1>2, TickKeeps
<1>3. CASE \E m \in net : HandleDatagram(m) \/ DiscardDatagram(m)
  BY <1>3, HandleKeeps, DiscardKeeps
<1>4. ASSUME NEW n \in Nodes,
             \/ BroadcastHeartbeat(n) \/ CheckPeers(n)
             \/ Start(n) \/ StopDetector(n) \/ StopGossip(n) \/ Crash(n)
      PROVE  IInv'
  BY <1>4, BroadcastKeeps, CheckKeeps, StartKeeps, StopDetectorKeeps, StopGossipKeeps, CrashKeeps
<1> QED
  BY <1>1, <1>2, <1>3, <1>4 DEF Next

LEMMA Invariance == Spec => []IInv
  BY InitHolds, StepKeeps, PTL DEF Spec

----------------------------------------------------------------------------
(* What follows.                                                           *)

\* Registries, datagrams and counters have their types in every reachable state,
\* and the insertion order of a registry never loses or repeats a peer
\* (CapabilityRegistry._peers under update_peer, check_peers and restarts).
THEOREM TypeCorrectness == Spec => []TypeOK
<1>1. IInv => TypeOK
  BY DEF IInv
<1> QED
  BY <1>1, Invariance, PTL

\* The status of a peer is what its silence called for when the node last
\* swept, for any timeouts and whatever the network and the event loops do:
\* GossipEngine.handle_datagram and FailureDetector.check_peers never leave
\* the status of one beside the age of the other.
THEOREM StatusIsExact == Spec => []StatusFollowsSilence
<1>1. IInv => StatusFollowsSilence
  BY DEF IInv
<1> QED
  BY <1>1, Invariance, PTL

\* A peer that is gone is DEAD everywhere from failure_timeout, one sweep, the
\* longest transit and the stalls on: the silence of its last datagram, of the
\* record it left and of the sweep add up to no more.
THEOREM DetectionIsBounded == Spec => []BoundedDetection
<1>1. IInv => BoundedDetection
  <2> SUFFICES ASSUME IInv, NEW n \in Nodes, NEW p \in Nodes,
                      Up(n), phase[p] = "down", p \in PeersOf(catalog[n]),
                      since[p] > MaxDelay + FailureTimeout + 1 + stalls
               PROVE  catalog[n].rec[p].status = "DEAD"
    BY DEF BoundedDetection
  <2>1. TypeOK /\ StatusFollowsSilence /\ SilenceShows
    BY DEF IInv
  <2> DEFINE age == catalog[n].rec[p].age
  <2>2. catalog[n].rec[p].status = StatusAfter(age - lag[n])
    BY <2>1 DEF StatusFollowsSilence
  <2>3. \/ age < lag[n] /\ since[p] <= MaxDelay + stalls
        \/ age >= lag[n] /\ since[p] <= age + MaxDelay + stalls
           /\ since[p] + lag[n] <= age + MaxDelay + stalls + 1
    BY <2>1 DEF SilenceShows, Shows
  <2>4. /\ lag[n] \in Nat /\ since[p] \in 0..Horizon /\ age \in 0..Horizon /\ Horizon \in Nat
        /\ MaxDelay \in Nat /\ FailureTimeout \in Nat /\ stalls \in Nat
    BY <2>1, RecordFacts, Numbers
  <2> HIDE DEF age
  <2>5. age - lag[n] > FailureTimeout
    BY <2>3, <2>4
  <2> QED
    BY <2>2, <2>5 DEF StatusAfter
<1> QED
  BY <1>1, Invariance, PTL

=============================================================================
