------------------------- MODULE GatewayTypeProofs -------------------------
(***************************************************************************)
(* The registry, the tokens and the reviews of a gateway keep their types, *)
(* for any number of peers, calls and reviews and for any k_peers and      *)
(* min_quorum.                                                             *)
(***************************************************************************)
EXTENDS GatewayProofs, RegistryProofs

RegistryTyped == IsCatalog(catalog, Peers, Records) /\ handlers \subseteq Tools

TokensTyped ==
    /\ \A t \in Tasks : token[t].left \in 0..(Timeout + Allowance)
    /\ seen \subseteq {t \in Tasks : token[t].tool # None}

\* Every restart was an event.
EventsTyped == events \in 0..MaxEvents /\ life <= events

LinksTyped == link \in [Channels -> {"unused", "open", "dead", "closed"}]

ReviewsTyped == review \in [Reviews -> ReviewStates]

TInv ==
    /\ IInv
    /\ RegistryTyped /\ TokensTyped /\ EventsTyped /\ LinksTyped
    /\ ReviewsTyped

----------------------------------------------------------------------------
(* The registry.                                                           *)

LEMMA RecordsOfPeers ==
    ASSUME NEW tools \in SUBSET Tools
    PROVE  Registered(tools) \in Records /\ Registered({}) \in Records
BY DEF Registered, Records, Statuses

\* What init_cluster_state registers is a catalog.
LEMMA PopulatedIsCatalog == IsCatalog(Populated, Peers, Records)
<1> DEFINE f == [p \in Peers |-> Registered(Offers[p])]
<1>1. f \in [Peers -> Records]
  BY GatewayAssumption, RecordsOfPeers
<1>2. PeerOrder \in Seq(Peers) /\ Peers \in SUBSET Peers
  BY GatewayAssumption
<1>3. Populated = [order |-> PeerOrder, rec |-> f]
  BY DEF Populated
<1> HIDE DEF f
<1>4. Populated \in Catalogs(Peers, Records) /\ PeersOf(Populated) = Peers
  BY <1>1, <1>2, <1>3 DEF Catalogs, PeersOf
<1>5. Populated.order = PeerOrder
  BY <1>3
<1> QED
  BY <1>4, <1>5, GatewayAssumption, CatalogsListIdsOnce

\* The two registries a process starts with.
LEMMA FirstRegistries ==
    \A start \in Starts : IsCatalog(start.catalog, Peers, Records) /\ start.handlers \subseteq Tools
BY EmptyIsCatalog, PopulatedIsCatalog, GatewayAssumption DEF Starts

\* Records changed in place.
LEMMA RecordsInPlace ==
    ASSUME IsCatalog(catalog, Peers, Records), NEW f \in [PeersOf(catalog) -> Records],
           catalog' = [catalog EXCEPT !.rec = f]
    PROVE  IsCatalog(catalog', Peers, Records)
BY ChangedIsCatalog, GatewayAssumption

LEMMA RegistryKept ==
    ASSUME RegistryTyped, [Next]_vars
    PROVE  RegistryTyped'
<1>a. catalog.rec \in [PeersOf(catalog) -> Records] /\ IsFiniteSet(Peers)
  <2>1. catalog \in Catalogs(Peers, Records)
    BY CatalogsListIdsOnce DEF RegistryTyped
  <2> QED
    BY <2>1, FieldsOfCatalog, GatewayAssumption
<1>1. ASSUME NEW p \in Peers, Deploy(p)
      PROVE  RegistryTyped'
  <2>1. Registered(Offers[p]) \in Records /\ Offers[p] \subseteq Tools
    BY RecordsOfPeers, GatewayAssumption
  <2> QED
    BY <1>a, <1>1, <2>1, UpdatedIsCatalog DEF Deploy, RegistryTyped
<1>2. ASSUME NEW p \in Peers, HeartbeatArrives(p)
      PROVE  RegistryTyped'
  <2>1. Registered({}) \in Records
    BY RecordsOfPeers
  <2> QED
    BY <1>a, <1>2, <2>1, UpdatedIsCatalog DEF HeartbeatArrives, RegistryTyped
<1>3. ASSUME NEW p \in Peers, HeartbeatPing(p)
      PROVE  RegistryTyped'
  <2> DEFINE f == [catalog.rec EXCEPT ![p].status = "ALIVE"]
  <2>1. f \in [PeersOf(catalog) -> Records]
    BY <1>a DEF Records, Statuses
  <2>2. catalog' = [catalog EXCEPT !.rec = f]
    BY <1>3 DEF HeartbeatPing
  <2> HIDE DEF f
  <2> QED
    BY <1>3, <2>1, <2>2, RecordsInPlace DEF HeartbeatPing, RegistryTyped
<1>4. ASSUME NEW statuses \in [PeersOf(catalog) -> Statuses], CheckPeers(statuses)
      PROVE  RegistryTyped'
  <2> DEFINE f == [p \in PeersOf(catalog) |-> [catalog.rec[p] EXCEPT !.status = statuses[p]]]
  <2>1. f \in [PeersOf(catalog) -> Records]
    BY <1>a DEF Records
  <2>2. catalog' = [catalog EXCEPT !.rec = f]
    BY <1>4 DEF CheckPeers
  <2> HIDE DEF f
  <2> QED
    BY <1>4, <2>1, <2>2, RecordsInPlace DEF CheckPeers, RegistryTyped
<1>5. ASSUME NEW tool \in Tools, RegisterLocalHandler(tool)
      PROVE  RegistryTyped'
  BY <1>5 DEF RegisterLocalHandler, RegistryTyped
<1>6. CASE Restart
  BY <1>6, FirstRegistries DEF Restart, RegistryTyped
<1>7. CASE UNCHANGED <<catalog, handlers>>
  BY <1>7 DEF RegistryTyped
<1>8. ASSUME ~RegistryChange, ~Restart
      PROVE  UNCHANGED <<catalog, handlers>>
  BY <1>8 DEF Next, vars, RegisterChannel, LinkBreaks, LinkCloses, Dispatch, Unreachable,
              DelegateOverChannel, DelegateToHandler, SimulateTask, StreamOverChannel,
              SimulateStream, HandlerEnds, OnChannel, Sent, SendFails, Answer, Return,
              TimerExpires, ChunkComes, VerifyToken, GetPrompt, StartReview, EndReview, Tick
<1> QED
  BY <1>1, <1>2, <1>3, <1>4, <1>5, <1>6, <1>7, <1>8 DEF RegistryChange

----------------------------------------------------------------------------
(* The tokens.                                                             *)

LEMMA TokensKept ==
    ASSUME TInv, [Next]_vars
    PROVE  TokensTyped'
<1>a. /\ TokensTyped /\ token \in [Tasks -> Tokens]
      /\ Timeout \in Nat /\ Allowance \in Nat /\ None \notin Tools
  BY Lifetimes, GatewayAssumption DEF TInv, IInv, Typing
<1>1. ASSUME NEW t \in Tasks, NEW tool \in Tools, IssueToken(t, tool)
      PROVE  TokensTyped'
  <2>1. PICK cut \in 0..(Second - 1) :
           token' = [token EXCEPT ![t] = [tool |-> tool, left |-> Ttl - cut, life |-> life]]
    BY <1>1 DEF IssueToken
  <2>2. Ttl - cut \in 0..(Timeout + Allowance)
    BY Lifetimes
  <2>3. /\ token'[t].left = Ttl - cut /\ token'[t].tool = tool
        /\ \A u \in Tasks : u # t => token'[u] = token[u]
    BY <1>a, <2>1
  <2>4. seen' = seen
    BY <1>1 DEF IssueToken
  <2> QED
    BY <1>a, <2>2, <2>3, <2>4 DEF TokensTyped
<1>2. CASE Tick
  <2>1. \A t \in Tasks :
           /\ token'[t].left = (IF token[t].left > 0 THEN token[t].left - 1 ELSE 0)
           /\ token'[t].tool = token[t].tool
    BY <1>a, <1>2 DEF Tick, Tokens
  <2>2. seen' = seen
    BY <1>2 DEF Tick
  <2>3. \A t \in Tasks : token'[t].left \in 0..(Timeout + Allowance)
    BY <1>a, <2>1 DEF TokensTyped
  <2> QED
    BY <1>a, <2>1, <2>2, <2>3 DEF TokensTyped
<1>3. ASSUME NEW t \in Tasks, NEW tool \in Tools, VerifyToken(t, tool)
      PROVE  TokensTyped'
  BY <1>a, <1>3 DEF VerifyToken, Decodes, TokensTyped
<1>4. CASE Restart
  BY <1>a, <1>4 DEF Restart, TokensTyped
<1>5. CASE UNCHANGED <<token, seen>>
  BY <1>a, <1>5 DEF TokensTyped
<1>6. ASSUME NEW t \in Tasks, Dispatch(t)
      PROVE  \/ UNCHANGED <<token, seen>>
             \/ \E tool \in Tools : IssueToken(t, tool)
  BY <1>6 DEF Dispatch, Unreachable, DelegateOverChannel, DelegateToHandler, SimulateTask,
              StreamOverChannel, SimulateStream, HandlerEnds, tokenVars
<1>7. ASSUME NEW t \in Tasks, OnChannel(t)
      PROVE  UNCHANGED <<token, seen>>
  BY <1>7 DEF OnChannel, Sent, SendFails, Answer, Return, TimerExpires, ChunkComes, tokenVars
<1>8. ASSUME \/ RegistryChange
             \/ \E p \in Peers, ch \in Channels : RegisterChannel(p, ch)
             \/ \E ch \in Channels : LinkBreaks(ch) \/ LinkCloses(ch)
             \/ \E r \in Reviews : GetPrompt(r)
             \/ UNCHANGED vars
      PROVE  UNCHANGED <<token, seen>>
  BY <1>8 DEF RegistryChange, Deploy, HeartbeatArrives, HeartbeatPing, CheckPeers,
              RegisterLocalHandler, Changing, RegisterChannel, LinkBreaks, LinkCloses,
              GetPrompt, StartReview, EndReview, vars, tokenVars
<1> QED
  BY <1>1, <1>2, <1>3, <1>4, <1>5, <1>6, <1>7, <1>8 DEF Next

----------------------------------------------------------------------------
(* Events, restarts and channels.                                          *)

LEMMA EventsKept ==
    ASSUME TInv, [Next]_vars
    PROVE  EventsTyped'
<1>a. events \in 0..MaxEvents /\ life <= events /\ life \in Nat /\ MaxEvents \in Nat
  BY GatewayAssumption DEF TInv, EventsTyped, IInv, Typing
<1>1. CASE Restart
  BY <1>a, <1>1 DEF Restart, Event, EventsTyped
<1>2. CASE Event /\ life' = life
  BY <1>a, <1>2 DEF Event, EventsTyped
<1>3. CASE UNCHANGED <<events, life>>
  BY <1>a, <1>3 DEF EventsTyped
<1>4. ASSUME ~Restart
      PROVE  (Event /\ life' = life) \/ UNCHANGED <<events, life>>
  <2>1. ASSUME \/ RegistryChange
               \/ \E p \in Peers, ch \in Channels : RegisterChannel(p, ch)
               \/ \E ch \in Channels : LinkBreaks(ch) \/ LinkCloses(ch)
               \/ \E t \in Tasks, tool \in Tools : VerifyToken(t, tool)
               \/ \E r \in Reviews : GetPrompt(r)
        PROVE  (Event /\ life' = life) \/ UNCHANGED <<events, life>>
    BY <2>1 DEF RegistryChange, Deploy, HeartbeatArrives, HeartbeatPing, CheckPeers,
                RegisterLocalHandler, Changing, RegisterChannel, LinkBreaks, LinkCloses,
                VerifyToken, GetPrompt, StartReview, EndReview
  <2>2. ASSUME \/ \E t \in Tasks : Dispatch(t) \/ OnChannel(t)
               \/ Tick \/ UNCHANGED vars
        PROVE  UNCHANGED <<events, life>>
    BY <2>2 DEF vars, Dispatch, Unreachable, DelegateOverChannel, DelegateToHandler,
                SimulateTask, StreamOverChannel, SimulateStream, HandlerEnds, OnChannel, Sent,
                SendFails, Answer, Return, TimerExpires, ChunkComes, Tick
  <2> QED
    BY <1>4, <2>1, <2>2 DEF Next
<1> QED
  BY <1>1, <1>2, <1>3, <1>4

LEMMA LinksKept ==
    ASSUME TInv, [Next]_vars
    PROVE  LinksTyped'
<1>a. link \in [Channels -> {"unused", "open", "dead", "closed"}]
  BY DEF TInv, LinksTyped
<1>1. CASE Restart
  BY <1>a, <1>1 DEF Restart, LinksTyped
<1>2. CASE \E p \in Peers, ch \in Channels : RegisterChannel(p, ch)
  BY <1>a, <1>2 DEF RegisterChannel, LinksTyped
<1>3. CASE \E ch \in Channels : LinkBreaks(ch) \/ LinkCloses(ch)
  BY <1>a, <1>3 DEF LinkBreaks, LinkCloses, LinksTyped
<1>4. ASSUME \/ RegistryChange
             \/ \E t \in Tasks : Dispatch(t) \/ OnChannel(t)
             \/ \E t \in Tasks, tool \in Tools : VerifyToken(t, tool)
             \/ \E r \in Reviews : GetPrompt(r)
             \/ Tick \/ UNCHANGED vars
      PROVE  LinksTyped'
  <2>1. link' = link
    BY <1>4 DEF RegistryChange, Deploy, HeartbeatArrives, HeartbeatPing, CheckPeers,
                RegisterLocalHandler, Changing, Dispatch, Unreachable, DelegateOverChannel,
                DelegateToHandler, SimulateTask, StreamOverChannel, SimulateStream,
                HandlerEnds, OnChannel, Sent, SendFails, Answer, Return, TimerExpires,
                ChunkComes, VerifyToken, GetPrompt, StartReview, EndReview, Tick, vars
  <2> QED
    BY <1>a, <2>1 DEF LinksTyped
<1> QED
  BY <1>1, <1>2, <1>3, <1>4 DEF Next

----------------------------------------------------------------------------
(* The reviews.                                                            *)

\* A slice is as long as it can be, whatever its bound.
LEMMA SelectedIsNat ==
    ASSUME RegistryTyped, NEW k \in Int
    PROVE  Selected(k) \in Nat
<1> DEFINE alive == {p \in PeersOf(catalog) : catalog.rec[p].status = "ALIVE"}
           n == Cardinality(alive)
<1>1. IsFiniteSet(alive)
  <2>1. catalog \in Catalogs(Peers, Records) /\ IsFiniteSet(Peers)
    BY GatewayAssumption, CatalogsListIdsOnce DEF RegistryTyped
  <2>2. IsFiniteSet(PeersOf(catalog)) /\ alive \subseteq PeersOf(catalog)
    BY <2>1, FieldsOfCatalog
  <2> QED
    BY <2>2, FS_Subset
<1>2. n \in Nat
  BY <1>1, FS_CardinalityType
<1>3. Selected(k) = LET end == IF k >= 0 THEN k ELSE n + k
                    IN IF end < 0 THEN 0 ELSE IF end > n THEN n ELSE end
  BY DEF Selected
<1> HIDE DEF n
<1> QED
  BY <1>2, <1>3

LEMMA ReviewsKept ==
    ASSUME TInv, [Next]_vars
    PROVE  ReviewsTyped'
<1>a. review \in [Reviews -> ReviewStates] /\ RegistryTyped
  BY DEF TInv, ReviewsTyped
<1>1. ASSUME NEW r \in Reviews, NEW v \in ReviewStates, review' = [review EXCEPT ![r] = v]
      PROVE  ReviewsTyped'
  BY <1>a, <1>1 DEF ReviewsTyped
<1>2. ASSUME NEW r \in Reviews, NEW k \in Int, NEW quorum \in Int, NEW late \in BOOLEAN,
             StartReview(r, k, quorum, late)
      PROVE  ReviewsTyped'
  <2> DEFINE panel == IF Selected(k) < k THEN k ELSE Selected(k)
             v == [st |-> IF panel = 0 THEN "raised" ELSE "fannedout",
                   panel |-> panel, quorum |-> quorum, late |-> late]
  <2>1. panel \in Nat
    BY <1>a, SelectedIsNat
  <2>2. review' = [review EXCEPT ![r] = v]
    BY <1>2 DEF StartReview
  <2> HIDE DEF panel
  <2>3. v \in ReviewStates
    BY <2>1 DEF ReviewStates
  <2> HIDE DEF v
  <2> QED
    BY <1>1, <2>2, <2>3
<1>3. ASSUME NEW r \in Reviews, EndReview(r)
      PROVE  ReviewsTyped'
  <2> DEFINE s == Verdict(IF review[r].late THEN 0 ELSE review[r].panel, review[r].quorum)
             v == [review[r] EXCEPT !.st = s]
  <2>1. review' = [review EXCEPT ![r] = v]
    BY <1>a, <1>3 DEF EndReview
  <2>2. s \in {"quorumfailed", "raised", "reached"}
    BY DEF Verdict
  <2> HIDE DEF s
  <2>3. v \in ReviewStates
    BY <1>a, <2>2 DEF ReviewStates
  <2> HIDE DEF v
  <2> QED
    BY <1>1, <2>1, <2>3
<1>4. CASE Restart
  <2>1. \A r \in Reviews : \/ review'[r] = review[r]
                           \/ review'[r] = [review[r] EXCEPT !.st = "lost"]
    BY <1>4 DEF Restart
  <2>2. \A v \in ReviewStates : [v EXCEPT !.st = "lost"] \in ReviewStates
    BY DEF ReviewStates
  <2>3. \A r \in Reviews : review'[r] \in ReviewStates
    BY <1>a, <2>1, <2>2
  <2>4. review' = [r \in Reviews |-> review'[r]]
    BY <1>4 DEF Restart
  <2> QED
    BY <2>3, <2>4 DEF ReviewsTyped
<1>5. CASE review' = review
  BY <1>a, <1>5 DEF ReviewsTyped
<1>6. ASSUME NEW r \in Reviews, GetPrompt(r)
      PROVE  ReviewsTyped'
  BY <1>2, <1>3, <1>6, GatewayAssumption DEF GetPrompt
<1>7. ASSUME \/ RegistryChange
             \/ \E p \in Peers, ch \in Channels : RegisterChannel(p, ch)
             \/ \E ch \in Channels : LinkBreaks(ch) \/ LinkCloses(ch)
             \/ \E t \in Tasks : Dispatch(t) \/ OnChannel(t)
             \/ \E t \in Tasks, tool \in Tools : VerifyToken(t, tool)
             \/ Tick \/ UNCHANGED vars
      PROVE  review' = review
  BY <1>7 DEF RegistryChange, Deploy, HeartbeatArrives, HeartbeatPing, CheckPeers,
              RegisterLocalHandler, Changing, RegisterChannel, LinkBreaks, LinkCloses, Dispatch,
              Unreachable, DelegateOverChannel, DelegateToHandler, SimulateTask,
              StreamOverChannel, SimulateStream, HandlerEnds, OnChannel, Sent, SendFails,
              Answer, Return, TimerExpires, ChunkComes, VerifyToken, Tick, vars
<1> QED
  BY <1>4, <1>5, <1>6, <1>7 DEF Next

----------------------------------------------------------------------------

LEMMA TInvInit == Init => TInv
<1> SUFFICES ASSUME Init PROVE TInv
  OBVIOUS
<1>1. IInv
  BY InitEstablishesIInv
<1>2. RegistryTyped
  BY FirstRegistries DEF Init, RegistryTyped
<1>3. TokensTyped /\ EventsTyped /\ LinksTyped
  BY GatewayAssumption, Lifetimes DEF Init, TokensTyped, EventsTyped, LinksTyped, NoToken
<1>4. ReviewsTyped
  BY DEF Init, ReviewsTyped, NewReview, ReviewStates
<1> QED
  BY <1>1, <1>2, <1>3, <1>4 DEF TInv

LEMMA TInvStep == TInv /\ [Next]_vars => TInv'
<1> SUFFICES ASSUME TInv, [Next]_vars PROVE TInv'
  OBVIOUS
<1>1. IInv' /\ RegistryTyped'
  BY StepKeepsIInv, RegistryKept DEF TInv
<1>2. TokensTyped' /\ EventsTyped' /\ LinksTyped'
  BY TokensKept, EventsKept, LinksKept
<1>3. ReviewsTyped'
  BY ReviewsKept
<1> QED
  BY <1>1, <1>2, <1>3 DEF TInv

LEMMA TypesInvariant == Spec => []TInv
BY TInvInit, TInvStep, PTL DEF Spec

\* The registry, the pool, the calls, the tokens and the reviews of a gateway
\* have their types in every reachable state, over restarts and whatever the
\* detector, the gossip engine and the dashboard write: TaskDispatcher,
\* TokenAuthority and SwarmConsensusEngine never leave a field out of its range.
THEOREM TypeCorrectness == Spec => []TypeOK
<1>1. TInv => TypeOK
  <2> SUFFICES ASSUME TInv PROVE TypeOK
    OBVIOUS
  <2>1. /\ IInv /\ RegistryTyped /\ TokensTyped /\ EventsTyped /\ LinksTyped /\ ReviewsTyped
        /\ MaxEvents \in Nat
    BY GatewayAssumption DEF TInv
  <2>2. Typing /\ NoncesCount
    BY <2>1 DEF IInv
  <2>3. \A t \in Tasks : /\ token[t].tool \in Tools \cup {None}
                         /\ token[t].life \in 0..life
    BY <2>2 DEF Typing, NoncesCount, Tokens
  <2>4. events \in Nat /\ life \in Nat /\ life <= MaxEvents
    BY <2>1, <2>2 DEF EventsTyped, Typing
  <2>5. accepted \in [Tasks -> 0..(1 + MaxEvents)]
    <3>1. ASSUME NEW t \in Tasks
          PROVE  accepted[t] \in 0..(1 + MaxEvents)
      <4>1. accepted[t] \in Nat /\ accepted[t] <= 1 + Before(t)
        BY <2>2 DEF Typing, NoncesCount
      <4>2. Before(t) \in 0..life
        BY <2>3, <2>4 DEF Before
      <4> QED
        BY <2>1, <2>4, <4>1, <4>2
    <3> QED
      BY <2>2, <3>1 DEF Typing
  <2> QED
    BY <2>1, <2>2, <2>3, <2>4, <2>5
       DEF TypeOK, RegistryTyped, TokensTyped, EventsTyped, LinksTyped, ReviewsTyped, Typing
<1> QED
  BY <1>1, TypesInvariant, PTL

=============================================================================
