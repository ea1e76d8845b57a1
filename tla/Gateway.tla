------------------------------ MODULE Gateway ------------------------------
(***************************************************************************)
(* The gateway process: TaskDispatcher (mcp_mesh/router/dispatcher.py),    *)
(* TokenAuthority (mcp_mesh/crypto/tokens.py) and SwarmConsensusEngine     *)
(* (mcp_mesh/consensus/orchestrator.py) on one CapabilityRegistry, called  *)
(* through GatewayMcpFacade (mcp_mesh/gateway/mcp_facade.py).              *)
(*                                                                         *)
(* The registry changes under them as the gossip engine, the detector and  *)
(* the dashboard (app.py) write it.  Channels do what module Channel shows *)
(* of P2PChannel: one that broke takes requests nobody will answer, a      *)
(* closed one refuses them, and both abort what was pending.               *)
(*                                                                         *)
(* Time is in ticks, any number of them to the second, so that what int()  *)
(* cuts off is seen in full.  A task makes one call; its token is named    *)
(* after it.                                                               *)
(***************************************************************************)
EXTENDS Integers, Sequences, FiniteSets, Registry

CONSTANTS
    Peers, Tools, Channels,
    Tasks,          \* calls of delegate_task and delegate_task_stream
    Reviews,        \* calls of orchestrate_review
    None, AutoTarget,     \* no channel, and the target "auto"
    Offers,         \* Offers[p]: the tools p is registered with
    PeerOrder,      \* the order in which init_cluster_state registers peers
    Handled,        \* the tools init_cluster_state registers handlers for
    Second,         \* ticks in a second
    Timeout,        \* timeout_seconds of every call, in ticks
    Grace,          \* what the dispatcher adds to a token's ttl: 10 seconds
    KeepsKey,       \* is private_key_hex configured?  The dashboard never has one.
    PeerCounts,     \* values of k_peers
    Quorums,        \* values of min_quorum
    MaxEvents       \* bound: changes of the registry, the handlers, the pool and the
                    \* channels, reviews and restarts

ASSUME GatewayAssumption ==
    /\ IsFiniteSet(Peers) /\ IsFiniteSet(Tasks)
    /\ PeerOrder \in Seq(Peers) /\ Len(PeerOrder) = Cardinality(Peers)
    /\ {PeerOrder[i] : i \in DOMAIN PeerOrder} = Peers
    /\ AutoTarget \notin Peers /\ None \notin Channels /\ None \notin Tools
    /\ Offers \in [Peers -> SUBSET Tools] /\ Handled \subseteq Tools
    /\ Second \in Nat \ {0} /\ Timeout \in Nat \ {0} /\ Grace \in Nat \ {0}
    /\ KeepsKey \in BOOLEAN
    /\ PeerCounts \subseteq Int /\ Quorums \subseteq Int
    /\ MaxEvents \in Nat

VARIABLES
    catalog,    \* the registry: records [status, tools]
    handlers,   \* keys of _handlers
    pool,       \* _channel_pool
    link,       \* link[ch]: the state of a channel
    call,       \* call[t]: where the call of task t is
    token,      \* token[t]: the token issued for it
    seen,       \* _seen_nonces
    accepted,   \* accepted[t]: how often verify_token has accepted t's token
    life,       \* how many times the process restarted
    review,     \* review[r]: where a review is
    events      \* how many of the events bounded by MaxEvents there were

tokenVars == <<token, seen, accepted>>
vars == <<catalog, handlers, pool, link, call, tokenVars, life, review, events>>

----------------------------------------------------------------------------

\* A call is at `sending' while it awaits drain(), `waiting' while it awaits its
\* future or its next chunk, `local' while it awaits a handler.
Ended == {"unreachable", "refused", "unsent", "senderror", "answered", "complete", "reset", "truncated",
          "timeout", "handled", "raised", "simulated", "lost"}

\* Grace in ticks, and the life of a token but for what the clock's int() cuts off.
Allowance == Second * Grace

Ttl == Second * (Timeout \div Second + Grace)

\* fate: what happened to the call's future or queue; streaming: has it got a
\* chunk?  drained, waited: time spent in `sending', and since in `waiting'.
Calls == [st : {"idle", "sending", "waiting", "local"} \cup Ended,
          kind : {"call", "stream"}, on : Channels \cup {None},
          fate : {"pending", "result", "reset"}, streaming : BOOLEAN,
          waited : 0..Timeout, drained : 0..Allowance]

NewCall == [st |-> "idle", kind |-> "call", on |-> None, fate |-> "pending",
            streaming |-> FALSE, waited |-> 0, drained |-> 0]

\* left: the time until the token expires.  life: the process that signed it.
NoToken == [tool |-> None, left |-> 0, life |-> 0]

ReviewStates ==
    [st : {"idle", "fannedout", "reached", "quorumfailed", "raised", "lost"},
     panel : Nat, quorum : Int, late : BOOLEAN]

NewReview == [st |-> "idle", panel |-> 0, quorum |-> 0, late |-> FALSE]

Running(t) == call[t].st \in {"sending", "waiting", "local"}

Records == [status : Statuses, tools : SUBSET Tools]

Registered(tools) == [status |-> "ALIVE", tools |-> tools]

\* What init_cluster_state registers.
Populated == [order |-> PeerOrder, rec |-> [p \in Peers |-> Registered(Offers[p])]]

\* What a process starts with: a GatewayServer with nothing, the dashboard, whose
\* identity is always new, with every peer in the registry and some handlers.
Starts ==
    {[catalog |-> EmptyCatalog, handlers |-> {}]} \cup
    (IF KeepsKey THEN {} ELSE {[catalog |-> Populated, handlers |-> Handled]})

Init ==
    /\ \E start \in Starts : catalog = start.catalog /\ handlers = start.handlers
    /\ pool = [p \in Peers |-> None]
    /\ link = [ch \in Channels |-> "unused"]
    /\ call = [t \in Tasks |-> NewCall]
    /\ token = [t \in Tasks |-> NoToken]
    /\ seen = {}
    /\ accepted = [t \in Tasks |-> 0]
    /\ life = 0
    /\ review = [r \in Reviews |-> NewReview]
    /\ events = 0

----------------------------------------------------------------------------
(* The registry and the pool change                                        *)

\* The environment, or a client, does something of which there is a bound.
Event == events < MaxEvents /\ events' = events + 1

Changing == Event /\ UNCHANGED <<pool, link, call, tokenVars, life, review>>

\* A peer is registered with its tools; the dashboard adds handlers for them.
Deploy(p) ==
    /\ catalog' = UpdatePeer(catalog, p, Registered(Offers[p]))
    /\ handlers' = handlers \cup Offers[p]
    /\ Changing

\* A heartbeat replaces the record of its sender.  It never carries tools.
HeartbeatArrives(p) ==
    /\ catalog' = UpdatePeer(catalog, p, Registered({}))
    /\ UNCHANGED handlers
    /\ Changing

\* check_peers writes every record, whichever peers were silent: the monitor loop
\* runs it, and so does the dashboard's Drop Heartbeat, for one peer it made silent.
\* It goes by the wall clock, which may be set back.
CheckPeers(statuses) ==
    /\ catalog' = [catalog EXCEPT !.rec =
                     [p \in PeersOf(catalog) |-> [catalog.rec[p] EXCEPT !.status = statuses[p]]]]
    /\ UNCHANGED handlers
    /\ Changing

\* The dashboard's Heartbeat Ping writes one record in place.
HeartbeatPing(p) ==
    /\ p \in PeersOf(catalog)
    /\ catalog' = [catalog EXCEPT !.rec[p].status = "ALIVE"]
    /\ UNCHANGED handlers
    /\ Changing

RegisterLocalHandler(tool) ==
    /\ tool \notin handlers
    /\ handlers' = handlers \cup {tool}
    /\ UNCHANGED catalog
    /\ Changing

\* A new connection to p takes the place of the old one, which lives on for the
\* calls that use it.
RegisterChannel(p, ch) ==
    /\ Event
    /\ link[ch] = "unused"
    /\ link' = [link EXCEPT ![ch] = "open"]
    /\ pool' = [pool EXCEPT ![p] = ch]
    /\ UNCHANGED <<catalog, handlers, call, tokenVars, life, review>>

----------------------------------------------------------------------------
(* delegate_task() and delegate_task_stream()                              *)

\* The peer a call of delegate_task goes to, if any: "auto" is the first ALIVE
\* peer that offers the tool, any other target must be known and not DEAD.
Resolve(target, tool) ==
    IF target = AutoTarget
    THEN LET found == FindPeersForTool(catalog, tool)
         IN {p \in Peers : found # <<>> /\ p = Head(found)}
    ELSE {p \in PeersOf(catalog) \cap {target} : catalog.rec[p].status # "DEAD"}

\* The call of t is over; nothing else of it matters any more.
End(t, how) == call' = [call EXCEPT ![t] = [NewCall EXCEPT !.st = how]]

Unreachable(t, target, tool) ==
    /\ call[t].st = "idle"
    /\ Resolve(target, tool) = {}
    /\ End(t, "unreachable")
    /\ UNCHANGED <<catalog, handlers, pool, link, tokenVars, life, review, events>>

\* A bug: the token lives for the timeout, rounded up, and no longer.
MutIssueToken(t, tool) ==
    /\ \E cut \in 0..(Second - 1) :
          token' = [token EXCEPT ![t] =
                      [tool |-> tool, left |-> Second * (Timeout \div Second + 1) - cut, life |-> life]]
    /\ UNCHANGED <<seen, accepted>>

\* issue_token: the token expires int(timeout_seconds) + 10 whole seconds after
\* the last full second.
IssueToken(t, tool) ==
    /\ \E cut \in 0..(Second - 1) :
          token' = [token EXCEPT ![t] = [tool |-> tool, left |-> Ttl - cut, life |-> life]]
    /\ UNCHANGED <<seen, accepted>>

\* What a call does on a channel: it is registered and awaits drain(), unless the
\* channel was closed, or the request cannot be written as a frame.  A channel
\* that broke is not noticed.
Request(t, kind, ch) ==
    \/ link[ch] = "closed" /\ End(t, "refused")
    \/ link[ch] # "closed" /\ End(t, "unsent")
    \/ /\ link[ch] # "closed"
       /\ call' = [call EXCEPT ![t] = [NewCall EXCEPT !.st = "sending", !.kind = kind, !.on = ch]]

DelegateOverChannel(t, target, tool) ==
    /\ call[t].st = "idle"
    /\ \E p \in Resolve(target, tool) : pool[p] # None /\ Request(t, "call", pool[p])
    /\ IssueToken(t, tool)
    /\ UNCHANGED <<catalog, handlers, pool, link, life, review, events>>

\* A handler that is no coroutine runs at once; one that is, is awaited, and the
\* timeout does not apply to it.
DelegateToHandler(t, target, tool) ==
    /\ call[t].st = "idle"
    /\ \E p \in Resolve(target, tool) : pool[p] = None
    /\ tool \in handlers
    /\ \/ \E how \in {"handled", "raised"} : End(t, how)
       \/ call' = [call EXCEPT ![t].st = "local"]
    /\ IssueToken(t, tool)
    /\ UNCHANGED <<catalog, handlers, pool, link, life, review, events>>

\* With neither, the dispatcher makes a result up.
SimulateTask(t, target, tool) ==
    /\ call[t].st = "idle"
    /\ \E p \in Resolve(target, tool) : pool[p] = None
    /\ tool \notin handlers
    /\ End(t, "simulated")
    /\ IssueToken(t, tool)
    /\ UNCHANGED <<catalog, handlers, pool, link, life, review, events>>

\* delegate_task_stream does not look at the registry.
StreamOverChannel(t, p, tool) ==
    /\ call[t].st = "idle"
    /\ pool[p] # None
    /\ Request(t, "stream", pool[p])
    /\ IssueToken(t, tool)
    /\ UNCHANGED <<catalog, handlers, pool, link, life, review, events>>

SimulateStream(t, p) ==
    /\ call[t].st = "idle"
    /\ pool[p] = None
    /\ End(t, "simulated")
    /\ UNCHANGED <<catalog, handlers, pool, link, tokenVars, life, review, events>>

HandlerEnds(t) ==
    /\ call[t].st = "local"
    /\ \E how \in {"handled", "raised"} : End(t, how)
    /\ UNCHANGED <<catalog, handlers, pool, link, tokenVars, life, review, events>>

\* A tool called by its name is a call to "auto".
Dispatch(t) ==
    \/ \E tool \in Tools :
          \/ \E target \in Peers \cup {AutoTarget} :
                \/ Unreachable(t, target, tool) \/ DelegateOverChannel(t, target, tool)
                \/ DelegateToHandler(t, target, tool) \/ SimulateTask(t, target, tool)
          \/ \E p \in Peers : StreamOverChannel(t, p, tool)
    \/ \E p \in Peers : SimulateStream(t, p)
    \/ HandlerEnds(t)

----------------------------------------------------------------------------
(* Calls on a channel                                                      *)

\* drain() returns: from here the timer runs.
Sent(t) ==
    /\ call[t].st = "sending"
    /\ call' = [call EXCEPT ![t].st = "waiting"]
    /\ UNCHANGED <<catalog, handlers, pool, link, tokenVars, life, review, events>>

SendFails(t) ==
    /\ call[t].st = "sending"
    /\ link[call[t].on] # "open"
    /\ End(t, "senderror")
    /\ UNCHANGED <<catalog, handlers, pool, link, tokenVars, life, review, events>>

\* The peer answers a request.
Answer(t) ==
    /\ call[t].st \in {"sending", "waiting"} /\ call[t].kind = "call"
    /\ link[call[t].on] = "open" /\ call[t].fate = "pending"
    /\ call' = [call EXCEPT ![t].fate = "result"]
    /\ UNCHANGED <<catalog, handlers, pool, link, tokenVars, life, review, events>>

\* A chunk comes and the consumer takes it; each has the whole timeout.
ChunkComes(t, final) ==
    /\ call[t].st = "waiting" /\ call[t].kind = "stream"
    /\ link[call[t].on] = "open" /\ call[t].fate = "pending"
    /\ IF final THEN End(t, "complete")
       ELSE call' = [call EXCEPT ![t].streaming = TRUE, ![t].waited = 0]
    /\ UNCHANGED <<catalog, handlers, pool, link, tokenVars, life, review, events>>

Return(t) ==
    /\ call[t].st = "waiting"
    /\ \/ call[t].fate = "result" /\ End(t, "answered")
       \/ call[t].fate = "reset" /\ End(t, IF call[t].kind = "call" THEN "reset" ELSE "truncated")
    /\ UNCHANGED <<catalog, handlers, pool, link, tokenVars, life, review, events>>

\* A bug: the timer of a call is looked at only while its connection is up.
MutTimerExpires(t) ==
    /\ call[t].st = "waiting"
    /\ call[t].waited = Timeout
    /\ link[call[t].on] = "open"
    /\ End(t, "timeout")
    /\ UNCHANGED <<catalog, handlers, pool, link, tokenVars, life, review, events>>

TimerExpires(t) ==
    /\ call[t].st = "waiting"
    /\ call[t].waited = Timeout
    /\ End(t, "timeout")
    /\ UNCHANGED <<catalog, handlers, pool, link, tokenVars, life, review, events>>

\* Every call pending on ch gets a ConnectionResetError or the end of its queue.
Abort(ch) ==
    call' = [t \in Tasks |->
               IF call[t].on = ch /\ Running(t) /\ call[t].fate = "pending"
               THEN [call[t] EXCEPT !.fate = "reset"] ELSE call[t]]

\* The demultiplexer stops: the connection broke, or a frame was rejected.
LinkBreaks(ch) ==
    /\ Event
    /\ link[ch] = "open"
    /\ link' = [link EXCEPT ![ch] = "dead"]
    /\ Abort(ch)
    /\ UNCHANGED <<catalog, handlers, pool, tokenVars, life, review>>

\* close().  It raises, and aborts nothing more, if the demultiplexer had failed.
LinkCloses(ch) ==
    /\ Event
    /\ link[ch] \in {"open", "dead"}
    /\ link' = [link EXCEPT ![ch] = "closed"]
    /\ \/ Abort(ch)
       \/ link[ch] = "dead" /\ UNCHANGED call
    /\ UNCHANGED <<catalog, handlers, pool, tokenVars, life, review>>

\* Time passes, by one tick.  Timers and ready tasks are served in time; drain() and
\* a handler may take any time.
Tick ==
    /\ \A t \in Tasks : call[t].st = "waiting" =>
          call[t].waited < Timeout /\ call[t].fate = "pending"
    /\ call' = [t \in Tasks |-> [call[t] EXCEPT
                  !.waited = IF call[t].st = "waiting" THEN @ + 1 ELSE @,
                  !.drained = IF call[t].st = "sending" /\ @ < Allowance THEN @ + 1 ELSE @]]
    /\ token' = [t \in Tasks |-> [token[t] EXCEPT !.left = IF @ > 0 THEN @ - 1 ELSE 0]]
    /\ UNCHANGED <<catalog, handlers, pool, link, seen, accepted, life, review, events>>

OnChannel(t) ==
    \/ Sent(t) \/ SendFails(t) \/ Answer(t) \/ Return(t) \/ TimerExpires(t)
    \/ \E final \in BOOLEAN : ChunkComes(t, final)

----------------------------------------------------------------------------
(* verify_token()                                                          *)

\* The token decodes: it has not expired, and its signature is of the key this
\* process has.
Decodes(t) ==
    /\ token[t].tool # None
    /\ token[t].left > 0
    /\ KeepsKey \/ token[t].life = life

\* A bug: the nonce is not remembered.
MutVerifyToken(t, tool) ==
    /\ Decodes(t)
    /\ t \notin seen
    /\ accepted' = [accepted EXCEPT ![t] = IF token[t].tool = tool THEN @ + 1 ELSE @]
    /\ UNCHANGED seen
    /\ UNCHANGED <<catalog, handlers, pool, link, call, token, life, review, events>>

\* Somebody presents t's token for a tool.  A token that does not decode, or
\* whose nonce was seen, is refused with no effect.  Any other spends its nonce,
\* also when it is for another tool and refused for that.
VerifyToken(t, tool) ==
    /\ Decodes(t)
    /\ t \notin seen
    /\ seen' = seen \cup {t}
    /\ accepted' = [accepted EXCEPT ![t] = IF token[t].tool = tool THEN @ + 1 ELSE @]
    /\ UNCHANGED <<catalog, handlers, pool, link, call, token, life, review, events>>

----------------------------------------------------------------------------
(* orchestrate_review()                                                    *)

\* The length of active_peers[:k]: a negative k counts from the end.
Selected(k) ==
    LET n == Cardinality({p \in PeersOf(catalog) : catalog.rec[p].status = "ALIVE"})
        end == IF k >= 0 THEN k ELSE n + k
    IN IF end < 0 THEN 0 ELSE IF end > n THEN n ELSE end

\* The evaluators: as many ALIVE peers as there are up to k, made up to k by
\* invented ones.  With none asyncio.wait() raises.  A `late' evaluation sleeps
\* longer than the timeout.
StartReview(r, k, quorum, late) ==
    LET panel == IF Selected(k) < k THEN k ELSE Selected(k) IN
    /\ Event
    /\ review[r].st = "idle"
    /\ review' = [review EXCEPT ![r] =
                    [st |-> IF panel = 0 THEN "raised" ELSE "fannedout",
                     panel |-> panel, quorum |-> quorum, late |-> late]]
    /\ UNCHANGED <<catalog, handlers, pool, link, call, tokenVars, life>>

Verdict(evaluations, quorum) ==
    IF evaluations < quorum THEN "quorumfailed"
    ELSE IF evaluations = 0 THEN "raised"     \* the mean of no scores
    ELSE "reached"

\* The wait is over: all evaluations are there, or the timeout passed and none.
\* Every evaluation approves.
EndReview(r) ==
    /\ review[r].st = "fannedout"
    /\ review' = [review EXCEPT ![r].st =
                    Verdict(IF review[r].late THEN 0 ELSE review[r].panel, review[r].quorum)]
    /\ UNCHANGED <<catalog, handlers, pool, link, call, tokenVars, life, events>>

\* The prompt swarm_consensus_review, with whatever numbers the client gives.
GetPrompt(r) ==
    \/ EndReview(r)
    \/ \E k \in PeerCounts, quorum \in Quorums, late \in BOOLEAN : StartReview(r, k, quorum, late)

----------------------------------------------------------------------------

\* The process dies and another starts: tokens live on elsewhere, nothing else.
Restart ==
    /\ Event
    /\ life' = life + 1
    /\ \E start \in Starts : catalog' = start.catalog /\ handlers' = start.handlers
    /\ pool' = [p \in Peers |-> None]
    /\ link' = [ch \in Channels |-> IF link[ch] = "unused" THEN "unused" ELSE "closed"]
    /\ call' = [t \in Tasks |-> IF Running(t) THEN [NewCall EXCEPT !.st = "lost"] ELSE call[t]]
    /\ seen' = {}
    /\ review' = [r \in Reviews |->
                    IF review[r].st = "fannedout" THEN [review[r] EXCEPT !.st = "lost"]
                    ELSE review[r]]
    /\ UNCHANGED <<token, accepted>>

\* What list_tools shows besides the delegation tool.
ListedTools == ManifestTools(catalog)

RegistryChange ==
    \/ \E p \in Peers : Deploy(p) \/ HeartbeatArrives(p) \/ HeartbeatPing(p)
    \/ \E statuses \in [PeersOf(catalog) -> Statuses] : CheckPeers(statuses)
    \/ \E tool \in Tools : RegisterLocalHandler(tool)

Next ==
    \/ RegistryChange
    \/ \E p \in Peers, ch \in Channels : RegisterChannel(p, ch)
    \/ \E ch \in Channels : LinkBreaks(ch) \/ LinkCloses(ch)
    \/ \E t \in Tasks : Dispatch(t) \/ OnChannel(t)
    \/ \E t \in Tasks, tool \in Tools : VerifyToken(t, tool)
    \/ \E r \in Reviews : GetPrompt(r)
    \/ Tick
    \/ Restart

Spec == Init /\ [][Next]_vars

\* Time passes, and the event loop serves timers and ready tasks.
Fairness == WF_vars(Tick) /\ \A t \in Tasks : WF_vars(TimerExpires(t)) /\ WF_vars(Return(t))

FairSpec == Spec /\ Fairness

----------------------------------------------------------------------------
(* Properties                                                              *)

\* Type invariant.  The registry lists each of its peers once.
TypeOK ==
    /\ IsCatalog(catalog, Peers, Records)
    /\ handlers \subseteq Tools
    /\ pool \in [Peers -> Channels \cup {None}]
    /\ link \in [Channels -> {"unused", "open", "dead", "closed"}]
    /\ call \in [Tasks -> Calls]
    /\ \A t \in Tasks : token[t].tool \in Tools \cup {None}
    /\ \A t \in Tasks : token[t].left \in 0..(Timeout + Allowance)
    /\ \A t \in Tasks : token[t].life \in 0..life
    /\ seen \subseteq {t \in Tasks : token[t].tool # None}
    /\ accepted \in [Tasks -> 0..(1 + MaxEvents)]
    /\ review \in [Reviews -> ReviewStates]
    /\ life \in 0..MaxEvents
    /\ events \in 0..MaxEvents

\* A token is accepted at most once by one process, whatever it is presented
\* for and in which order.  A process that keeps its key forgets its nonces
\* when it restarts, and accepts the token once more while it lasts.
AcceptedOnce ==
    \A t \in Tasks : accepted[t] <= 1 + (IF KeepsKey THEN life - token[t].life ELSE 0)

\* A request the caller still waits for carries a token that is good, however
\* late the peer reads it and whatever the two int() cut off, provided drain()
\* took less than the allowance by two seconds or more: nearly one second for
\* each int().  Of a stream this holds until its first chunk: its later waits
\* start the timer anew.
TokenOutlivesWait ==
    \A t \in Tasks :
        /\ call[t].st = "waiting" /\ ~call[t].streaming
        /\ call[t].drained <= Allowance - 2 * Second
        => token[t].left > 0

\* A call that was sent ends, on a channel that is open, broken, closed or
\* replaced in the pool: the answer, an abort or the timer ends it.  Only a
\* stream on a channel that is open may go on, for it may get chunks for ever.
SentCallsEnd ==
    \A t \in Tasks :
        LET flows == call[t].streaming /\ link[call[t].on] = "open" IN
        call[t].st = "waiting" /\ ~flows ~> call[t].st \in Ended \/ flows

\* list_tools only lists the tools of peers that are not DEAD (`Aggregate tools
\* from active peers', mcp_facade.py:41).  The manifest it reads has every record.
ListedToolsAreActive ==
    \A tool \in ListedTools : \E p \in PeersOf(catalog) :
        tool \in catalog.rec[p].tools /\ catalog.rec[p].status # "DEAD"

=============================================================================
