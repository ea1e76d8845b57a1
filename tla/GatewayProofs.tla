--------------------------- MODULE GatewayProofs ---------------------------
(***************************************************************************)
(* What holds of the tokens of a gateway for any number of peers, channels *)
(* and calls, any timeout, and however often the process restarts.         *)
(***************************************************************************)
EXTENDS Gateway, TLAPS

Tokens == [tool : Tools \cup {None}, left : Int, life : Nat]

Typing ==
    /\ pool \in [Peers -> Channels \cup {None}]
    /\ call \in [Tasks -> Calls]
    /\ token \in [Tasks -> Tokens]
    /\ accepted \in [Tasks -> Nat]
    /\ life \in Nat

\* Before its call a task has no token, and nothing was done with one.
Fresh ==
    \A t \in Tasks : call[t].st = "idle" =>
        token[t].tool = None /\ t \notin seen /\ accepted[t] = 0

\* How often the processes before this one can have accepted t's token.
Before(t) == IF KeepsKey THEN life - token[t].life ELSE 0

\* A token this process can decode and has not seen was accepted by processes
\* before it only.
NoncesCount ==
    \A t \in Tasks :
        /\ token[t].life <= life
        /\ accepted[t] <= 1 + Before(t)
        /\ t \notin seen /\ (KeepsKey \/ token[t].life = life) => accepted[t] <= Before(t)

InFlight(c) == c.st \in {"sending", "waiting"} /\ ~c.streaming

\* What a token has left and what the call has spent add up to what it got.
LifetimeAccounted ==
    \A t \in Tasks :
        InFlight(call[t]) /\ call[t].drained < Allowance =>
            token[t].left + call[t].drained + call[t].waited >= Ttl - (Second - 1)

IInv == Typing /\ Fresh /\ NoncesCount /\ LifetimeAccounted

\* A step that leaves tokens alone, and no call closer to its end than it says.
Harmless ==
    /\ UNCHANGED <<tokenVars, life>>
    /\ pool' \in [Peers -> Channels \cup {None}]
    /\ call' \in [Tasks -> Calls]
    /\ \A t \in Tasks : call'[t].st = "idle" => call[t].st = "idle"
    /\ \A t \in Tasks : InFlight(call'[t]) =>
          /\ InFlight(call[t])
          /\ call'[t].drained = call[t].drained /\ call'[t].waited = call[t].waited

\* int() cuts less than a second off the timeout, and the ttl has the allowance besides.
LEMMA Lifetimes ==
    /\ Second \in Nat \ {0} /\ Timeout \in Nat \ {0}
    /\ Allowance \in Nat \ {0} /\ Ttl \in Nat
    /\ Ttl >= Second
    /\ Ttl <= Timeout + Allowance
    /\ Ttl >= Timeout - (Second - 1) + Allowance
<1> DEFINE n == Timeout \div Second
           m == Timeout % Second
           whole == Second * n
<1>1. Second \in Nat /\ Second > 0 /\ Timeout \in Nat /\ Timeout > 0 /\ Grace \in Nat /\ Grace > 0
  BY GatewayAssumption
<1>2. n \in Nat /\ m \in 0..(Second - 1) /\ Timeout = whole + m
  BY <1>1
<1> HIDE DEF m, n
<1>3. whole \in Nat
  BY <1>1, <1>2
<1>4. Allowance \in Nat /\ Allowance >= Second
  BY <1>1 DEF Allowance
<1>5. Ttl = whole + Allowance
  BY <1>1, <1>2 DEF Ttl, Allowance, n
<1> HIDE DEF whole
<1> QED
  BY <1>1, <1>2, <1>3, <1>4, <1>5

LEMMA NewCallTyped == NewCall \in Calls
BY Lifetimes, GatewayAssumption DEF NewCall, Calls, Ended

\* The fields that change while a call is on.
LEMMA RecordOfCall ==
    ASSUME NEW c \in Calls, NEW streaming \in BOOLEAN, NEW waited \in 0..Timeout,
           NEW drained \in 0..Allowance
    PROVE  /\ [c EXCEPT !.streaming = streaming] \in Calls
           /\ [c EXCEPT !.waited = waited] \in Calls
           /\ [c EXCEPT !.drained = drained] \in Calls
BY DEF Calls

\* Harmless steps keep the invariant.
LEMMA HarmlessKeepsIInv == IInv /\ Harmless => IInv'
<1> SUFFICES ASSUME IInv, Harmless PROVE IInv'
  OBVIOUS
<1>1. Typing'
  BY DEF IInv, Typing, Harmless, tokenVars
<1>2. Fresh'
  BY DEF IInv, Fresh, Harmless, tokenVars
<1>3. NoncesCount'
  BY DEF IInv, NoncesCount, Before, Harmless, tokenVars
<1>4. LifetimeAccounted'
  BY DEF IInv, LifetimeAccounted, Harmless, tokenVars
<1> QED
  BY <1>1, <1>2, <1>3, <1>4 DEF IInv

\* The initial states satisfy it.
LEMMA InitEstablishesIInv == Init => IInv
<1> SUFFICES ASSUME Init PROVE IInv
  OBVIOUS
<1>1. Typing
  BY NewCallTyped DEF Init, Typing, Tokens, NoToken
<1>2. Fresh /\ NoncesCount
  BY DEF Init, Fresh, NoncesCount, Before, NoToken
<1>3. LifetimeAccounted
  BY DEF Init, LifetimeAccounted, InFlight, NewCall
<1> QED
  BY <1>1, <1>2, <1>3 DEF IInv

----------------------------------------------------------------------------

\* The end of a call is harmless.
LEMMA EndIsHarmless ==
    ASSUME IInv, NEW t \in Tasks, NEW how \in Ended, End(t, how),
           UNCHANGED <<pool, tokenVars, life>>
    PROVE  Harmless
<1>1. [NewCall EXCEPT !.st = how] \in Calls
  BY NewCallTyped DEF Calls
<1>2. /\ call' \in [Tasks -> Calls]
      /\ call'[t].st = how
      /\ \A u \in Tasks \ {t} : call'[u] = call[u]
  BY <1>1 DEF IInv, Typing, End, NewCall
<1>3. how \notin {"idle", "sending", "waiting"}
  BY DEF Ended
<1> QED
  BY <1>2, <1>3 DEF IInv, Typing, Harmless, InFlight

\* So is what happens to a call on its channel, and to all calls of a channel.
LEMMA OnChannelIsHarmless ==
    ASSUME IInv, NEW t \in Tasks, OnChannel(t)
    PROVE  Harmless
<1> USE DEF tokenVars
<1>a. call \in [Tasks -> Calls] /\ pool \in [Peers -> Channels \cup {None}]
  BY DEF IInv, Typing
<1>b. {"senderror", "answered", "complete", "reset", "truncated", "timeout"} \subseteq Ended
  BY DEF Ended
<1>1. CASE Sent(t)
  BY <1>a, <1>1 DEF Sent, Harmless, InFlight, Calls
<1>2. CASE SendFails(t)
  BY <1>b, <1>2, EndIsHarmless DEF SendFails
<1>3. CASE Answer(t)
  BY <1>a, <1>3 DEF Answer, Harmless, InFlight, Calls
<1>4. CASE Return(t)
  <2>1. \E how \in Ended : End(t, how)
    BY <1>b, <1>4 DEF Return
  <2> QED
    BY <2>1, <1>4, EndIsHarmless DEF Return
<1>5. CASE TimerExpires(t)
  BY <1>b, <1>5, EndIsHarmless DEF TimerExpires
<1>6. ASSUME NEW final \in BOOLEAN, ChunkComes(t, final)
      PROVE  Harmless
  <2>1. CASE final
    BY <1>b, <1>6, <2>1, EndIsHarmless DEF ChunkComes
  <2>2. CASE ~final
    <3> DEFINE s == [call[t] EXCEPT !.streaming = TRUE]
               c == [s EXCEPT !.waited = 0]
    <3>1. c \in Calls /\ c.st = call[t].st /\ ~InFlight(c)
      <4>1. call[t] \in Calls /\ 0 \in 0..Timeout
        BY <1>a, GatewayAssumption
      <4>2. s \in Calls /\ s.st = call[t].st /\ s.streaming
        BY <4>1, RecordOfCall DEF Calls
      <4> HIDE DEF s
      <4> QED
        BY <4>1, <4>2, RecordOfCall DEF InFlight, Calls
    <3>2. call' = [call EXCEPT ![t] = c] /\ UNCHANGED <<pool, tokenVars, life>>
      BY <1>a, <1>6, <2>2 DEF ChunkComes, Calls
    <3> HIDE DEF c
    <3>3. /\ call' \in [Tasks -> Calls] /\ call'[t] = c
          /\ \A u \in Tasks \ {t} : call'[u] = call[u]
      BY <1>a, <3>1, <3>2
    <3> QED
      BY <1>a, <3>1, <3>2, <3>3 DEF Harmless
  <2> QED
    BY <2>1, <2>2
<1> QED
  BY <1>1, <1>2, <1>3, <1>4, <1>5, <1>6 DEF OnChannel

LEMMA AbortIsHarmless ==
    ASSUME IInv, NEW ch \in Channels, LinkBreaks(ch) \/ LinkCloses(ch)
    PROVE  Harmless
<1>a. call \in [Tasks -> Calls] /\ pool \in [Peers -> Channels \cup {None}]
  BY DEF IInv, Typing
<1>b. UNCHANGED <<pool, tokenVars, life>>
  BY DEF LinkBreaks, LinkCloses
<1>1. CASE Abort(ch)
  <2>1. \A t \in Tasks : call'[t] \in Calls
    BY <1>a, <1>1 DEF Abort, Calls
  <2>2. \A t \in Tasks :
           /\ call'[t].st = call[t].st /\ call'[t].streaming = call[t].streaming
           /\ call'[t].drained = call[t].drained /\ call'[t].waited = call[t].waited
    BY <1>a, <1>1 DEF Abort, Calls
  <2>3. call' \in [Tasks -> Calls]
    BY <2>1, <1>1 DEF Abort
  <2> QED
    BY <1>a, <1>b, <2>2, <2>3 DEF Harmless, InFlight
<1>2. CASE UNCHANGED call
  BY <1>a, <1>b, <1>2 DEF Harmless
<1> QED
  BY <1>1, <1>2 DEF LinkBreaks, LinkCloses

\* Everything that touches neither calls nor tokens is harmless.
LEMMA OthersAreHarmless ==
    ASSUME IInv,
           \/ RegistryChange
           \/ \E p \in Peers, ch \in Channels : RegisterChannel(p, ch)
           \/ \E r \in Reviews : GetPrompt(r)
           \/ UNCHANGED vars
    PROVE  Harmless
<1>a. call \in [Tasks -> Calls] /\ pool \in [Peers -> Channels \cup {None}]
  BY DEF IInv, Typing
<1>1. UNCHANGED <<call, tokenVars, life>>
  BY DEF RegistryChange, Deploy, HeartbeatArrives, HeartbeatPing, CheckPeers, RegisterLocalHandler, Changing,
         RegisterChannel, GetPrompt, StartReview, EndReview, vars
<1>2. pool' \in [Peers -> Channels \cup {None}]
  BY <1>a DEF RegistryChange, Deploy, HeartbeatArrives, HeartbeatPing, CheckPeers, RegisterLocalHandler,
              Changing, RegisterChannel, GetPrompt, StartReview, EndReview, vars
<1> QED
  BY <1>a, <1>1, <1>2 DEF Harmless

----------------------------------------------------------------------------

\* A call that starts with a new token.
LEMMA IssueKeepsIInv ==
    ASSUME IInv, NEW t \in Tasks, NEW tool \in Tools,
           call[t].st = "idle", IssueToken(t, tool), UNCHANGED <<pool, life>>,
           NEW c \in Calls, call' = [call EXCEPT ![t] = c], c.st # "idle",
           InFlight(c) => c.drained = 0 /\ c.waited = 0
    PROVE  IInv'
<1>a. Ttl \in Nat /\ Second \in Nat
  BY Lifetimes
<1>1. PICK cut \in 0..(Second - 1) :
         token' = [token EXCEPT ![t] = [tool |-> tool, left |-> Ttl - cut, life |-> life]]
  BY DEF IssueToken
<1>2. seen' = seen /\ accepted' = accepted /\ life' = life /\ pool' = pool
  BY DEF IssueToken
<1>3. /\ call'[t] = c
      /\ token'[t] = [tool |-> tool, left |-> Ttl - cut, life |-> life]
      /\ \A u \in Tasks \ {t} : call'[u] = call[u] /\ token'[u] = token[u]
  BY <1>1 DEF IInv, Typing
<1>4. Typing'
  BY <1>a, <1>1, <1>2 DEF IInv, Typing, Tokens
<1>5. Fresh'
  BY <1>2, <1>3 DEF IInv, Fresh
<1>6. accepted[t] = 0 /\ life \in Nat
  BY DEF IInv, Fresh, Typing
<1>7. NoncesCount'
  <2> SUFFICES ASSUME NEW u \in Tasks
               PROVE  /\ token'[u].life <= life'
                      /\ accepted'[u] <= 1 + Before(u)'
                      /\ u \notin seen' /\ (KeepsKey \/ token'[u].life = life')
                            => accepted'[u] <= Before(u)'
    BY DEF NoncesCount
  <2>1. CASE u = t
    BY <1>2, <1>3, <1>6, <2>1 DEF Before
  <2>2. CASE u # t
    BY <1>2, <1>3, <2>2 DEF IInv, NoncesCount, Before
  <2> QED
    BY <2>1, <2>2
<1>8. LifetimeAccounted'
  <2> SUFFICES ASSUME NEW u \in Tasks, InFlight(call'[u]), call'[u].drained < Allowance
               PROVE  token'[u].left + call'[u].drained + call'[u].waited >= Ttl - (Second - 1)
    BY DEF LifetimeAccounted
  <2>1. CASE u = t
    BY <1>a, <1>3, <2>1
  <2>2. CASE u # t
    BY <1>3, <2>2 DEF IInv, LifetimeAccounted
  <2> QED
    BY <2>1, <2>2
<1> QED
  BY <1>4, <1>5, <1>7, <1>8 DEF IInv

\* What a call does on a channel, as a record.
LEMMA RequestMakesACall ==
    ASSUME NEW t, NEW kind \in {"call", "stream"}, NEW ch \in Channels, Request(t, kind, ch)
    PROVE  \E c \in Calls : /\ call' = [call EXCEPT ![t] = c]
                            /\ c.st # "idle" /\ c.drained = 0 /\ c.waited = 0
<1>1. CASE \E how \in {"refused", "unsent"} : End(t, how)
  <2>1. \A how \in {"refused", "unsent"} : [NewCall EXCEPT !.st = how] \in Calls
    BY NewCallTyped DEF Calls, Ended, NewCall
  <2> QED
    BY <1>1, <2>1 DEF End, NewCall
<1>2. CASE call' = [call EXCEPT ![t] = [NewCall EXCEPT !.st = "sending", !.kind = kind, !.on = ch]]
  <2> DEFINE c == [NewCall EXCEPT !.st = "sending", !.kind = kind, !.on = ch]
  <2>1. c \in Calls /\ c.st = "sending" /\ c.drained = 0 /\ c.waited = 0
    BY NewCallTyped DEF Calls, NewCall
  <2> QED
    BY <1>2, <2>1
<1> QED
  BY <1>1, <1>2 DEF Request

\* All branches of delegate_task and delegate_task_stream.
LEMMA DispatchKeepsIInv ==
    ASSUME IInv, NEW t \in Tasks, Dispatch(t)
    PROVE  IInv'
<1>a. call \in [Tasks -> Calls] /\ pool \in [Peers -> Channels \cup {None}]
  BY DEF IInv, Typing
<1>b. {"unreachable", "simulated", "handled", "raised"} \subseteq Ended
  BY DEF Ended
<1>c. ASSUME NEW how \in Ended
      PROVE  /\ [NewCall EXCEPT !.st = how] \in Calls
             /\ [NewCall EXCEPT !.st = how].st = how
             /\ ~InFlight([NewCall EXCEPT !.st = how])
             /\ how # "idle"
  BY NewCallTyped DEF Calls, Ended, NewCall, InFlight
<1>1. ASSUME NEW target \in Peers \cup {AutoTarget}, NEW tool \in Tools, Unreachable(t, target, tool)
      PROVE  IInv'
  BY <1>b, <1>1, EndIsHarmless, HarmlessKeepsIInv DEF Unreachable
<1>2. ASSUME NEW p \in Peers, SimulateStream(t, p)
      PROVE  IInv'
  BY <1>b, <1>2, EndIsHarmless, HarmlessKeepsIInv DEF SimulateStream
<1>3. CASE HandlerEnds(t)
  BY <1>b, <1>3, EndIsHarmless, HarmlessKeepsIInv DEF HandlerEnds
<1>4. ASSUME NEW kind \in {"call", "stream"}, NEW tool \in Tools, NEW p \in Peers, pool[p] # None,
             call[t].st = "idle", Request(t, kind, pool[p]), IssueToken(t, tool),
             UNCHANGED <<pool, life>>
      PROVE  IInv'
  <2>1. pool[p] \in Channels
    BY <1>a, <1>4
  <2>2. PICK c \in Calls : /\ call' = [call EXCEPT ![t] = c]
                           /\ c.st # "idle" /\ c.drained = 0 /\ c.waited = 0
    BY <1>4, <2>1, RequestMakesACall
  <2> QED
    BY <1>4, <2>2, IssueKeepsIInv
<1>5. ASSUME NEW how \in Ended, NEW tool \in Tools, call[t].st = "idle", End(t, how),
             IssueToken(t, tool), UNCHANGED <<pool, life>>
      PROVE  IInv'
  BY <1>c, <1>5, IssueKeepsIInv DEF End
<1>6. ASSUME NEW target \in Peers \cup {AutoTarget}, NEW tool \in Tools,
             DelegateOverChannel(t, target, tool)
      PROVE  IInv'
  <2>1. Resolve(target, tool) \subseteq Peers
    BY <1>6 DEF Resolve
  <2> QED
    BY <1>4, <1>6, <2>1 DEF DelegateOverChannel
<1>7. ASSUME NEW target \in Peers \cup {AutoTarget}, NEW tool \in Tools,
             DelegateToHandler(t, target, tool)
      PROVE  IInv'
  <2>1. CASE \E how \in {"handled", "raised"} : End(t, how)
    BY <1>b, <1>5, <1>7, <2>1 DEF DelegateToHandler
  <2>2. CASE call' = [call EXCEPT ![t].st = "local"]
    <3> DEFINE c == [call[t] EXCEPT !.st = "local"]
    <3>1. c \in Calls /\ c.st = "local" /\ ~InFlight(c)
      BY <1>a DEF Calls, InFlight
    <3>2. call' = [call EXCEPT ![t] = c]
      BY <2>2
    <3> QED
      BY <1>7, <3>1, <3>2, IssueKeepsIInv DEF DelegateToHandler
  <2> QED
    BY <1>7, <2>1, <2>2 DEF DelegateToHandler
<1>8. ASSUME NEW target \in Peers \cup {AutoTarget}, NEW tool \in Tools, SimulateTask(t, target, tool)
      PROVE  IInv'
  BY <1>b, <1>5, <1>8 DEF SimulateTask
<1>9. ASSUME NEW p \in Peers, NEW tool \in Tools, StreamOverChannel(t, p, tool)
      PROVE  IInv'
  BY <1>4, <1>9 DEF StreamOverChannel
<1> QED
  <2>1. CASE \E tool \in Tools, target \in Peers \cup {AutoTarget} :
                \/ Unreachable(t, target, tool) \/ DelegateOverChannel(t, target, tool)
                \/ DelegateToHandler(t, target, tool) \/ SimulateTask(t, target, tool)
    BY <2>1, <1>1, <1>6, <1>7, <1>8
  <2>2. CASE \E tool \in Tools, p \in Peers : StreamOverChannel(t, p, tool)
    BY <2>2, <1>9
  <2>3. CASE \E p \in Peers : SimulateStream(t, p)
    BY <2>3, <1>2
  <2> QED
    BY <2>1, <2>2, <2>3, <1>3 DEF Dispatch

----------------------------------------------------------------------------

\* A nonce is spent before the process can accept its token again.
LEMMA VerifyTokenKeepsIInv ==
    ASSUME IInv, NEW t \in Tasks, NEW tool \in Tools, VerifyToken(t, tool)
    PROVE  IInv'
<1>1. /\ UNCHANGED <<pool, call, token, life>>
      /\ seen' = seen \cup {t}
      /\ accepted' \in [Tasks -> Nat]
      /\ accepted'[t] <= accepted[t] + 1
      /\ \A u \in Tasks \ {t} : accepted'[u] = accepted[u]
  BY DEF VerifyToken, IInv, Typing
<1>2. /\ t \notin seen /\ (KeepsKey \/ token[t].life = life)
      /\ token[t].tool # None
      /\ accepted[t] \in Nat
  BY DEF VerifyToken, Decodes, IInv, Typing
<1>3. \A u \in Tasks : token[u].life \in Nat /\ life \in Nat /\ Before(u) \in Int
  BY DEF IInv, Typing, Tokens, Before
<1>4. Typing' /\ Fresh' /\ LifetimeAccounted'
  BY <1>1, <1>2 DEF IInv, Typing, Fresh, LifetimeAccounted
<1>5. NoncesCount'
  <2> SUFFICES ASSUME NEW u \in Tasks
               PROVE  /\ token'[u].life <= life'
                      /\ accepted'[u] <= 1 + Before(u)'
                      /\ u \notin seen' /\ (KeepsKey \/ token'[u].life = life')
                            => accepted'[u] <= Before(u)'
    BY DEF NoncesCount
  <2>1. Before(u)' = Before(u)
    BY <1>1 DEF Before
  <2>2. CASE u = t
    <3>1. accepted[t] <= Before(t) /\ token[t].life <= life
      BY <1>2 DEF IInv, NoncesCount
    <3>2. accepted'[t] <= 1 + Before(t)
      BY <1>1, <1>2, <1>3, <3>1
    <3> QED
      BY <1>1, <2>1, <2>2, <3>1, <3>2
  <2>3. CASE u # t
    BY <1>1, <2>1, <2>3 DEF IInv, NoncesCount
  <2> QED
    BY <2>2, <2>3
<1> QED
  BY <1>4, <1>5 DEF IInv

\* Time takes from a token what it adds to its call.
LEMMA TickKeepsIInv == ASSUME IInv, Tick PROVE IInv'
<1>a. call \in [Tasks -> Calls] /\ token \in [Tasks -> Tokens] /\ Allowance \in Nat /\ Timeout \in Nat
  BY Lifetimes DEF IInv, Typing
<1>b. UNCHANGED <<pool, seen, accepted, life>>
  BY DEF Tick
<1>1. \A t \in Tasks :
         call'[t] = [call[t] EXCEPT
            !.waited = IF call[t].st = "waiting" THEN call[t].waited + 1 ELSE call[t].waited,
            !.drained = IF call[t].st = "sending" /\ call[t].drained < Allowance
                        THEN call[t].drained + 1 ELSE call[t].drained]
  BY <1>a DEF Tick, Calls
<1>2. \A t \in Tasks :
         token'[t] = [token[t] EXCEPT !.left = IF token[t].left > 0 THEN token[t].left - 1 ELSE 0]
  BY <1>a DEF Tick, Tokens
<1>3. \A t \in Tasks : call[t].st = "waiting" => call[t].waited < Timeout
  BY DEF Tick
<1>4. \A t \in Tasks :
         /\ call'[t] \in Calls
         /\ call'[t].st = call[t].st /\ call'[t].streaming = call[t].streaming
         /\ call'[t].waited = IF call[t].st = "waiting" THEN call[t].waited + 1 ELSE call[t].waited
         /\ call'[t].drained = IF call[t].st = "sending" /\ call[t].drained < Allowance
                               THEN call[t].drained + 1 ELSE call[t].drained
  <2> SUFFICES ASSUME NEW t \in Tasks
               PROVE  /\ call'[t] \in Calls
                      /\ call'[t].st = call[t].st /\ call'[t].streaming = call[t].streaming
                      /\ call'[t].waited = IF call[t].st = "waiting" THEN call[t].waited + 1
                                           ELSE call[t].waited
                      /\ call'[t].drained = IF call[t].st = "sending" /\ call[t].drained < Allowance
                                            THEN call[t].drained + 1 ELSE call[t].drained
    OBVIOUS
  <2> DEFINE w == IF call[t].st = "waiting" THEN call[t].waited + 1 ELSE call[t].waited
             d == IF call[t].st = "sending" /\ call[t].drained < Allowance
                  THEN call[t].drained + 1 ELSE call[t].drained
             c == [call[t] EXCEPT !.waited = w]
  <2>1. call[t] \in Calls /\ call[t].waited \in 0..Timeout /\ call[t].drained \in 0..Allowance
    BY <1>a DEF Calls
  <2>2. w \in 0..Timeout /\ d \in 0..Allowance
    BY <1>a, <1>3, <2>1
  <2>3. call'[t] = [[call[t] EXCEPT !.waited = w] EXCEPT !.drained = d]
    BY <1>1
  <2> HIDE DEF w, d
  <2>4. c \in Calls /\ c.st = call[t].st /\ c.streaming = call[t].streaming /\ c.waited = w
    BY <2>1, <2>2, RecordOfCall DEF Calls
  <2>5. call'[t] = [c EXCEPT !.drained = d]
    BY <2>3
  <2> HIDE DEF c
  <2>6. /\ call'[t] \in Calls
        /\ call'[t].st = c.st /\ call'[t].streaming = c.streaming
        /\ call'[t].waited = c.waited /\ call'[t].drained = d
    BY <2>2, <2>4, <2>5, RecordOfCall DEF Calls
  <2> QED
    BY <2>4, <2>6 DEF w, d
<1>5. \A t \in Tasks :
         /\ token'[t] \in Tokens
         /\ token'[t].tool = token[t].tool /\ token'[t].life = token[t].life
         /\ token'[t].left >= token[t].left - 1
  <2> SUFFICES ASSUME NEW t \in Tasks
               PROVE  /\ token'[t] \in Tokens
                      /\ token'[t].tool = token[t].tool /\ token'[t].life = token[t].life
                      /\ token'[t].left >= token[t].left - 1
    OBVIOUS
  <2> DEFINE left == IF token[t].left > 0 THEN token[t].left - 1 ELSE 0
  <2>1. token[t] \in Tokens /\ token[t].left \in Int
    BY <1>a DEF Tokens
  <2>2. left \in Int /\ left >= token[t].left - 1
    BY <2>1
  <2>3. token'[t] = [token[t] EXCEPT !.left = left]
    BY <1>2
  <2> HIDE DEF left
  <2> QED
    BY <2>1, <2>2, <2>3 DEF Tokens
<1>6. Typing'
  <2>1. call' \in [Tasks -> Calls]
    BY <1>4 DEF Tick
  <2>2. token' \in [Tasks -> Tokens]
    BY <1>5 DEF Tick
  <2> QED
    BY <1>b, <2>1, <2>2 DEF IInv, Typing
<1>7. Fresh' /\ NoncesCount'
  BY <1>b, <1>4, <1>5 DEF IInv, Fresh, NoncesCount, Before
<1>8. LifetimeAccounted'
  <2> SUFFICES ASSUME NEW t \in Tasks, InFlight(call'[t]), call'[t].drained < Allowance
               PROVE  token'[t].left + call'[t].drained + call'[t].waited
                        >= Ttl - (Second - 1)
    BY DEF LifetimeAccounted
  <2>1. InFlight(call[t])
    BY <1>4 DEF InFlight
  <2>2. /\ call[t].waited \in Nat /\ call[t].drained \in Nat /\ token[t].left \in Int
        /\ token'[t].left \in Int
    BY <1>a, <1>5 DEF Calls, Tokens
  <2>3. /\ call[t].drained < Allowance
        /\ call'[t].drained + call'[t].waited = call[t].drained + call[t].waited + 1
    BY <1>a, <1>4, <2>1, <2>2 DEF InFlight
  <2>4. token[t].left + call[t].drained + call[t].waited >= Ttl - (Second - 1)
    BY <2>1, <2>3 DEF IInv, LifetimeAccounted
  <2>5. call'[t].drained \in Nat /\ call'[t].waited \in Nat
    BY <1>4 DEF Calls
  <2>6. Ttl - (Second - 1) \in Int
    BY Lifetimes
  <2> QED
    BY <1>5, <2>2, <2>3, <2>4, <2>5, <2>6
<1> QED
  BY <1>6, <1>7, <1>8 DEF IInv

\* A process that restarts has seen no nonce, and is one process later.
LEMMA RestartKeepsIInv == ASSUME IInv, Restart PROVE IInv'
<1>a. call \in [Tasks -> Calls] /\ token \in [Tasks -> Tokens] /\ life \in Nat
  BY DEF IInv, Typing
<1>1. /\ life' = life + 1 /\ seen' = {} /\ UNCHANGED <<token, accepted>>
      /\ pool' \in [Peers -> Channels \cup {None}]
  BY DEF Restart
<1>2. [NewCall EXCEPT !.st = "lost"] \in Calls /\ [NewCall EXCEPT !.st = "lost"].st = "lost"
  BY NewCallTyped DEF Calls, Ended, NewCall
<1>3. \A t \in Tasks :
         call'[t] = IF Running(t) THEN [NewCall EXCEPT !.st = "lost"] ELSE call[t]
  BY DEF Restart
<1>4. call' \in [Tasks -> Calls]
  BY <1>a, <1>2 DEF Restart
<1>5. \A t \in Tasks : ~InFlight(call'[t]) /\ (call'[t].st = "idle" => call[t].st = "idle")
  BY <1>2, <1>3 DEF InFlight, Running
<1>6. Typing' /\ Fresh' /\ LifetimeAccounted'
  BY <1>1, <1>4, <1>5 DEF IInv, Typing, Fresh, LifetimeAccounted
<1>7. NoncesCount'
  <2> SUFFICES ASSUME NEW t \in Tasks
               PROVE  /\ token'[t].life <= life'
                      /\ accepted'[t] <= 1 + Before(t)'
                      /\ t \notin seen' /\ (KeepsKey \/ token'[t].life = life')
                            => accepted'[t] <= Before(t)'
    BY DEF NoncesCount
  <2>1. token[t].life \in Nat /\ token[t].life <= life /\ accepted[t] <= 1 + Before(t)
    BY <1>a DEF IInv, NoncesCount, Tokens
  <2>2. accepted[t] \in Nat
    BY DEF IInv, Typing
  <2>3. token'[t].life = token[t].life /\ accepted'[t] = accepted[t] /\ token'[t].life # life'
    BY <1>a, <1>1, <2>1
  <2>4. Before(t)' = IF KeepsKey THEN Before(t) + 1 ELSE 0
    BY <1>a, <1>1, <2>1 DEF Before
  <2> QED
    BY <1>a, <1>1, <2>1, <2>2, <2>3, <2>4 DEF Before
<1> QED
  BY <1>6, <1>7 DEF IInv

----------------------------------------------------------------------------

LEMMA StepKeepsIInv == IInv /\ [Next]_vars => IInv'
<1> SUFFICES ASSUME IInv, [Next]_vars PROVE IInv'
  OBVIOUS
<1>1. CASE \/ RegistryChange
           \/ \E p \in Peers, ch \in Channels : RegisterChannel(p, ch)
           \/ \E r \in Reviews : GetPrompt(r)
           \/ UNCHANGED vars
  BY <1>1, OthersAreHarmless, HarmlessKeepsIInv
<1>2. CASE \E ch \in Channels : LinkBreaks(ch) \/ LinkCloses(ch)
  BY <1>2, AbortIsHarmless, HarmlessKeepsIInv
<1>3. CASE \E t \in Tasks : Dispatch(t)
  BY <1>3, DispatchKeepsIInv
<1>4. CASE \E t \in Tasks : OnChannel(t)
  BY <1>4, OnChannelIsHarmless, HarmlessKeepsIInv
<1>5. CASE \E t \in Tasks, tool \in Tools : VerifyToken(t, tool)
  BY <1>5, VerifyTokenKeepsIInv
<1>6. CASE Tick
  BY <1>6, TickKeepsIInv
<1>7. CASE Restart
  BY <1>7, RestartKeepsIInv
<1> QED
  BY <1>1, <1>2, <1>3, <1>4, <1>5, <1>6, <1>7 DEF Next

\* In every run of the gateway the tokens, the nonces and the calls agree.
THEOREM Invariance == Spec => []IInv
<1>1. Init => IInv
  BY InitEstablishesIInv
<1>2. IInv /\ [Next]_vars => IInv'
  BY StepKeepsIInv
<1> QED
  BY <1>1, <1>2, PTL DEF Spec

\* verify_token of one process accepts a token at most once, in whatever order and
\* for whatever tools it is presented; over restarts that keep the key, at most
\* once per process since the one that issued it.
THEOREM TokensAcceptedOnce == Spec => []AcceptedOnce
<1>1. IInv => AcceptedOnce
  BY DEF IInv, NoncesCount, AcceptedOnce, Before
<1> QED
  BY <1>1, Invariance, PTL

\* The ten seconds delegate_task adds to a token's ttl cover what int() cuts off,
\* nearly a second twice, and up to eight seconds in drain(): while the caller
\* waits for the first answer, the token it sent is good.
THEOREM TokensOutliveWaits == Spec => []TokenOutlivesWait
<1>1. IInv => TokenOutlivesWait
  <2> SUFFICES ASSUME IInv, NEW t \in Tasks, call[t].st = "waiting", ~call[t].streaming,
                      call[t].drained <= Allowance - 2 * Second
               PROVE  token[t].left > 0
    BY DEF TokenOutlivesWait
  <2>1. /\ call[t].waited \in 0..Timeout /\ call[t].drained \in Nat
        /\ token[t].left \in Int
    BY Lifetimes DEF IInv, Typing, Calls, Tokens
  <2>2. token[t].left + call[t].drained + call[t].waited >= Ttl - (Second - 1)
    BY <2>1, Lifetimes DEF IInv, LifetimeAccounted, InFlight
  <2> QED
    BY <2>1, <2>2, Lifetimes
<1> QED
  BY <1>1, Invariance, PTL

=============================================================================
