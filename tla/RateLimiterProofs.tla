------------------------- MODULE RateLimiterProofs -------------------------
(***************************************************************************)
(* What RateLimiter guarantees for every number of callers, slots, queue   *)
(* places and cancellations.  Fairness plays no part: the theorems are of  *)
(* Init /\ [][Next]_vars, which Spec implies.                              *)
(*                                                                         *)
(* The cap on executing callers is not inductive: that a slot handed over  *)
(* goes to a caller that has none needs the queue to hold each suspended   *)
(* caller exactly once, and that FreeSlot may decrement needs _active to   *)
(* count every slot in use.  IInv collects these facts.                    *)
(***************************************************************************)
EXTENDS RateLimiter, FiniteSetTheorems, SequenceTheorems, TLAPS

\* The type invariant without the bound on active, which ActiveBounded adds.
Typed ==
    /\ active \in Nat
    /\ waiting \in Seq(Callers \cup {Cancelled})
    /\ pc \in [Callers -> CallerStates]
    /\ cancels \in 0..MaxCancels
    /\ strays \in 0..MaxStrays

\* _active is within the limit, and reaches it whenever somebody waits.
ActiveBounded ==
    /\ active <= MaxConcurrency
    /\ waiting # <<>> => active = MaxConcurrency
    /\ Len(waiting) <= MaxQueueDepth

\* Each suspended caller has one future in the queue, and each pending future
\* belongs to a suspended caller.
OneFutureEach ==
    /\ \A i \in DOMAIN waiting : waiting[i] # Cancelled => pc[waiting[i]] = "queued"
    /\ \A i, j \in DOMAIN waiting : waiting[i] = waiting[j] /\ waiting[i] # Cancelled => i = j
    /\ \A c \in Callers : pc[c] = "queued" => \E i \in DOMAIN waiting : waiting[i] = c

IInv == Typed /\ ActiveBounded /\ OneFutureEach /\ SlotLossBounded

----------------------------------------------------------------------------
(* Lemmas on sequences and on the two sets that are counted.               *)

\* The positions at which a sequence holds x, and how Tail changes their number.
Positions(w, x) == {i \in DOMAIN w : w[i] = x}

LEMMA PositionsFinite ==
    ASSUME NEW S, NEW w \in Seq(S), NEW x
    PROVE  IsFiniteSet(Positions(w, x)) /\ Cardinality(Positions(w, x)) \in Nat
<1>1. IsFiniteSet(1..Len(w))
  BY FS_Interval
<1>2. Positions(w, x) \in SUBSET (1..Len(w))
  BY DEF Positions
<1>3. IsFiniteSet(Positions(w, x))
  BY <1>1, <1>2, FS_Subset
<1> QED
  BY <1>3, FS_CardinalityType

LEMMA PositionsOfTail ==
    ASSUME NEW S, NEW w \in Seq(S), NEW x, w # <<>>
    PROVE  Cardinality(Positions(Tail(w), x)) =
             Cardinality(Positions(w, x)) - (IF Head(w) = x THEN 1 ELSE 0)
<1> DEFINE P == Positions(w, x)
           Q == Positions(Tail(w), x)
           shift == [i \in Q |-> i + 1]
<1>1. /\ Tail(w) \in Seq(S)
      /\ Len(Tail(w)) = Len(w) - 1
      /\ DOMAIN Tail(w) = 1..(Len(w) - 1)
      /\ \A i \in 1..(Len(w) - 1) : Tail(w)[i] = w[i+1]
  BY HeadTailProperties
<1>2. IsFiniteSet(P) /\ IsFiniteSet(Q) /\ Cardinality(P) \in Nat
  BY <1>1, PositionsFinite
<1>3. Q = {i \in 1..(Len(w) - 1) : w[i+1] = x}
  BY <1>1 DEF Positions
<1>4. P \ {1} = {i \in 2..Len(w) : w[i] = x}
  BY DEF Positions
<1>5. shift \in [Q -> P \ {1}]
  BY <1>3, <1>4
<1>6. \A a, b \in Q : shift[a] = shift[b] => a = b
  BY <1>3
<1>7. \A t \in P \ {1} : \E s \in Q : shift[s] = t
  <2> SUFFICES ASSUME NEW t \in P \ {1} PROVE \E s \in Q : shift[s] = t
    OBVIOUS
  <2>1. t \in 2..Len(w) /\ w[t] = x
    BY <1>4
  <2>2. t - 1 \in Q
    BY <2>1, <1>3
  <2>3. shift[t - 1] = t
    BY <2>1, <2>2
  <2> QED
    BY <2>2, <2>3
<1>8. shift \in Bijection(Q, P \ {1})
  BY <1>5, <1>6, <1>7 DEF Bijection, Injection, Surjection, IsInjective
<1>9. Cardinality(P \ {1}) = Cardinality(Q)
  BY <1>2, <1>8, FS_Bijection DEF ExistsBijection
<1>10. 1 \in P <=> Head(w) = x
  BY DEF Positions
<1> HIDE DEF P, Q
<1>11. Cardinality(P \ {1}) = IF 1 \in P THEN Cardinality(P) - 1 ELSE Cardinality(P)
  BY <1>2, FS_RemoveElement
<1> QED
  BY <1>2, <1>9, <1>10, <1>11 DEF P, Q

LEMMA CountsAreNaturals ==
    ASSUME Typed
    PROVE  /\ IsFiniteSet(SlotUsers) /\ Cardinality(SlotUsers) \in Nat
           /\ DeadEntries = Positions(waiting, Cancelled)
           /\ IsFiniteSet(DeadEntries) /\ Cardinality(DeadEntries) \in Nat
<1>1. IsFiniteSet(SlotUsers) /\ Cardinality(SlotUsers) \in Nat
  <2>1. SlotUsers \in SUBSET Callers
    BY DEF SlotUsers
  <2> QED
    BY <2>1, FS_Subset, FS_CardinalityType, LimiterAssumption
<1>2. DeadEntries = Positions(waiting, Cancelled)
  BY DEF DeadEntries, Positions
<1> QED
  BY <1>1, <1>2, PositionsFinite DEF Typed

----------------------------------------------------------------------------
(* The invariant.                                                          *)

LEMMA InitEstablishesIInv == Init => IInv
<1> SUFFICES ASSUME Init PROVE IInv
  OBVIOUS
<1> USE DEF Init
<1>1. Typed
  BY LimiterAssumption DEF Typed, CallerStates
<1>2. ActiveBounded
  BY LimiterAssumption DEF ActiveBounded
<1>3. OneFutureEach
  BY DEF OneFutureEach
<1>4. SlotLossBounded
  <2>1. SlotUsers = {} /\ DeadEntries = {}
    BY DEF SlotUsers, DeadEntries
  <2> QED
    BY <2>1, FS_EmptySet DEF SlotLossBounded
<1> QED
  BY <1>1, <1>2, <1>3, <1>4 DEF IInv

LEMMA AcquiringKeepsIInv ==
    ASSUME IInv, NEW c \in Callers, Acquiring(c)
    PROVE  IInv'
<1> USE LimiterAssumption
<1>0. /\ Typed /\ ActiveBounded /\ OneFutureEach /\ SlotLossBounded
      /\ IsFiniteSet(SlotUsers) /\ Cardinality(SlotUsers) \in Nat
      /\ IsFiniteSet(DeadEntries) /\ Cardinality(DeadEntries) \in Nat
  BY CountsAreNaturals DEF IInv
<1>1. CASE AcquireSlot(c)
  <2> USE <1>0, <1>1 DEF AcquireSlot
  <2>1. Typed'
    BY DEF Typed, CallerStates
  <2>2. ActiveBounded'
    BY DEF ActiveBounded, Typed
  <2>3. OneFutureEach'
    BY DEF OneFutureEach, Typed, CallerStates
  <2>4. SlotLossBounded'
    <3>1. SlotUsers' = SlotUsers \cup {c} /\ c \notin SlotUsers /\ DeadEntries' = DeadEntries
      BY DEF SlotUsers, DeadEntries, Typed
    <3>2. Cardinality(SlotUsers') = Cardinality(SlotUsers) + 1
      BY <3>1, FS_AddElement
    <3> QED
      BY <3>1, <3>2 DEF SlotLossBounded, Typed
  <2> QED
    BY <2>1, <2>2, <2>3, <2>4 DEF IInv
<1>2. CASE Shed(c)
  <2> USE <1>0, <1>2 DEF Shed
  <2>1. Typed' /\ ActiveBounded' /\ OneFutureEach'
    BY DEF Typed, ActiveBounded, OneFutureEach, CallerStates
  <2>2. SlotUsers' = SlotUsers /\ DeadEntries' = DeadEntries
    BY DEF SlotUsers, DeadEntries, Typed
  <2> QED
    BY <2>1, <2>2 DEF IInv, SlotLossBounded
<1>3. CASE Enqueue(c)
  <2> USE <1>0, <1>3 DEF Enqueue
  <2>1. /\ waiting' \in Seq(Callers \cup {Cancelled})
        /\ Len(waiting') = Len(waiting) + 1
        /\ DOMAIN waiting' = 1..(Len(waiting) + 1)
        /\ \A i \in DOMAIN waiting : waiting'[i] = waiting[i]
        /\ waiting'[Len(waiting) + 1] = c
    BY AppendProperties DEF Typed
  <2>2. \A i \in DOMAIN waiting : waiting[i] # c
    BY DEF OneFutureEach, Typed
  <2>3. Typed'
    BY <2>1 DEF Typed, CallerStates
  <2>4. ActiveBounded'
    BY <2>1 DEF ActiveBounded, Typed
  <2>5. OneFutureEach'
    <3>1. DOMAIN waiting = 1..Len(waiting) /\ Len(waiting) \in Nat
      BY DEF Typed
    <3>2. \A i \in DOMAIN waiting' : waiting'[i] # Cancelled => pc'[waiting'[i]] = "queued"
      BY <2>1, <2>2, <3>1 DEF OneFutureEach, Typed
    <3>3. \A i, j \in DOMAIN waiting' :
             waiting'[i] = waiting'[j] /\ waiting'[i] # Cancelled => i = j
      BY <2>1, <2>2, <3>1 DEF OneFutureEach
    <3>4. \A d \in Callers : pc'[d] = "queued" => \E i \in DOMAIN waiting' : waiting'[i] = d
      BY <2>1, <3>1 DEF OneFutureEach, Typed
    <3> QED
      BY <3>2, <3>3, <3>4 DEF OneFutureEach
  <2>6. SlotLossBounded'
    <3>1. SlotUsers' = SlotUsers
      BY DEF SlotUsers, Typed
    <3>2. DeadEntries' = DeadEntries
      BY <2>1 DEF DeadEntries, Typed
    <3> QED
      BY <3>1, <3>2 DEF SlotLossBounded
  <2> QED
    BY <2>3, <2>4, <2>5, <2>6 DEF IInv
<1>4. CASE Resume(c)
  <2> USE <1>0, <1>4 DEF Resume
  <2>1. Typed' /\ ActiveBounded' /\ OneFutureEach'
    BY DEF Typed, ActiveBounded, OneFutureEach, CallerStates
  <2>2. SlotUsers' = SlotUsers /\ DeadEntries' = DeadEntries
    BY DEF SlotUsers, DeadEntries, Typed
  <2> QED
    BY <2>1, <2>2 DEF IInv, SlotLossBounded
<1>5. CASE CancelQueued(c)
  <2> USE <1>0, <1>5 DEF CancelQueued
  <2>1. /\ waiting' \in Seq(Callers \cup {Cancelled})
        /\ Len(waiting') = Len(waiting) /\ DOMAIN waiting' = DOMAIN waiting
        /\ waiting' # <<>> => waiting # <<>>
    BY DEF Typed
  <2>2. Typed'
    BY <2>1 DEF Typed, CallerStates
  <2>3. ActiveBounded'
    BY <2>1 DEF ActiveBounded
  <2>4. OneFutureEach'
    <3>1. \A i \in DOMAIN waiting' : waiting'[i] # Cancelled => pc'[waiting'[i]] = "queued"
      BY <2>1 DEF OneFutureEach, Typed
    <3>2. \A i, j \in DOMAIN waiting' :
             waiting'[i] = waiting'[j] /\ waiting'[i] # Cancelled => i = j
      BY <2>1 DEF OneFutureEach
    <3>3. \A d \in Callers : pc'[d] = "queued" => \E i \in DOMAIN waiting' : waiting'[i] = d
      BY <2>1 DEF OneFutureEach, Typed
    <3> QED
      BY <3>1, <3>2, <3>3 DEF OneFutureEach
  <2>5. SlotLossBounded'
    <3>1. PICK k \in DOMAIN waiting : waiting[k] = c
      BY DEF OneFutureEach
    <3>2. DeadEntries' = DeadEntries \cup {k} /\ k \notin DeadEntries
      BY <2>1, <3>1 DEF DeadEntries, OneFutureEach
    <3>3. Cardinality(DeadEntries') = Cardinality(DeadEntries) + 1
      BY <3>2, FS_AddElement
    <3>4. SlotUsers' = SlotUsers
      BY DEF SlotUsers, Typed
    <3> QED
      BY <3>3, <3>4 DEF SlotLossBounded, Typed
  <2> QED
    BY <2>2, <2>3, <2>4, <2>5 DEF IInv
<1>6. CASE CancelGranted(c)
  <2> USE <1>0, <1>6 DEF CancelGranted
  <2>1. Typed' /\ ActiveBounded' /\ OneFutureEach'
    BY DEF Typed, ActiveBounded, OneFutureEach, CallerStates
  <2>2. SlotUsers' = SlotUsers \ {c} /\ c \in SlotUsers /\ DeadEntries' = DeadEntries
    BY DEF SlotUsers, DeadEntries, Typed
  <2>3. Cardinality(SlotUsers') = Cardinality(SlotUsers) - 1
    BY <2>2, FS_RemoveElement
  <2>4. active' = active /\ strays' = strays /\ cancels' = cancels + 1
    OBVIOUS
  <2>5. active \in Int /\ strays \in Int /\ cancels \in Int
    BY DEF Typed
  <2>6. SlotLossBounded'
    BY <2>2, <2>3, <2>4, <2>5 DEF SlotLossBounded
  <2> QED
    BY <2>1, <2>6 DEF IInv
<1> QED
  BY <1>1, <1>2, <1>3, <1>4, <1>5, <1>6 DEF Acquiring

\* A release by a caller that has a slot and one by a caller that has none
\* differ in what they add to strays and take from SlotUsers.
LEMMA ReleaseKeepsIInv ==
    ASSUME IInv, NEW c \in Callers, Release(c) \/ StrayRelease(c)
    PROVE  IInv'
<1> USE LimiterAssumption
<1>0. /\ Typed /\ ActiveBounded /\ OneFutureEach /\ SlotLossBounded
      /\ IsFiniteSet(SlotUsers) /\ Cardinality(SlotUsers) \in Nat
      /\ IsFiniteSet(DeadEntries) /\ Cardinality(DeadEntries) \in Nat
      /\ DeadEntries = Positions(waiting, Cancelled)
      /\ DeadEntries' = Positions(waiting', Cancelled)
  BY CountsAreNaturals DEF IInv, DeadEntries, Positions
<1>1. /\ pc[c] \in {"holding", "failed"} /\ cancels' = cancels /\ ReleaseSlot(c)
      /\ strays' \in 0..MaxStrays /\ strays \in Nat /\ strays' \in Nat
      /\ \/ c \in SlotUsers /\ strays' = strays
         \/ c \notin SlotUsers /\ strays' = strays + 1
  BY <1>0 DEF Release, StrayRelease, SlotUsers, Typed
<1>2. /\ IsFiniteSet(SlotUsers \ {c}) /\ Cardinality(SlotUsers \ {c}) \in Nat
      /\ Cardinality(SlotUsers \ {c}) = Cardinality(SlotUsers) - 1 + (strays' - strays)
  <2>1. /\ IsFiniteSet(SlotUsers \ {c})
        /\ Cardinality(SlotUsers \ {c})
             = IF c \in SlotUsers THEN Cardinality(SlotUsers) - 1 ELSE Cardinality(SlotUsers)
    BY <1>0, FS_RemoveElement
  <2>2. Cardinality(SlotUsers \ {c}) \in Nat
    BY <2>1, FS_CardinalityType
  <2> QED
    BY <2>1, <2>2, <1>0, <1>1
<1>7. active \in Int /\ cancels \in Int /\ strays \in Int
  BY <1>0 DEF Typed
<1>3. ASSUME waiting # <<>>
      PROVE  /\ Tail(waiting) \in Seq(Callers \cup {Cancelled})
             /\ Head(waiting) = waiting[1] /\ 1 \in DOMAIN waiting
             /\ Head(waiting) \in Callers \cup {Cancelled}
             /\ Len(waiting) \in Nat /\ DOMAIN waiting = 1..Len(waiting)
             /\ Len(Tail(waiting)) = Len(waiting) - 1
             /\ DOMAIN Tail(waiting) = 1..(Len(waiting) - 1)
             /\ \A i \in DOMAIN Tail(waiting) : Tail(waiting)[i] = waiting[i+1]
  BY <1>0, <1>3, HeadTailProperties DEF Typed
<1>4. CASE HandOver(c)
  <2> USE <1>0, <1>1, <1>4 DEF HandOver
  <2> DEFINE h == Head(waiting)
  <2>1. h \in Callers /\ pc[h] = "queued" /\ h # c
    BY <1>3 DEF OneFutureEach
  <2>2. /\ pc' \in [Callers -> CallerStates]
        /\ pc'[h] = "granted" /\ pc'[c] = "idle"
        /\ \A d \in Callers : d # h /\ d # c => pc'[d] = pc[d]
    BY <2>1 DEF Typed, CallerStates
  <2>3. Typed'
    BY <1>3, <2>2 DEF Typed
  <2>4. ActiveBounded'
    BY <1>3 DEF ActiveBounded
  <2>5. OneFutureEach'
    <3>1. \A i \in DOMAIN Tail(waiting) :
             i + 1 \in DOMAIN waiting /\ Tail(waiting)[i] = waiting[i+1] /\ waiting[i+1] # h
      BY <1>3, <2>1 DEF OneFutureEach
    <3>2. \A i \in DOMAIN waiting' : waiting'[i] # Cancelled => pc'[waiting'[i]] = "queued"
      <4> SUFFICES ASSUME NEW i \in DOMAIN Tail(waiting), Tail(waiting)[i] # Cancelled
                   PROVE  pc'[Tail(waiting)[i]] = "queued"
        OBVIOUS
      <4>1. pc[waiting[i+1]] = "queued" /\ waiting[i+1] \in Callers
        BY <3>1, <1>3 DEF OneFutureEach, Typed
      <4> QED
        BY <4>1, <3>1, <2>2
    <3>3. \A i, j \in DOMAIN waiting' :
             waiting'[i] = waiting'[j] /\ waiting'[i] # Cancelled => i = j
      <4> SUFFICES ASSUME NEW i \in DOMAIN Tail(waiting), NEW j \in DOMAIN Tail(waiting),
                          waiting[i+1] = waiting[j+1], waiting[i+1] # Cancelled
                   PROVE  i = j
        BY <3>1
      <4>1. i + 1 = j + 1
        BY <3>1 DEF OneFutureEach
      <4> QED
        BY <4>1, <1>3
    <3>4. \A d \in Callers : pc'[d] = "queued" => \E i \in DOMAIN waiting' : waiting'[i] = d
      <4> SUFFICES ASSUME NEW d \in Callers, pc'[d] = "queued"
                   PROVE  \E i \in DOMAIN Tail(waiting) : Tail(waiting)[i] = d
        OBVIOUS
      <4>1. d # h /\ d # c /\ pc[d] = "queued"
        BY <2>2
      <4>2. PICK k \in DOMAIN waiting : waiting[k] = d
        BY <4>1 DEF OneFutureEach
      <4>3. k # 1
        BY <4>1, <4>2, <1>3
      <4>4. k - 1 \in DOMAIN Tail(waiting) /\ Tail(waiting)[k - 1] = d
        BY <4>2, <4>3, <1>3
      <4> QED
        BY <4>4
    <3> QED
      BY <3>2, <3>3, <3>4 DEF OneFutureEach
  <2>6. SlotLossBounded'
    <3>1. SlotUsers' = (SlotUsers \ {c}) \cup {h} /\ h \notin SlotUsers
      BY <2>1, <2>2 DEF SlotUsers
    <3>2. h \notin SlotUsers \ {c}
      BY <3>1
    <3>3. Cardinality((SlotUsers \ {c}) \cup {h}) = Cardinality(SlotUsers \ {c}) + 1
      BY <3>2, <1>2, FS_AddElement
    <3>4. Cardinality(SlotUsers') = Cardinality(SlotUsers) + (strays' - strays)
      BY <3>1, <3>3, <1>2
    <3>5. Cardinality(DeadEntries') = Cardinality(DeadEntries)
      BY PositionsOfTail DEF Typed
    <3>6. active' = active /\ cancels' = cancels
      OBVIOUS
    <3>7. Cardinality(SlotUsers') <= active' + strays'
      BY <3>4, <3>6, <1>7 DEF SlotLossBounded
    <3>8. active' - Cardinality(SlotUsers') + Cardinality(DeadEntries') <= cancels'
      <4>1. Cardinality(SlotUsers') \in Int /\ Cardinality(SlotUsers') >= Cardinality(SlotUsers)
        BY <3>4, <1>7
      <4>2. active - Cardinality(SlotUsers) + Cardinality(DeadEntries) <= cancels
        BY DEF SlotLossBounded
      <4> QED
        BY <4>1, <4>2, <3>5, <3>6, <1>7
    <3> QED
      BY <3>7, <3>8 DEF SlotLossBounded
  <2> QED
    BY <2>3, <2>4, <2>5, <2>6 DEF IInv
<1>5. CASE DropDoneFuture(c)
  <2> USE <1>0, <1>1, <1>5 DEF DropDoneFuture
  <2>1. Typed'
    BY <1>3 DEF Typed, CallerStates
  <2>2. ActiveBounded'
    BY <1>3 DEF ActiveBounded
  <2>3. OneFutureEach'
    <3>1. \A i \in DOMAIN Tail(waiting) :
             i + 1 \in DOMAIN waiting /\ Tail(waiting)[i] = waiting[i+1]
      BY <1>3
    <3>2. \A i \in DOMAIN waiting' : waiting'[i] # Cancelled => pc'[waiting'[i]] = "queued"
      BY <3>1, <1>3 DEF OneFutureEach, Typed
    <3>3. \A i, j \in DOMAIN waiting' :
             waiting'[i] = waiting'[j] /\ waiting'[i] # Cancelled => i = j
      <4> SUFFICES ASSUME NEW i \in DOMAIN Tail(waiting), NEW j \in DOMAIN Tail(waiting),
                          waiting[i+1] = waiting[j+1], waiting[i+1] # Cancelled
                   PROVE  i = j
        BY <3>1
      <4>1. i + 1 = j + 1
        BY <3>1 DEF OneFutureEach
      <4> QED
        BY <4>1, <1>3
    <3>4. \A d \in Callers : pc'[d] = "queued" => \E i \in DOMAIN waiting' : waiting'[i] = d
      <4> SUFFICES ASSUME NEW d \in Callers, pc'[d] = "queued"
                   PROVE  \E i \in DOMAIN Tail(waiting) : Tail(waiting)[i] = d
        OBVIOUS
      <4>1. d # c /\ pc[d] = "queued"
        BY DEF Typed
      <4>2. PICK k \in DOMAIN waiting : waiting[k] = d
        BY <4>1 DEF OneFutureEach
      <4>3. k - 1 \in DOMAIN Tail(waiting) /\ Tail(waiting)[k - 1] = d
        BY <4>2, <1>3
      <4> QED
        BY <4>3
    <3> QED
      BY <3>2, <3>3, <3>4 DEF OneFutureEach
  <2>4. SlotLossBounded'
    <3>1. SlotUsers' = SlotUsers \ {c}
      BY DEF SlotUsers, Typed
    <3>2. Cardinality(DeadEntries') = Cardinality(DeadEntries) - 1
      BY PositionsOfTail DEF Typed
    <3>3. active' = active /\ cancels' = cancels
      OBVIOUS
    <3>4. Cardinality(SlotUsers') <= active' + strays'
      BY <3>1, <3>3, <1>2, <1>7 DEF SlotLossBounded
    <3>5. active' - Cardinality(SlotUsers') + Cardinality(DeadEntries') <= cancels'
      <4>1. Cardinality(SlotUsers') \in Int /\ Cardinality(SlotUsers') >= Cardinality(SlotUsers) - 1
        BY <3>1, <1>2, <1>7
      <4>2. active - Cardinality(SlotUsers) + Cardinality(DeadEntries) <= cancels
        BY DEF SlotLossBounded
      <4> QED
        BY <4>1, <4>2, <3>2, <3>3, <1>7
    <3> QED
      BY <3>4, <3>5 DEF SlotLossBounded
  <2> QED
    BY <2>1, <2>2, <2>3, <2>4 DEF IInv
<1>6. CASE FreeSlot(c)
  <2> USE <1>0, <1>1, <1>6 DEF FreeSlot
  <2>1. active' = IF active > 0 THEN active - 1 ELSE active
    OBVIOUS
  <2>2. active' \in Nat
    BY <2>1 DEF Typed
  <2>3. Typed'
    BY <2>2 DEF Typed, CallerStates
  <2>4. ActiveBounded'
    BY <2>1 DEF ActiveBounded, Typed
  <2>5. OneFutureEach'
    BY DEF OneFutureEach, Typed
  <2>6. SlotLossBounded'
    <3>1. SlotUsers' = SlotUsers \ {c}
      BY DEF SlotUsers, Typed
    <3>2. DeadEntries' = {} /\ DeadEntries = {}
      BY DEF DeadEntries
    <3>3. Cardinality(DeadEntries') = 0
      BY <3>2, FS_EmptySet
    <3> QED
      BY <3>1, <3>3, <2>1, <1>2 DEF SlotLossBounded, Typed
  <2> QED
    BY <2>3, <2>4, <2>5, <2>6 DEF IInv
<1> QED
  BY <1>1, <1>4, <1>5, <1>6 DEF ReleaseSlot

LEMMA UnwindKeepsIInv ==
    ASSUME IInv, NEW c \in Callers, Unwind(c)
    PROVE  IInv'
<1>1. Typed' /\ ActiveBounded' /\ OneFutureEach'
  BY DEF IInv, Unwind, Typed, ActiveBounded, OneFutureEach, CallerStates
<1>2. SlotUsers' = SlotUsers /\ DeadEntries' = DeadEntries
  BY DEF IInv, Unwind, SlotUsers, DeadEntries, Typed
<1> QED
  BY <1>1, <1>2 DEF IInv, SlotLossBounded, Unwind

\* The inductive invariant holds of every behaviour of the limiter.
THEOREM Invariance == Spec => []IInv
<1>1. IInv /\ [Next]_vars => IInv'
  <2> SUFFICES ASSUME IInv, [Next]_vars PROVE IInv'
    OBVIOUS
  <2>1. CASE Next
    BY <2>1, AcquiringKeepsIInv, ReleaseKeepsIInv, UnwindKeepsIInv DEF Next
  <2>2. CASE UNCHANGED vars
    BY <2>2 DEF vars, IInv, Typed, ActiveBounded, OneFutureEach, SlotLossBounded,
                SlotUsers, DeadEntries
  <2> QED
    BY <2>1, <2>2
<1> QED
  BY InitEstablishesIInv, <1>1, PTL DEF Spec

----------------------------------------------------------------------------
(* What follows from it.                                                   *)

\* _active never leaves 0..max_concurrency and every variable keeps its type.
THEOREM TypeCorrectness == Spec => []TypeOK
<1>1. IInv => TypeOK
  BY LimiterAssumption DEF IInv, Typed, ActiveBounded, TypeOK
<1> QED
  BY Invariance, <1>1, PTL

\* At most max_concurrency callers execute at once, for any number of callers,
\* and whatever cancellations hit callers inside acquire().
THEOREM CapHolds == Spec => []ConcurrencyCap
<1>1. IInv => ConcurrencyCap
  <2> SUFFICES ASSUME IInv PROVE ConcurrencyCap
    OBVIOUS
  <2>1. /\ IsFiniteSet(SlotUsers) /\ Cardinality(SlotUsers) \in Nat
        /\ Cardinality(SlotUsers) <= active + strays /\ active <= MaxConcurrency
        /\ active \in Nat /\ strays \in Nat
    BY CountsAreNaturals, LimiterAssumption DEF IInv, SlotLossBounded, ActiveBounded, Typed
  <2>2. Holders \in SUBSET SlotUsers
    BY DEF Holders, SlotUsers
  <2>3. Cardinality(Holders) <= Cardinality(SlotUsers) /\ Cardinality(Holders) \in Nat
    BY <2>1, <2>2, FS_Subset, FS_CardinalityType
  <2> QED
    BY <2>1, <2>3, LimiterAssumption DEF ConcurrencyCap
<1> QED
  BY Invariance, <1>1, PTL

\* A slot is lost only to a cancellation inside acquire(), one slot each.
THEOREM SlotLossIsBounded == Spec => []SlotLossBounded
<1>1. IInv => SlotLossBounded
  BY DEF IInv
<1> QED
  BY Invariance, <1>1, PTL

\* The queue is bounded, holds one future per suspended caller, and is empty
\* while a slot is free.
THEOREM QueueIsExact == Spec => []QueueMatchesWaiters
<1>1. IInv => QueueMatchesWaiters
  <2> SUFFICES ASSUME IInv, NEW c \in Callers
               PROVE  Cardinality({i \in DOMAIN waiting : waiting[i] = c})
                        = (IF pc[c] = "queued" THEN 1 ELSE 0)
    BY DEF IInv, ActiveBounded, QueueMatchesWaiters
  <2>1. c # Cancelled
    BY LimiterAssumption
  <2>2. CASE pc[c] = "queued"
    <3>1. PICK k \in DOMAIN waiting : waiting[k] = c
      BY <2>2 DEF IInv, OneFutureEach
    <3>2. {i \in DOMAIN waiting : waiting[i] = c} = {k}
      BY <2>1, <3>1 DEF IInv, OneFutureEach
    <3> QED
      BY <2>2, <3>2, FS_Singleton
  <2>3. CASE pc[c] # "queued"
    <3>1. {i \in DOMAIN waiting : waiting[i] = c} = {}
      BY <2>1, <2>3 DEF IInv, OneFutureEach
    <3> QED
      BY <2>3, <3>1, FS_EmptySet
  <2> QED
    BY <2>2, <2>3
<1> QED
  BY Invariance, <1>1, PTL

\* A slot goes, while c waits, to nobody but the callers ahead of c.
LEMMA SlotsGoInOrder ==
    ASSUME IInv, [Next]_vars, NEW c \in Callers, NEW d \in Callers,
           pc[c] = "queued", d \notin SlotUsers, pc'[d] \in {"granted", "holding"}, c # d
    PROVE  d \in AheadOf(c)
<1>1. /\ pc \in [Callers -> CallerStates]
      /\ waiting \in Seq(Callers \cup {Cancelled})
      /\ active \in Nat
      /\ pc[d] \notin {"granted", "holding"}
  BY DEF IInv, Typed, SlotUsers
<1>2. PICK k \in DOMAIN waiting : waiting[k] = c
  BY DEF IInv, OneFutureEach
<1>3. active = MaxConcurrency
  BY <1>1, <1>2 DEF IInv, ActiveBounded
<1>4. PICK e \in Callers : HandOver(e) /\ d = Head(waiting)
  <2>1. PICK e \in Callers : Acquiring(e) \/ Release(e) \/ StrayRelease(e) \/ Unwind(e)
    BY <1>1 DEF Next, vars
  <2>2. ~Acquiring(e)
    BY <1>1, <1>3, LimiterAssumption
       DEF Acquiring, AcquireSlot, Shed, Enqueue, Resume, CancelQueued, CancelGranted
  <2>3. ~Unwind(e)
    BY <1>1 DEF Unwind
  <2>4. HandOver(e)
    BY <1>1, <2>1, <2>2, <2>3 DEF Release, StrayRelease, ReleaseSlot, DropDoneFuture, FreeSlot
  <2>5. d = Head(waiting)
    BY <1>1, <2>4 DEF HandOver
  <2> QED
    BY <2>4, <2>5
<1>5. waiting[1] = d /\ 1 \in DOMAIN waiting
  BY <1>1, <1>2, <1>4 DEF HandOver
<1>6. 1 < k
  BY <1>1, <1>2, <1>5
<1> QED
  BY <1>2, <1>5, <1>6 DEF AheadOf

\* Nobody gets ahead of a caller that waits.
LEMMA OrderIsKept ==
    ASSUME IInv, [Next]_vars, NEW c \in Callers, NEW d \in Callers,
           pc[c] = "queued", d \in AheadOf(c)'
    PROVE  d \in AheadOf(c)
<1>1. /\ pc \in [Callers -> CallerStates] /\ waiting \in Seq(Callers \cup {Cancelled})
      /\ DOMAIN waiting = 1..Len(waiting) /\ Len(waiting) \in Nat
      /\ c # Cancelled /\ d # Cancelled
  BY LimiterAssumption DEF IInv, Typed
<1>2. PICK i \in DOMAIN waiting', j \in DOMAIN waiting' :
         i < j /\ waiting'[i] = d /\ waiting'[j] = c
  BY DEF AheadOf
<1>3. CASE waiting' = waiting
  BY <1>2, <1>3 DEF AheadOf
<1>4. CASE \E e \in Callers : Enqueue(e)
  <2>1. PICK e \in Callers : Enqueue(e)
    BY <1>4
  <2>2. /\ DOMAIN waiting' = 1..(Len(waiting) + 1)
        /\ \A m \in DOMAIN waiting : waiting'[m] = waiting[m]
        /\ waiting'[Len(waiting) + 1] = e
    BY <1>1, <2>1, AppendProperties DEF Enqueue
  <2>3. e # c
    BY <2>1 DEF Enqueue
  <2>4. i \in DOMAIN waiting /\ j \in DOMAIN waiting
    BY <1>1, <1>2, <2>2, <2>3
  <2> QED
    BY <1>2, <2>2, <2>4 DEF AheadOf
<1>5. CASE \E e \in Callers : CancelQueued(e)
  <2>1. DOMAIN waiting' = DOMAIN waiting
    BY <1>5 DEF CancelQueued
  <2>2. waiting[i] = d /\ waiting[j] = c
    BY <1>1, <1>2, <1>5, <2>1 DEF CancelQueued
  <2> QED
    BY <1>2, <2>1, <2>2 DEF AheadOf
<1>6. CASE waiting # <<>> /\ waiting' = Tail(waiting)
  <2>1. /\ DOMAIN waiting' = 1..(Len(waiting) - 1)
        /\ \A m \in 1..(Len(waiting) - 1) : waiting'[m] = waiting[m+1]
    BY <1>1, <1>6, HeadTailProperties
  <2>2. /\ i + 1 \in DOMAIN waiting /\ j + 1 \in DOMAIN waiting /\ i + 1 < j + 1
        /\ waiting[i+1] = d /\ waiting[j+1] = c
    BY <1>1, <1>2, <2>1
  <2> QED
    BY <2>2 DEF AheadOf
<1>7. \/ waiting' = waiting
      \/ \E e \in Callers : Enqueue(e) \/ CancelQueued(e)
      \/ waiting # <<>> /\ waiting' = Tail(waiting)
  BY DEF Next, vars, Acquiring, AcquireSlot, Shed, Resume, CancelGranted,
         Release, StrayRelease, ReleaseSlot, HandOver, DropDoneFuture, FreeSlot, Unwind
<1> QED
  BY <1>3, <1>4, <1>5, <1>6, <1>7

\* First come, first served, for any number of callers.
THEOREM FirstComeFirstServed == Spec => NoOvertaking
<1> DEFINE InOrder ==
      \A c, d \in Callers :
        c # d /\ pc[c] = "queued" /\ pc'[c] = "queued" =>
          /\ d \notin SlotUsers /\ pc'[d] \in {"granted", "holding"} => d \in AheadOf(c)
          /\ d \in AheadOf(c)' => d \in AheadOf(c)
<1>1. ASSUME IInv, [Next]_vars
      PROVE  InOrder
  BY <1>1, SlotsGoInOrder, OrderIsKept
<1>2. Spec => [][InOrder]_vars
  BY <1>1, Invariance, PTL DEF Spec
<1> QED
  BY <1>2 DEF NoOvertaking

----------------------------------------------------------------------------
(* The limiter implements Admission.                                       *)

\* How the order of the suspended callers follows the queue.
LEMMA AheadByPosition ==
    ASSUME NEW p \in Callers \X Callers
    PROVE  p \in Ahead <=> \E i, j \in DOMAIN waiting : i < j /\ waiting[i] = p[1] /\ waiting[j] = p[2]
<1>1. p[1] \in Callers /\ p[2] \in Callers
  OBVIOUS
<1> QED
  BY <1>1 DEF Ahead, AheadOf

\* When the oldest future is taken from the queue its caller leaves the order.
LEMMA AheadAfterPop ==
    ASSUME IInv, waiting # <<>>, waiting' = Tail(waiting)
    PROVE  Ahead' = {p \in Ahead : p[1] # Head(waiting) /\ p[2] # Head(waiting)}
<1>1. /\ DOMAIN waiting = 1..Len(waiting) /\ Len(waiting) \in Nat
      /\ DOMAIN waiting' = 1..(Len(waiting) - 1)
      /\ \A m \in 1..(Len(waiting) - 1) : waiting'[m] = waiting[m+1]
      /\ Head(waiting) = waiting[1] /\ 1 \in DOMAIN waiting
  BY HeadTailProperties DEF IInv, Typed
<1>2. \A m \in DOMAIN waiting : waiting[m] \in Callers /\ waiting[m] = waiting[1] => m = 1
  BY <1>1, LimiterAssumption DEF IInv, OneFutureEach
<1>3. ASSUME NEW p \in Callers \X Callers
      PROVE  p \in Ahead' <=> p \in Ahead /\ p[1] # waiting[1] /\ p[2] # waiting[1]
  <2>0. p[1] \in Callers /\ p[2] \in Callers
    OBVIOUS
  <2>1. ASSUME NEW i \in DOMAIN waiting', NEW j \in DOMAIN waiting',
               i < j, waiting'[i] = p[1], waiting'[j] = p[2]
        PROVE  p \in Ahead /\ p[1] # waiting[1] /\ p[2] # waiting[1]
    <3>1. /\ i + 1 \in DOMAIN waiting /\ j + 1 \in DOMAIN waiting /\ i + 1 < j + 1
          /\ waiting[i+1] = p[1] /\ waiting[j+1] = p[2]
          /\ i + 1 # 1 /\ j + 1 # 1
      BY <1>1, <2>1
    <3>2. p \in Ahead
      BY <3>1, AheadByPosition
    <3> QED
      BY <3>1, <3>2, <1>2, <2>0
  <2>2. ASSUME NEW i \in DOMAIN waiting, NEW j \in DOMAIN waiting,
               i < j, waiting[i] = p[1], waiting[j] = p[2], p[1] # waiting[1]
        PROVE  \E k, l \in DOMAIN waiting' : k < l /\ waiting'[k] = p[1] /\ waiting'[l] = p[2]
    <3>1. i # 1
      BY <2>2
    <3>2. /\ i - 1 \in DOMAIN waiting' /\ j - 1 \in DOMAIN waiting' /\ i - 1 < j - 1
          /\ waiting'[i - 1] = p[1] /\ waiting'[j - 1] = p[2]
      BY <1>1, <2>2, <3>1
    <3> QED
      BY <3>2
  <2>3. p \in Ahead' <=>
          \E i, j \in DOMAIN waiting' : i < j /\ waiting'[i] = p[1] /\ waiting'[j] = p[2]
    BY <2>0 DEF Ahead, AheadOf
  <2> QED
    BY <2>1, <2>2, <2>3, AheadByPosition
<1>4. Ahead \subseteq Callers \X Callers /\ Ahead' \subseteq Callers \X Callers
  BY DEF Ahead
<1> QED
  BY <1>1, <1>3, <1>4

\* When a future is appended its caller is behind everybody.
LEMMA AheadAfterAppend ==
    ASSUME IInv, NEW c \in Callers, pc[c] # "queued", waiting' = Append(waiting, c)
    PROVE  Ahead' = Ahead \cup {<<s, c>> : s \in Suspended}
<1>1. /\ DOMAIN waiting = 1..Len(waiting) /\ Len(waiting) \in Nat
      /\ DOMAIN waiting' = 1..(Len(waiting) + 1)
      /\ \A m \in DOMAIN waiting : waiting'[m] = waiting[m]
      /\ waiting'[Len(waiting) + 1] = c
  BY AppendProperties DEF IInv, Typed
<1>2. \A m \in DOMAIN waiting : waiting[m] # c
  BY LimiterAssumption DEF IInv, OneFutureEach
<1>3. \A s \in Callers : s \in Suspended <=> \E m \in DOMAIN waiting : waiting[m] = s
  BY LimiterAssumption DEF Suspended, IInv, OneFutureEach
<1>4. ASSUME NEW p \in Callers \X Callers
      PROVE  p \in Ahead' <=> p \in Ahead \/ (p[1] \in Suspended /\ p[2] = c)
  <2>0. p[1] \in Callers /\ p[2] \in Callers
    OBVIOUS
  <2>1. p \in Ahead' <=>
          \E i, j \in DOMAIN waiting' : i < j /\ waiting'[i] = p[1] /\ waiting'[j] = p[2]
    BY <2>0 DEF Ahead, AheadOf
  <2>2. ASSUME NEW i \in DOMAIN waiting', NEW j \in DOMAIN waiting',
               i < j, waiting'[i] = p[1], waiting'[j] = p[2]
        PROVE  p \in Ahead \/ (p[1] \in Suspended /\ p[2] = c)
    <3>1. i \in DOMAIN waiting /\ waiting[i] = p[1]
      BY <1>1, <2>2
    <3>2. CASE j \in DOMAIN waiting
      BY <3>1, <3>2, <2>2, <1>1, AheadByPosition
    <3>3. CASE j \notin DOMAIN waiting
      BY <3>1, <3>3, <2>2, <1>1, <1>3, <2>0
    <3> QED
      BY <3>2, <3>3
  <2>3. ASSUME p \in Ahead
        PROVE  \E i, j \in DOMAIN waiting' : i < j /\ waiting'[i] = p[1] /\ waiting'[j] = p[2]
    BY <2>3, <1>1, AheadByPosition
  <2>4. ASSUME p[1] \in Suspended, p[2] = c
        PROVE  \E i, j \in DOMAIN waiting' : i < j /\ waiting'[i] = p[1] /\ waiting'[j] = p[2]
    <3>1. PICK m \in DOMAIN waiting : waiting[m] = p[1]
      BY <1>3, <2>0, <2>4
    <3>2. m < Len(waiting) + 1 /\ m \in DOMAIN waiting' /\ Len(waiting) + 1 \in DOMAIN waiting'
      BY <1>1
    <3> QED
      BY <3>1, <3>2, <1>1, <2>4
  <2> QED
    BY <2>1, <2>2, <2>3, <2>4
<1>5. Ahead \subseteq Callers \X Callers /\ Ahead' \subseteq Callers \X Callers
  BY DEF Ahead
<1>6. ASSUME NEW p \in Callers \X Callers
      PROVE  p \in {<<s, c>> : s \in Suspended} <=> p[1] \in Suspended /\ p[2] = c
  BY DEF Suspended
<1>7. {<<s, c>> : s \in Suspended} \subseteq Callers \X Callers
  BY DEF Suspended
<1> QED
  BY <1>4, <1>5, <1>6, <1>7

\* A caller whose future is cancelled leaves the order.
LEMMA AheadAfterCancel ==
    ASSUME IInv, NEW c \in Callers,
           waiting' = [i \in DOMAIN waiting |-> IF waiting[i] = c THEN Cancelled ELSE waiting[i]]
    PROVE  Ahead' = {p \in Ahead : p[1] # c /\ p[2] # c}
<1>1. DOMAIN waiting' = DOMAIN waiting
  OBVIOUS
<1>2. ASSUME NEW p \in Callers \X Callers
      PROVE  p \in Ahead' <=> p \in Ahead /\ p[1] # c /\ p[2] # c
  <2>1. p[1] \in Callers \ {Cancelled} /\ p[2] \in Callers \ {Cancelled}
    BY LimiterAssumption
  <2>2. p \in Ahead' <=>
          \E i, j \in DOMAIN waiting' : i < j /\ waiting'[i] = p[1] /\ waiting'[j] = p[2]
    BY <2>1 DEF Ahead, AheadOf
  <2>3. \A i \in DOMAIN waiting, s \in Callers \ {Cancelled} :
           waiting'[i] = s <=> waiting[i] = s /\ s # c
    OBVIOUS
  <2> QED
    BY <1>1, <2>1, <2>2, <2>3, AheadByPosition
<1>3. Ahead \subseteq Callers \X Callers /\ Ahead' \subseteq Callers \X Callers
  BY DEF Ahead
<1> QED
  BY <1>2, <1>3

LEMMA IntervalCount ==
    ASSUME NEW n \in Nat
    PROVE  IsFiniteSet(1..n) /\ Cardinality(1..n) = n
<1>1. IsFiniteSet(1..n)
  BY FS_Interval
<1>2. Cardinality(1..n) = IF 1 > n THEN 0 ELSE n - 1 + 1
  BY FS_Interval
<1> QED
  BY <1>1, <1>2

\* Admission counts with the Cardinality of an instance of FiniteSets.
LEMMA SameCount == \A S : Admitting!Cardinality(S) = Cardinality(S)
  BY DEF Admitting!Cardinality, Cardinality

\* There are no more suspended callers than futures.
LEMMA SuspendedFitQueue ==
    ASSUME IInv
    PROVE  IsFiniteSet(Suspended) /\ Cardinality(Suspended) <= Len(waiting)
                                  /\ Cardinality(Suspended) \in Nat
<1> DEFINE place == [c \in Suspended |-> CHOOSE i \in DOMAIN waiting : waiting[i] = c]
<1>1. DOMAIN waiting = 1..Len(waiting) /\ Len(waiting) \in Nat
  BY DEF IInv, Typed
<1>2. \A c \in Suspended : place[c] \in 1..Len(waiting) /\ waiting[place[c]] = c
  BY <1>1 DEF Suspended, IInv, OneFutureEach
<1>3. place \in Injection(Suspended, 1..Len(waiting))
  BY <1>2 DEF Injection, IsInjective
<1>4. IsFiniteSet(1..Len(waiting)) /\ Cardinality(1..Len(waiting)) = Len(waiting)
  BY <1>1, IntervalCount
<1> HIDE DEF place
<1>5. IsFiniteSet(Suspended) /\ Cardinality(Suspended) <= Cardinality(1..Len(waiting))
  BY <1>3, <1>4, FS_Injection DEF ExistsInjection
<1> QED
  BY <1>4, <1>5, FS_CardinalityType

\* What the actions that leave the queue alone do to the mapped state.
LEMMA StutteringActions ==
    ASSUME IInv, NEW c \in Callers, Shed(c) \/ Resume(c) \/ Unwind(c)
    PROVE  UNCHANGED <<SlotUsers, Suspended, Ahead, strays>>
<1>1. pc \in [Callers -> CallerStates]
  BY DEF IInv, Typed
<1>2. SlotUsers' = SlotUsers /\ Suspended' = Suspended
  BY <1>1 DEF Shed, Resume, Unwind, SlotUsers, Suspended
<1>3. waiting' = waiting /\ strays' = strays
  BY DEF Shed, Resume, Unwind
<1> QED
  BY <1>2, <1>3 DEF Ahead, AheadOf

\* A caller that gets a slot at once enters, past nobody.
LEMMA AcquireSlotEnters ==
    ASSUME IInv, NEW c \in Callers, AcquireSlot(c)
    PROVE  Admitting!Enter(c)
<1> USE DEF AcquireSlot
<1>1. /\ pc \in [Callers -> CallerStates] /\ active \in Int /\ strays \in Int
      /\ Cardinality(SlotUsers) \in Nat
  BY CountsAreNaturals DEF IInv, Typed
<1>2. waiting = <<>>
  BY LimiterAssumption, <1>1 DEF IInv, ActiveBounded
<1>3. Suspended = {}
  BY <1>2 DEF Suspended, IInv, OneFutureEach
<1>4. c \notin SlotUsers \cup Suspended
  BY <1>3 DEF SlotUsers
<1>5. Cardinality(SlotUsers) < MaxConcurrency + strays
  BY <1>1, LimiterAssumption DEF IInv, SlotLossBounded
<1>6. SlotUsers' = SlotUsers \cup {c} /\ Suspended' = Suspended
  BY <1>1 DEF SlotUsers, Suspended
<1>7. Ahead' = Ahead
  BY DEF Ahead, AheadOf
<1>8. strays' = strays
  OBVIOUS
<1> QED
  BY ONLY <1>3, <1>4, <1>5, <1>6, <1>7, <1>8, SameCount DEF Admitting!Enter

\* A caller that is queued joins the line behind everybody.
LEMMA EnqueueJoins ==
    ASSUME IInv, NEW c \in Callers, Enqueue(c)
    PROVE  Admitting!Join(c)
<1> USE DEF Enqueue
<1>1. pc \in [Callers -> CallerStates] /\ Len(waiting) \in Nat
  BY DEF IInv, Typed
<1>2. c \notin SlotUsers \cup Suspended
  BY DEF SlotUsers, Suspended
<1>3. Cardinality(Suspended) < MaxQueueDepth
  BY <1>1, SuspendedFitQueue, LimiterAssumption
<1>4. Suspended' = Suspended \cup {c} /\ SlotUsers' = SlotUsers
  BY <1>1 DEF SlotUsers, Suspended
<1>5. Ahead' = Ahead \cup {<<s, c>> : s \in Suspended}
  BY AheadAfterAppend
<1>6. strays' = strays
  OBVIOUS
<1> QED
  BY ONLY <1>2, <1>3, <1>4, <1>5, <1>6, SameCount DEF Admitting!Join

\* Cancellation inside acquire() takes a caller out of the line, or out.
LEMMA CancellationsLeave ==
    ASSUME IInv, NEW c \in Callers
    PROVE  /\ CancelQueued(c) => Admitting!GiveUp(c)
           /\ CancelGranted(c) => Admitting!Leave(c)
<1>1. pc \in [Callers -> CallerStates]
  BY DEF IInv, Typed
<1>2. ASSUME CancelQueued(c) PROVE Admitting!GiveUp(c)
  <2> USE <1>2 DEF CancelQueued
  <2>1. c \in Suspended /\ Suspended' = Suspended \ {c} /\ SlotUsers' = SlotUsers
    BY <1>1 DEF Suspended, SlotUsers
  <2>2. Ahead' = {p \in Ahead : p[1] # c /\ p[2] # c}
    BY AheadAfterCancel
  <2> QED
    BY <2>1, <2>2 DEF Admitting!GiveUp, Admitting!Without
<1>3. ASSUME CancelGranted(c) PROVE Admitting!Leave(c)
  <2> USE <1>3 DEF CancelGranted
  <2>1. c \in SlotUsers /\ SlotUsers' = SlotUsers \ {c} /\ Suspended' = Suspended
    BY <1>1 DEF Suspended, SlotUsers
  <2>2. Ahead' = Ahead
    BY DEF Ahead, AheadOf
  <2> QED
    BY <2>1, <2>2 DEF Admitting!Leave
<1> QED
  BY <1>2, <1>3

\* release() by c, which has a slot or whose acquire() raised: either the first
\* of the line moves in, or only c is gone from where it was.
LEMMA ReleaseMapped ==
    ASSUME IInv, NEW c \in Callers, pc[c] \in {"holding", "failed"}, ReleaseSlot(c)
    PROVE  \/ \E h \in Callers :
                /\ Admitting!First(h)
                /\ SlotUsers' = (SlotUsers \ {c}) \cup {h}
                /\ Suspended' = Suspended \ {h}
                /\ Ahead' = Admitting!Without(h)
           \/ /\ SlotUsers' = SlotUsers \ {c}
              /\ UNCHANGED <<Suspended, Ahead>>
<1>1. pc \in [Callers -> CallerStates] /\ waiting \in Seq(Callers \cup {Cancelled})
  BY DEF IInv, Typed
<1>2. CASE HandOver(c)
  <2> USE <1>2 DEF HandOver
  <2> DEFINE h == Head(waiting)
  <2>1. h \in Callers /\ pc[h] = "queued" /\ h = waiting[1] /\ 1 \in DOMAIN waiting
    BY <1>1 DEF IInv, OneFutureEach
  <2>2. h \in Suspended /\ h # c
    BY <2>1 DEF Suspended
  <2>3. ASSUME NEW s \in Suspended PROVE <<s, h>> \notin Ahead
    <3>1. <<s, h>> \in Callers \X Callers
      BY <2>1 DEF Suspended
    <3>2. \A j \in DOMAIN waiting : waiting[j] = h => j = 1
      BY <2>1, LimiterAssumption DEF IInv, OneFutureEach
    <3>3. ~ \E i, j \in DOMAIN waiting : i < j /\ waiting[i] = s /\ waiting[j] = h
      BY <1>1, <3>2
    <3> QED
      BY <3>1, <3>3, AheadByPosition
  <2>4. SlotUsers' = (SlotUsers \ {c}) \cup {h} /\ Suspended' = Suspended \ {h}
    BY <1>1, <2>1, <2>2 DEF SlotUsers, Suspended
  <2>5. Ahead' = Admitting!Without(h)
    BY AheadAfterPop DEF Admitting!Without
  <2> QED
    BY <2>1, <2>2, <2>3, <2>4, <2>5 DEF Admitting!First
<1>3. CASE DropDoneFuture(c)
  <2> USE <1>3 DEF DropDoneFuture
  <2>1. SlotUsers' = SlotUsers \ {c} /\ Suspended' = Suspended
    BY <1>1 DEF SlotUsers, Suspended
  <2>2. Ahead' = {p \in Ahead : p[1] # Cancelled /\ p[2] # Cancelled}
    BY AheadAfterPop
  <2>3. \A p \in Ahead : p[1] # Cancelled /\ p[2] # Cancelled
    BY LimiterAssumption DEF Ahead
  <2> QED
    BY <2>1, <2>2, <2>3
<1>4. CASE FreeSlot(c)
  <2> USE <1>4 DEF FreeSlot
  <2>1. SlotUsers' = SlotUsers \ {c} /\ Suspended' = Suspended
    BY <1>1 DEF SlotUsers, Suspended
  <2> QED
    BY <2>1 DEF Ahead, AheadOf
<1> QED
  BY <1>2, <1>3, <1>4 DEF ReleaseSlot

LEMMA StepImplementsAdmission ==
    ASSUME IInv, [Next]_vars
    PROVE  [Admitting!Next]_<<SlotUsers, Suspended, Ahead, strays>>
<1>1. CASE UNCHANGED vars
  BY <1>1 DEF vars, SlotUsers, Suspended, Ahead, AheadOf
<1>2. CASE \E c \in Callers : Acquiring(c) \/ Unwind(c)
  BY <1>2, StutteringActions, AcquireSlotEnters, EnqueueJoins, CancellationsLeave
     DEF Acquiring, Admitting!Next
<1>3. CASE \E c \in Callers : Release(c)
  <2>1. PICK c \in Callers : Release(c)
    BY <1>3
  <2>2. c \in SlotUsers /\ strays' = strays
    BY <2>1 DEF Release, SlotUsers
  <2>3. Admitting!Leave(c) \/ \E h \in Callers : Admitting!PassOn(c, h)
    BY <2>1, <2>2, ReleaseMapped DEF Release, Admitting!Leave, Admitting!PassOn
  <2> QED
    BY <2>3 DEF Admitting!Next
<1>4. CASE \E c \in Callers : StrayRelease(c)
  <2>1. PICK c \in Callers : StrayRelease(c)
    BY <1>4
  <2>2. SlotUsers \ {c} = SlotUsers /\ strays' = strays + 1
    BY <2>1 DEF StrayRelease, SlotUsers
  <2>3. Admitting!FalseLeave
    BY <2>1, <2>2, ReleaseMapped DEF StrayRelease, Admitting!FalseLeave
  <2> QED
    BY <2>3 DEF Admitting!Next
<1> QED
  BY <1>1, <1>2, <1>3, <1>4 DEF Next

\* The limiter does only what Admission allows: slots go to newcomers when
\* nobody waits, and to the suspended callers in the order in which they came.
THEOREM LimiterImplementsAdmission == Spec => ImplementsAdmission
<1>1. Init => Admitting!Init
  <2> SUFFICES ASSUME Init PROVE Admitting!Init
    OBVIOUS
  <2>1. SlotUsers = {} /\ Suspended = {} /\ strays = 0
    BY DEF Init, SlotUsers, Suspended
  <2>2. Ahead = {}
    BY DEF Init, Ahead, AheadOf
  <2> QED
    BY <2>1, <2>2 DEF Admitting!Init
<1>2. Spec => Admitting!Spec
  BY <1>1, StepImplementsAdmission, Invariance, PTL DEF Spec, Admitting!Spec
<1> QED
  BY <1>2 DEF ImplementsAdmission

=============================================================================
