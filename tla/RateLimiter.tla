---------------------------- MODULE RateLimiter ----------------------------
(***************************************************************************)
(* ConcurrencyRateLimiter (mcp_mesh/router/rate_limiter.py) and the tasks  *)
(* that call it on one event loop.                                         *)
(*                                                                         *)
(* A task runs `await acquire()', works, and calls `release()'.  The       *)
(* asyncio.Lock in acquire() is never held across an await, so the body of *)
(* acquire() up to `await fut' is one step; a second step resumes the task *)
(* once its future is done.  Between the two another task may run, and the *)
(* waiting task may be cancelled.                                          *)
(*                                                                         *)
(* A future of the queue is named after the caller that awaits it; a       *)
(* future whose caller was cancelled is done and nobody awaits it any      *)
(* more, which is all that release() can tell of it: it is `Cancelled'.    *)
(***************************************************************************)
EXTENDS Integers, Sequences, FiniteSets

CONSTANTS
    Callers,           \* the tasks that share the limiter
    Cancelled,         \* a future in the queue that its caller's cancellation made done
    MaxConcurrency,    \* max_concurrency
    MaxQueueDepth,     \* max_queue_depth
    MaxCancels,        \* bound: how many times a task is cancelled inside acquire()
    MaxStrays          \* bound: how many times a task releases what it did not get

ASSUME LimiterAssumption ==
    /\ IsFiniteSet(Callers)
    /\ Cancelled \notin Callers
    /\ MaxConcurrency \in Nat
    /\ MaxQueueDepth \in Nat
    /\ MaxCancels \in Nat
    /\ MaxStrays \in Nat

VARIABLES
    active,    \* _active
    waiting,   \* _waiting: the futures, oldest first
    pc,        \* where each caller is
    cancels,   \* how many cancellations hit a caller inside acquire()
    strays     \* how many callers released after acquire() raised

vars == <<active, waiting, pc, cancels, strays>>

----------------------------------------------------------------------------
(* The state of a caller.                                                  *)
(*   idle     outside acquire() and release()                              *)
(*   queued   awaits its future, which is pending in the queue             *)
(*   granted  its future has a result, the task has not run since          *)
(*   holding  acquire() returned, release() not called yet                 *)
(*   failed   acquire() raised NodeCongestedError or CancelledError        *)

CallerStates == {"idle", "queued", "granted", "holding", "failed"}

\* The callers a slot is set aside for.
SlotUsers == {c \in Callers : pc[c] \in {"granted", "holding"}}

Holders == {c \in Callers : pc[c] = "holding"}

\* Positions of the queue that hold a future nobody awaits.
DeadEntries == {i \in DOMAIN waiting : waiting[i] = Cancelled}

Init ==
    /\ active = 0
    /\ waiting = <<>>
    /\ pc = [c \in Callers |-> "idle"]
    /\ cancels = 0
    /\ strays = 0

----------------------------------------------------------------------------
(* acquire()                                                               *)

\* A bug: the free-slot test admits one caller too many.
MutAcquireOffByOne(c) ==
    /\ pc[c] = "idle"
    /\ active <= MaxConcurrency
    /\ active' = active + 1
    /\ pc' = [pc EXCEPT ![c] = "holding"]
    /\ UNCHANGED <<waiting, cancels, strays>>

\* A free slot is taken at once.
AcquireSlot(c) ==
    /\ pc[c] = "idle"
    /\ active < MaxConcurrency
    /\ active' = active + 1
    /\ pc' = [pc EXCEPT ![c] = "holding"]
    /\ UNCHANGED <<waiting, cancels, strays>>

\* Neither a slot nor room in the queue: NodeCongestedError.
Shed(c) ==
    /\ pc[c] = "idle"
    /\ active >= MaxConcurrency
    /\ Len(waiting) >= MaxQueueDepth
    /\ pc' = [pc EXCEPT ![c] = "failed"]
    /\ UNCHANGED <<active, waiting, cancels, strays>>

\* A bug: the depth test admits one future too many.
MutEnqueueOffByOne(c) ==
    /\ pc[c] = "idle"
    /\ active >= MaxConcurrency
    /\ Len(waiting) <= MaxQueueDepth
    /\ waiting' = Append(waiting, c)
    /\ pc' = [pc EXCEPT ![c] = "queued"]
    /\ UNCHANGED <<active, cancels, strays>>

\* A bug: a newcomer is put at the head of the queue.
MutEnqueueAtHead(c) ==
    /\ pc[c] = "idle"
    /\ active >= MaxConcurrency
    /\ Len(waiting) < MaxQueueDepth
    /\ waiting' = <<c>> \o waiting
    /\ pc' = [pc EXCEPT ![c] = "queued"]
    /\ UNCHANGED <<active, cancels, strays>>

\* No slot but room in the queue: append a future and await it.
Enqueue(c) ==
    /\ pc[c] = "idle"
    /\ active >= MaxConcurrency
    /\ Len(waiting) < MaxQueueDepth
    /\ waiting' = Append(waiting, c)
    /\ pc' = [pc EXCEPT ![c] = "queued"]
    /\ UNCHANGED <<active, cancels, strays>>

\* The event loop runs the task whose future got its result: acquire() returns.
Resume(c) ==
    /\ pc[c] = "granted"
    /\ pc' = [pc EXCEPT ![c] = "holding"]
    /\ UNCHANGED <<active, waiting, cancels, strays>>

\* The task is cancelled while it awaits its future (a caller's timeout): the
\* future is cancelled with it and stays in the queue, done.
CancelQueued(c) ==
    /\ pc[c] = "queued"
    /\ cancels < MaxCancels
    /\ cancels' = cancels + 1
    /\ waiting' = [i \in DOMAIN waiting |-> IF waiting[i] = c THEN Cancelled ELSE waiting[i]]
    /\ pc' = [pc EXCEPT ![c] = "failed"]
    /\ UNCHANGED <<active, strays>>

\* The task is cancelled after release() gave it the slot and before it ran:
\* acquire() raises CancelledError and the slot stays counted in _active.
CancelGranted(c) ==
    /\ pc[c] = "granted"
    /\ cancels < MaxCancels
    /\ cancels' = cancels + 1
    /\ pc' = [pc EXCEPT ![c] = "failed"]
    /\ UNCHANGED <<active, waiting, strays>>

----------------------------------------------------------------------------
(* release(), called by c, which is idle afterwards.                       *)

\* A bug: the slot is handed over and counted free as well.
MutHandOverAndFree(c) ==
    /\ waiting # <<>>
    /\ Head(waiting) # Cancelled
    /\ waiting' = Tail(waiting)
    /\ pc' = [pc EXCEPT ![c] = "idle", ![Head(waiting)] = "granted"]
    /\ active' = active - 1

\* A bug: the future is popped and its caller is never told.
MutPopWithoutResult(c) ==
    /\ waiting # <<>>
    /\ Head(waiting) # Cancelled
    /\ waiting' = Tail(waiting)
    /\ pc' = [pc EXCEPT ![c] = "idle"]
    /\ UNCHANGED active

\* A bug: pop() for pop(0), so that the newest future is taken.
MutHandOverToNewest(c) ==
    /\ waiting # <<>>
    /\ waiting[Len(waiting)] # Cancelled
    /\ waiting' = SubSeq(waiting, 1, Len(waiting) - 1)
    /\ pc' = [pc EXCEPT ![c] = "idle", ![waiting[Len(waiting)]] = "granted"]
    /\ UNCHANGED active

\* The oldest future is pending: its caller gets the slot, _active is untouched.
HandOver(c) ==
    /\ waiting # <<>>
    /\ Head(waiting) # Cancelled
    /\ waiting' = Tail(waiting)
    /\ pc' = [pc EXCEPT ![c] = "idle", ![Head(waiting)] = "granted"]
    /\ UNCHANGED active

\* The oldest future is done already: it is dropped and nothing else happens.
DropDoneFuture(c) ==
    /\ waiting # <<>>
    /\ Head(waiting) = Cancelled
    /\ waiting' = Tail(waiting)
    /\ pc' = [pc EXCEPT ![c] = "idle"]
    /\ UNCHANGED active

\* A bug: a release with nobody waiting forgets to give the slot back.
MutFreeSlot(c) ==
    /\ waiting = <<>>
    /\ pc' = [pc EXCEPT ![c] = "idle"]
    /\ UNCHANGED <<active, waiting>>

\* Nobody waits: the slot becomes free.
FreeSlot(c) ==
    /\ waiting = <<>>
    /\ active' = IF active > 0 THEN active - 1 ELSE active
    /\ pc' = [pc EXCEPT ![c] = "idle"]
    /\ UNCHANGED waiting

ReleaseSlot(c) == HandOver(c) \/ DropDoneFuture(c) \/ FreeSlot(c)

\* A caller that holds a slot is done with it.
Release(c) == pc[c] = "holding" /\ ReleaseSlot(c) /\ UNCHANGED <<cancels, strays>>

\* A caller whose acquire() raised releases all the same: its `await acquire()'
\* is inside the try whose finally calls release().
StrayRelease(c) ==
    /\ pc[c] = "failed"
    /\ strays < MaxStrays
    /\ strays' = strays + 1
    /\ ReleaseSlot(c)
    /\ UNCHANGED cancels

\* A caller whose acquire() raised goes on; its `await acquire()' is before the
\* try and it has nothing to undo.
Unwind(c) ==
    /\ pc[c] = "failed"
    /\ pc' = [pc EXCEPT ![c] = "idle"]
    /\ UNCHANGED <<active, waiting, cancels, strays>>

----------------------------------------------------------------------------

Acquiring(c) ==
    \/ AcquireSlot(c) \/ Shed(c) \/ Enqueue(c) \/ Resume(c)
    \/ CancelQueued(c) \/ CancelGranted(c)

Next == \E c \in Callers : Acquiring(c) \/ Release(c) \/ StrayRelease(c) \/ Unwind(c)

\* The event loop runs every ready task, and a caller's work ends.
Fairness == \A c \in Callers : WF_vars(Resume(c)) /\ WF_vars(Release(c)) /\ WF_vars(Unwind(c))

Spec == Init /\ [][Next]_vars /\ Fairness

----------------------------------------------------------------------------
(* Properties                                                              *)

\* Type invariant; _active stays between 0 and max_concurrency.
TypeOK ==
    /\ active \in 0..MaxConcurrency
    /\ waiting \in Seq(Callers \cup {Cancelled})
    /\ pc \in [Callers -> CallerStates]
    /\ cancels \in 0..MaxCancels
    /\ strays \in 0..MaxStrays

\* No more than max_concurrency callers execute at once, whatever tasks are
\* cancelled while release() passes slots from one to the next, and one more
\* for each release() of a caller that had no slot.
ConcurrencyCap == Cardinality(Holders) <= MaxConcurrency + strays

\* _waiting and the suspended tasks agree: no more than max_queue_depth
\* futures, each suspended task awaits exactly one of them, and a future waits
\* only while every slot is counted as taken.
QueueMatchesWaiters ==
    /\ Len(waiting) <= MaxQueueDepth
    /\ \A c \in Callers :
          Cardinality({i \in DOMAIN waiting : waiting[i] = c}) = (IF pc[c] = "queued" THEN 1 ELSE 0)
    /\ waiting # <<>> => active = MaxConcurrency

\* _active counts the slots in use and the ones that are lost, less those that
\* stray releases gave away.  A task cancelled inside acquire() costs one slot
\* at most, and nothing else costs any: the slots lost and the dead futures
\* still queued, each of which will cost one, are no more than the
\* cancellations so far.
SlotLossBounded ==
    /\ Cardinality(SlotUsers) <= active + strays
    /\ active - Cardinality(SlotUsers) + Cardinality(DeadEntries) <= cancels

\* The callers whose futures are before that of c.
AheadOf(c) == {d \in Callers : \E i, j \in DOMAIN waiting : i < j /\ waiting[i] = d /\ waiting[j] = c}

\* acquire() is first come, first served: while a caller waits no other gets a
\* slot, at once or from the queue, except those ahead of it, and nobody
\* comes to be ahead of it that was not when it came.
NoOvertaking ==
    [][ \A c, d \in Callers :
          c # d /\ pc[c] = "queued" /\ pc'[c] = "queued" =>
            /\ d \notin SlotUsers /\ pc'[d] \in {"granted", "holding"} => d \in AheadOf(c)
            /\ d \in AheadOf(c)' => d \in AheadOf(c) ]_vars

\* A queued caller gets its slot or is cancelled, as long as there were fewer
\* cancellations than slots.
WaiterProgress ==
    \A c \in Callers : pc[c] = "queued" ~> (pc[c] # "queued" \/ cancels >= MaxConcurrency)

\* What release() says of itself (rate_limiter.py:37: it "releases an active
\* execution slot and unblocks the next queued request"): a release while
\* callers wait lets one of them go on.
ReleaseUnblocksNext ==
    [][ \A c \in Callers :
          /\ Release(c)
          /\ \E d \in Callers : pc[d] = "queued"
          => \E d \in Callers : pc[d] = "queued" /\ pc'[d] = "granted" ]_vars

\* The limiter is what Admission says: a caller with a slot, granted or taken, is
\* inside, and a suspended caller is in the line, where its future is in _waiting.
Suspended == {c \in Callers : pc[c] = "queued"}

Ahead == {p \in Callers \X Callers : p[1] \in AheadOf(p[2])}

Admitting == INSTANCE Admission WITH
    Tasks <- Callers, Places <- MaxConcurrency, LineLength <- MaxQueueDepth,
    inside <- SlotUsers, line <- Suspended,
    before <- Ahead, excess <- strays

\* Callers get their slots as Admission lets them in: nobody enters while others
\* wait, the line moves in order, and each task leaves once.
ImplementsAdmission == Admitting!Spec

=============================================================================
