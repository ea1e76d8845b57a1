------------------------------ MODULE Admission ------------------------------
(***************************************************************************)
(* What a caller of ConcurrencyRateLimiter may rely on, without counters,  *)
(* futures or positions in a list: a place inside for a limited number of  *)
(* tasks, and behind it a line of limited length that is served in order.  *)
(* RateLimiter implements it.                                              *)
(*                                                                         *)
(* A place may be lost: a task may leave and let nobody in although others *)
(* wait.  A place is granted beyond the limit only for each time somebody  *)
(* who was not inside said that he left.                                   *)
(***************************************************************************)
EXTENDS Integers, FiniteSets

CONSTANTS Tasks, Places, LineLength

VARIABLES
    inside,     \* the tasks that have a place
    line,       \* the tasks that wait
    before,     \* before: the pairs <<s, t>> of waiting tasks with s ahead of t
    excess      \* how often a task left that was not inside

Init ==
    /\ inside = {}
    /\ line = {}
    /\ before = {}
    /\ excess = 0

\* The pairs that do not concern t.
Without(t) == {p \in before : p[1] # t /\ p[2] # t}

\* t is the next to be let in.
First(t) == t \in line /\ \A s \in line : <<s, t>> \notin before

\* A newcomer goes in, past nobody.
Enter(t) ==
    /\ t \notin inside \cup line
    /\ line = {}
    /\ Cardinality(inside) < Places + excess
    /\ inside' = inside \cup {t}
    /\ UNCHANGED <<line, before, excess>>

\* A newcomer joins the line, behind everybody.
Join(t) ==
    /\ t \notin inside \cup line
    /\ Cardinality(line) < LineLength
    /\ line' = line \cup {t}
    /\ before' = before \cup {<<s, t>> : s \in line}
    /\ UNCHANGED <<inside, excess>>

\* A task leaves, and nobody takes its place.
Leave(t) ==
    /\ t \in inside
    /\ inside' = inside \ {t}
    /\ UNCHANGED <<line, before, excess>>

\* A task leaves, and the first of the line takes its place.
PassOn(t, next) ==
    /\ t \in inside
    /\ First(next)
    /\ inside' = (inside \ {t}) \cup {next}
    /\ line' = line \ {next}
    /\ before' = Without(next)
    /\ UNCHANGED excess

\* A task gives up waiting.
GiveUp(t) ==
    /\ t \in line
    /\ line' = line \ {t}
    /\ before' = Without(t)
    /\ UNCHANGED <<inside, excess>>

\* Somebody who is not inside says that he left; the first of the line may be
\* let in for it.
FalseLeave ==
    /\ excess' = excess + 1
    /\ \/ UNCHANGED <<inside, line, before>>
       \/ \E next \in Tasks :
            /\ First(next)
            /\ inside' = inside \cup {next}
            /\ line' = line \ {next}
            /\ before' = Without(next)

Next ==
    \/ \E t \in Tasks : Enter(t) \/ Join(t) \/ Leave(t) \/ GiveUp(t)
    \/ \E t, next \in Tasks : PassOn(t, next)
    \/ FalseLeave

Spec == Init /\ [][Next]_<<inside, line, before, excess>>

=============================================================================
