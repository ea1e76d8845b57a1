------------------------------- MODULE Requests -------------------------------
(***************************************************************************)
(* What the callers of P2PChannel see of it: requests, each with an answer *)
(* of its own, one piece or a stream of pieces.  No tables, no frames, no  *)
(* tasks.  Channel implements it.                                          *)
(*                                                                         *)
(* A request gets what was sent in answer to it and nothing else, from the *)
(* first piece on and without a gap, or it is told that it failed; and it  *)
(* is over once.                                                           *)
(***************************************************************************)
EXTENDS Integers

CONSTANTS Unary, Streams, LastChunk

VARIABLES
    state,     \* state[c]: new, open, or how it ended
    answered,  \* answered[c]: how many pieces of its answer were sent
    taken      \* taken[c]: how many of them it was given

All == Unary \cup Streams

Init ==
    /\ state = [c \in All |-> "new"]
    /\ answered = [c \in All |-> 0]
    /\ taken = [c \in All |-> 0]

Become(c, st) == state' = [state EXCEPT ![c] = st]

\* A request begins, or is refused, or cannot be sent.
Begin(c) ==
    /\ state[c] = "new"
    /\ \E st \in {"open", "refused", "unsent"} : Become(c, st)
    /\ UNCHANGED <<answered, taken>>

\* The peer sends the next piece of an answer; it knows the request by then.
Send(c) ==
    /\ state[c] \notin {"new", "refused", "unsent"}
    /\ answered[c] < (IF c \in Unary THEN 1 ELSE LastChunk)
    /\ answered' = [answered EXCEPT ![c] = @ + 1]
    /\ UNCHANGED <<state, taken>>

\* A request with one answer is given it and is over.
Respond(c) ==
    /\ c \in Unary
    /\ state[c] = "open"
    /\ answered[c] = 1
    /\ Become(c, "response")
    /\ UNCHANGED <<answered, taken>>

\* A stream is given its next piece; with the last one it is complete.
Take(c) ==
    /\ c \in Streams
    /\ state[c] = "open"
    /\ taken[c] < answered[c]
    /\ taken' = [taken EXCEPT ![c] = @ + 1]
    /\ IF taken[c] + 1 = LastChunk THEN Become(c, "complete") ELSE UNCHANGED state
    /\ UNCHANGED answered

\* A request fails.  A stream that the connection cuts short just ends.
Fail(c) ==
    /\ state[c] = "open"
    /\ UNCHANGED <<answered, taken>>
    /\ \/ \E why \in {"senderror", "timeout", "cancelled"} : Become(c, why)
       \/ c \in Unary /\ Become(c, "reset")
       \/ c \in Streams /\ Become(c, "ended")

Next == \E c \in All : Begin(c) \/ Send(c) \/ Respond(c) \/ Take(c) \/ Fail(c)

Spec == Init /\ [][Next]_<<state, answered, taken>>

=============================================================================
