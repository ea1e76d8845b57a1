----------------------------- MODULE FrameStream -----------------------------
(***************************************************************************)
(* What the codec makes of a byte stream: the frames that were sent, in    *)
(* their order, none torn, merged or invented.  No bytes, no lengths.      *)
(* Framing implements it.                                                  *)
(***************************************************************************)
EXTENDS Naturals, Sequences

CONSTANT Frame    \* what can be sent

VARIABLES
    sent,      \* frames sent on a connection that was sound
    got,       \* those of them the reader was given
    sound,     \* nothing but frames was sent so far
    broken,    \* the connection is broken
    over       \* the reader gave the stream up

Init ==
    /\ sent = <<>> /\ got = <<>>
    /\ sound = TRUE /\ broken = FALSE /\ over = FALSE

Send(f) ==
    /\ sound /\ ~broken
    /\ sent' = Append(sent, f)
    /\ UNCHANGED <<got, sound, broken, over>>

\* The sender breaks the protocol, or the connection breaks.
Spoil == sound' = FALSE /\ UNCHANGED <<sent, got, broken, over>>

Break == broken' = TRUE /\ UNCHANGED <<sent, got, sound, over>>

Receive ==
    /\ ~over
    /\ Len(got) < Len(sent)
    /\ got' = Append(got, sent[Len(got) + 1])
    /\ UNCHANGED <<sent, sound, broken, over>>

\* The reader gives up: on a broken connection at any frame, on a sound one
\* never, and on one that was spoilt not before it has every frame that came first.
GiveUp ==
    /\ ~over
    /\ broken \/ (~sound /\ got = sent)
    /\ over' = TRUE
    /\ UNCHANGED <<sent, got, sound, broken>>

Next == (\E f \in Frame : Send(f)) \/ Spoil \/ Break \/ Receive \/ GiveUp

vars == <<sent, got, sound, broken, over>>

\* What was sent is received in the end, unless the stream is given up.
Spec == Init /\ [][Next]_vars /\ WF_vars(Receive)

=============================================================================
