----------------------------- MODULE MCGateway -----------------------------
(* Instances of Gateway for TLC.                                           *)
EXTENDS Gateway, TLC

CONSTANTS p1, p2, search, render

\* Both peers offer one tool, one of them another.
TwoOffers == p1 :> {search} @@ p2 :> {search, render}

TwoPeers == <<p1, p2>>

\* k_peers below zero: all peers but one are asked, which may be none.
AllButOne == {-1}
=============================================================================
