----------------------------- MODULE MCChannel -----------------------------
(* Instances of Channel for TLC. *)
EXTENDS Channel

CONSTANTS u1, s1

=============================================================================
