---------------------------- MODULE MCMembership ----------------------------
(* Instances of Membership for TLC.                                        *)
EXTENDS Membership, TLC

CONSTANTS n1, n2, n3, n4

\* n2 is configured with n1's address, n1 with none.
TwoSeeds == n1 :> {} @@ n2 :> {n1}

\* n1 is the bootstrap node of all the others.
Bootstrap == [n \in Nodes |-> {n1} \ {n}]

\* Every node is configured with the address of n1, n1 included.
OneSeed == [n \in Nodes |-> {n1}]
=============================================================================
