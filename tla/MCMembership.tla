---------------------------- MODULE MCMembership ----------------------------
(***************************************************************************)
(* Small instances of Membership for TLC.                                  *)
(***************************************************************************)
EXTENDS Membership

CONSTANTS a, b, c

\* Two nodes that name each other.
MutualSeeds == [n \in Node |-> Node \ {n}]

\* Every node joins through a.
JoinThroughA == [n \in Node |-> {a} \ {n}]

AllowAll == [n \in Node |-> Node]

=============================================================================
