---------------------------- MODULE MCMeshSync ----------------------------
(***************************************************************************)
(* Small instances of MeshSync for TLC.                                    *)
(***************************************************************************)
EXTENDS MeshSync, TLC

CONSTANTS a, b, c

\* The nodes that are no origins are interchangeable.
Relays == Permutations(Node \ Origin)

=============================================================================
