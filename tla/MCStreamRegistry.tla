-------------------------- MODULE MCStreamRegistry --------------------------
(***************************************************************************)
(* Small instances of StreamRegistry for TLC.                              *)
(***************************************************************************)
EXTENDS StreamRegistry, TLC

CONSTANTS k1, k2, k3, n1, n2, d1, d2

\* One namespace.
OneNamespace == [k \in Key |-> n1]

\* k3 lives in a namespace of its own.
TwoNamespaces == [k \in Key |-> IF k = k3 THEN n2 ELSE n1]

=============================================================================
