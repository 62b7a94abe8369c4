-------------------------------- MODULE Sums --------------------------------
(***************************************************************************)
(* Sums over finite sets, for the counters of the sketches.                *)
(***************************************************************************)
EXTENDS Integers, FiniteSets

(* The sum of f over the set S.                                            *)
SumOf(f, S) ==
    LET sum[T \in SUBSET S] ==
            IF T = {} THEN 0 ELSE LET x == CHOOSE y \in T : TRUE IN f[x] + sum[T \ {x}]
    IN  sum[S]

=============================================================================
