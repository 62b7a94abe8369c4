----------------------------- MODULE ExitCodes -----------------------------
(***************************************************************************)
(* The two tools whose exit code a pipeline acts on, side by side: the CI  *)
(* regression gate and the database check.  They share no state.           *)
(***************************************************************************)
EXTENDS RegressionGate, DbHealth

(* Whoever acts on the exit code of a tool acts on evidence: the           *)
(* regression gate (CISafe) and the database check (DHSafe) pass only what *)
(* they have read and compared, and clean up behind them.                  *)
ToolsHonest == CISafe /\ DHSafe

=============================================================================
