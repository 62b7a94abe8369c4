-------------------------------- MODULE Rbac --------------------------------
(***************************************************************************)
(* Role-based access: RBACEnforcer.check decides from the configured       *)
(* grants and writes one audit line under the logger's lock before it      *)
(* answers; close() takes no lock.                                         *)
(***************************************************************************)
EXTENDS Naturals, Sequences, SequencesExt, FiniteSets

CONSTANTS
    RBThread,    \* threads that call check()
    RBTokens,    \* token ids
    RBSpaces,    \* namespaces
    RBGrants,    \* the grants a configuration may list
    RBMaxGrants, \* bound: grants of a configuration
    RBMaxChecks  \* bound: calls of check()

ASSUME RBAssumption == IsFiniteSet(RBThread) /\ RBMaxGrants \in Nat

VARIABLES
    rbConfig,  \* [enabled, grants, file]
    rbT,       \* per thread: [pc, req, verdict]
    rbLock,    \* the logger's lock: a thread, or "free"
    rbFile,    \* _file: "open", "closing" (closed, attribute still set) or "none"
    rbOut,     \* lines in the audit file and on stdout: [to, req, verdict]
    rbDone,    \* ghost: [req, verdict] of the calls that returned
    rbCalls

rbVars == <<rbConfig, rbT, rbLock, rbFile, rbOut, rbDone, rbCalls>>
Permissions == {"ingest", "query", "admin"}
RolePermissions == [admin |-> Permissions, ingest |-> {"ingest"}, read |-> {"query"},
                    read_write |-> {"ingest", "query"}]
RBNoRequest == [token |-> "", perm |-> "", space |-> ""]
RBFree == [pc |-> "idle", req |-> RBNoRequest, verdict |-> ""]

RBInit ==
    /\ rbConfig \in {[enabled |-> e, file |-> f, grants |-> g] : e \in BOOLEAN, f \in BOOLEAN,
                       g \in UNION {[1 .. n -> RBGrants] : n \in 0 .. RBMaxGrants}}
    /\ rbT = [t \in RBThread |-> RBFree] /\ rbLock = "free"
    /\ rbFile = IF rbConfig.file THEN "open" ELSE "none"
    /\ rbOut = <<>> /\ rbDone = <<>> /\ rbCalls = 0

-----------------------------------------------------------------------------
allows_namespace(g, space) ==
    IF g.spaces = {} THEN g.role = "admin" ELSE space \in g.spaces \/ "*" \in g.spaces
has_permission(g, perm) == perm \in RolePermissions[g.role]

(* token_grant: the first grant of the token; others are never looked at.  *)
GrantsOf(grants, token) == {i \in DOMAIN grants : grants[i].token = token}
token_grant(grants, token) == grants[Min(GrantsOf(grants, token))]

(* check: the verdict of a request, ALLOW or DENY.                         *)
Decide(grants, enabled, req) ==
    LET g == token_grant(grants, req.token)
    IN  IF ~enabled THEN "ALLOW"
        ELSE IF GrantsOf(grants, req.token) = {} THEN "DENY"
        ELSE IF allows_namespace(g, req.space) /\ has_permission(g, req.perm)
        THEN "ALLOW" ELSE "DENY"

check(t, req) ==
    /\ rbT[t].pc = "idle" /\ rbCalls < RBMaxChecks /\ rbCalls' = rbCalls + 1
    /\ rbT' = [rbT EXCEPT ![t] = [pc |-> "log", req |-> req,
                                  verdict |-> Decide(rbConfig.grants, rbConfig.enabled, req)]]
    /\ UNCHANGED <<rbConfig, rbLock, rbFile, rbOut, rbDone>>

(* log: the line goes out under the lock; on a file that close() has       *)
(* closed the write raises, and so does check().                           *)
LogAcquire(t) ==
    /\ rbT[t].pc = "log" /\ rbLock = "free" /\ rbLock' = t
    /\ rbT' = [rbT EXCEPT ![t].pc = "write"]
    /\ UNCHANGED <<rbConfig, rbFile, rbOut, rbDone, rbCalls>>
Line(t, to) == [to |-> to, req |-> rbT[t].req, verdict |-> rbT[t].verdict]
LogWriteDropsWhenClosed(t) ==           \* an audit line that cannot be written is skipped
    /\ rbT[t].pc = "write" /\ rbLock' = "free"
    /\ rbOut' = IF rbFile = "closing" THEN rbOut
                ELSE Append(rbOut, Line(t, IF rbFile = "open" THEN "file" ELSE "stdout"))
    /\ rbT' = [rbT EXCEPT ![t].pc = "return"]
    /\ UNCHANGED <<rbConfig, rbFile, rbDone, rbCalls>>
LogWrite(t) ==
    /\ rbT[t].pc = "write" /\ rbLock' = "free"
    /\ rbOut' = IF rbFile = "closing" THEN rbOut
                ELSE Append(rbOut, Line(t, IF rbFile = "open" THEN "file" ELSE "stdout"))
    /\ rbT' = [rbT EXCEPT ![t].pc = IF rbFile = "closing" THEN "raise" ELSE "return"]
    /\ UNCHANGED <<rbConfig, rbFile, rbDone, rbCalls>>
Answer(t) ==
    /\ rbT[t].pc \in {"return", "raise"}
    /\ rbDone' = IF rbT[t].pc = "raise" THEN rbDone
                 ELSE Append(rbDone, [req |-> rbT[t].req, verdict |-> rbT[t].verdict])
    /\ rbT' = [rbT EXCEPT ![t] = RBFree]
    /\ UNCHANGED <<rbConfig, rbLock, rbFile, rbOut, rbCalls>>

(* close: the file is closed, then the attribute is cleared.               *)
CloseFile ==
    /\ rbFile = "open" /\ rbFile' = "closing"
    /\ UNCHANGED <<rbConfig, rbT, rbLock, rbOut, rbDone, rbCalls>>
ClearFile ==
    /\ rbFile = "closing" /\ rbFile' = "none"
    /\ UNCHANGED <<rbConfig, rbT, rbLock, rbOut, rbDone, rbCalls>>

RBRequests == [token : RBTokens, perm : Permissions, space : RBSpaces]
RBNext ==
    \/ CloseFile \/ ClearFile
    \/ \E t \in RBThread : LogAcquire(t) \/ LogWrite(t) \/ Answer(t) \/ \E req \in RBRequests : check(t, req)

-----------------------------------------------------------------------------
(* The lines, or the answers, that carry a request and a verdict, and the  *)
(* threads that have written such a line and not returned yet.             *)
Hits(s, req, v) == {i \in DOMAIN s : s[i].req = req /\ s[i].verdict = v}
Pending(req, v) ==
    {t \in RBThread : rbT[t].pc = "return" /\ rbT[t].req = req /\ rbT[t].verdict = v}

(* Every answer was audited: each call that returned has a line of its own *)
(* with the same request and verdict, even when close() runs meanwhile;    *)
(* and once nothing is on its way there are no lines beyond these.         *)
RBAudited ==
    \A req \in RBRequests, v \in {"ALLOW", "DENY"} :
        Cardinality(Hits(rbOut, req, v)) =
            Cardinality(Hits(rbDone, req, v)) + Cardinality(Pending(req, v))

(* A token is judged by its first grant alone: whatever is appended to the *)
(* configuration, the verdicts for tokens it already names stay the same.  *)
RBFirstGrantRules ==
    \A g \in RBGrants, req \in RBRequests :
        GrantsOf(rbConfig.grants, req.token) # {} =>
            Decide(Append(rbConfig.grants, g), TRUE, req) = Decide(rbConfig.grants, TRUE, req)

(* What access control promises: every verdict is audited, and grants that *)
(* are added do not change verdicts that were given.                       *)
RBSafe == RBAudited /\ RBFirstGrantRules

=============================================================================
