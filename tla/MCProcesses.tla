----------------------------- MODULE MCProcesses ----------------------------
(***************************************************************************)
(* The components that are threads, loops or processes of their own and    *)
(* whose calls must end: alert manager, drift alert loop, checkpoint       *)
(* writer, Kubernetes operator, clients and eBPF collector. They share no  *)
(* state in the process, so a behaviour picks one component and runs it    *)
(* alone, the others rest in their initial state.                          *)
(***************************************************************************)
EXTENDS AlertManager, AlertEngine, Checkpoint, K8sOperator, Clients,
        EbpfCollector

\* Alerts: two that are routed and an invalid one; a silence that matches and
\* an invalid one; a stopping and a continuing route; a default channel that
\* is not configured.
Severities == [a \in {"a1", "a2", "bad"} |->
                 CASE a = "a1" -> "critical" [] a = "a2" -> "info" [] a = "bad" -> "loud"]
Silences == {[starts |-> 1, ends |-> 2, match |-> "critical"],
             [starts |-> 1, ends |-> 1, match |-> ""]}
Routes == {[match |-> "critical", channels |-> <<"pager", "slack">>, continue |-> FALSE],
           [match |-> "", channels |-> <<"pager">>, continue |-> TRUE]}
Channels == [c \in {"pager", "slack"} |-> [send_resolved |-> c = "pager"]]
DefaultChannels == <<"gone">>

\* Drift rules: a sustained one with a direction, an automatic one.
DriftRules ==
    {[name |-> "lat", auto |-> FALSE, min |-> 50, samples |-> 1, sustained |-> 2, direction |-> "up"],
     [name |-> "auto", auto |-> TRUE, min |-> 0, samples |-> 1, sustained |-> 1, direction |-> "any"]}
DriftReports == {[direction |-> "up", pct |-> 100, samples |-> 2],
                 [direction |-> "down", pct |-> -50, samples |-> 2],
                 [direction |-> "up", pct |-> 10, samples |-> 2]}

\* Custom resources: edited, with and without limits, and invalid.
Resource(v, r, b) == [val |-> v, res |-> r, bad |-> b]
Resources == {Resource(1, {}, FALSE), Resource(2, {"cpu"}, FALSE), Resource(1, {}, TRUE)}
ResourceOrder == <<"c1", "c2">>
NoResources == [c \in {"c1", "c2"} |-> KOGone]
EarlyResources == {NoResources, [NoResources EXCEPT !["c1"] = Resource(1, {}, FALSE)]}

Boundaries == <<2, 3, 5, 9>>

-----------------------------------------------------------------------------
VARIABLE running   \* the component that takes its steps

Component == {"alert manager", "alert engine", "checkpoint", "operator",
              "client", "collector"}

Idle(c, choice) == running # c => choice

Init ==
    /\ running \in Component
    /\ AMInit
    /\ AEInit
    /\ CKInit
    /\ Idle("operator", koDry = FALSE /\ koCR = NoResources)
    /\ KOInit
    /\ Idle("client", clLang = "python")
    /\ CLInit
    /\ EBInit

OthersAM == <<aeVars, ckVars, koVars, clVars, ebVars>>
OthersAE == <<amVars, ckVars, koVars, clVars, ebVars>>
OthersCK == <<amVars, aeVars, koVars, clVars, ebVars>>
OthersKO == <<amVars, aeVars, ckVars, clVars, ebVars>>
OthersCL == <<amVars, aeVars, ckVars, koVars, ebVars>>
OthersEB == <<amVars, aeVars, ckVars, koVars, clVars>>

vars == <<running, amVars, OthersAM>>

Next ==
    /\ UNCHANGED running
    /\ \/ running = "alert manager" /\ AMNext /\ UNCHANGED OthersAM
       \/ running = "alert engine" /\ AENext /\ UNCHANGED OthersAE
       \/ running = "checkpoint" /\ CKNext /\ UNCHANGED OthersCK
       \/ running = "operator" /\ KONext /\ UNCHANGED OthersKO
       \/ running = "client" /\ CLNext /\ UNCHANGED OthersCL
       \/ running = "collector" /\ EBNext /\ UNCHANGED OthersEB

\* Weak fairness of the steps that the host keeps scheduling: a thread in
\* the middle of a call, the polling loop, the operator loop.
Fairness ==
    /\ \A t \in AMThread : WF_vars(/\ running = "alert manager" /\ AMStep(t)
                                   /\ UNCHANGED <<running, OthersAM>>)
    /\ \A l \in AELoop : WF_vars(/\ running = "alert engine" /\ AELoopStep(l)
                                 /\ UNCHANGED <<running, OthersAE>>)
    /\ \A t \in CKThread : WF_vars(/\ running = "checkpoint" /\ CKStep(t)
                                   /\ UNCHANGED <<running, OthersCK>>)
    /\ WF_vars(/\ running = "operator" /\ OperatorStep
               /\ UNCHANGED <<running, OthersKO>>)
    /\ \A c \in CLCall : WF_vars(/\ running = "client" /\ CLStep(c)
                                 /\ UNCHANGED <<running, OthersCL>>)
    /\ WF_vars(/\ running = "collector" /\ PollStep
               /\ UNCHANGED <<running, OthersEB>>)

Spec == Init /\ [][Next]_vars /\ Fairness

-----------------------------------------------------------------------------
\* Actor a of the running component has a call to finish, or a loop to end.
\* The components at rest have none.
Actors == {"t1", "t2"}
Pending(a) ==
    \/ a \in AMThread /\ AMPending(a)
    \/ a \in CKThread /\ CKPending(a)
    \/ a \in CLCall /\ CLPending(a)
    \/ AEPending \/ EBPending

\* Nobody waits for ever: every call of the alert manager, of the log and its
\* checkpoint, and of a client comes to its end although receivers, disks
\* and servers fail, and the loops of the alert engine and of the collector
\* end once they are told to stop, or are started again.
CallsEnd == \A a \in Actors : Pending(a) ~> ~Pending(a)

=============================================================================
