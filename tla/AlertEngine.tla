----------------------------- MODULE AlertEngine -----------------------------
(***************************************************************************)
(* AlertEngine: the polling thread that evaluates rules on what drift()    *)
(* of the DriftSketch reports and posts webhooks, and start() and stop(),  *)
(* called by the server's lifespan.  stop() waits two seconds at most, so  *)
(* a thread that is posting may outlive it.  The reports are arbitrary     *)
(* (DriftSketch has their own model), and so is the CUSUM score of an      *)
(* AutoPilotRule; an AlertRule's condition is computed from the report.    *)
(***************************************************************************)
EXTENDS Naturals, Integers, Sequences, FiniteSets

CONSTANTS
    AERule,      \* the rules: [name, auto, min, samples, sustained, direction]
    AEReport,    \* what drift() may report: [direction, pct, samples]
    AELoop,      \* slots for polling threads
    AERefire,    \* ticks after which a firing alert is sent again (3600 s)
    AEMaxPolls,  \* bound: evaluations
    AEMaxNow     \* bound: ticks of the clock

ASSUME AEAssumption == IsFiniteSet(AERule) /\ \A r \in AERule : r.sustained \in Nat

VARIABLES
    aeLoop,    \* per thread: [pc, seen, queue]
    aeStop,    \* _stop_event
    aeState,   \* per rule: [status, count, last]
    aeAt,      \* what the receiver last heard of a rule
    aeHeard,   \* ghost: the last post about a rule was answered
    aeRun,     \* ghost: violating evaluations in a row
    aePolls,   \* evaluations so far
    aeNow      \* time.time()

aeVars == <<aeLoop, aeStop, aeState, aeAt, aeHeard, aeRun, aePolls, aeNow>>
AENothing == [direction |-> "none", pct |-> 0, samples |-> 0]
AEDead == [pc |-> "dead", seen |-> AENothing, queue |-> <<>>]

AEInit ==
    /\ aeLoop = [l \in AELoop |-> AEDead] /\ aeStop = FALSE
    /\ aeState = [r \in AERule |-> [status |-> "OK", count |-> 0, last |-> 0]]
    /\ aeAt = [r \in AERule |-> "none"] /\ aeHeard = [r \in AERule |-> FALSE]
    /\ aeRun = [r \in AERule |-> 0] /\ aePolls = 0 /\ aeNow = 0

AELive == {l \in AELoop : aeLoop[l].pc # "dead"}

(* start: nothing while the thread lives, and then the event stays set.    *)
StartLoop ==
    /\ \E l \in AELoop \ AELive :
         aeLoop' = [aeLoop EXCEPT ![l] = [pc |-> "check", seen |-> AENothing, queue |-> <<>>]]
    /\ aeStop' = FALSE
    /\ UNCHANGED <<aeNow, aeState, aeAt, aeHeard, aeRun, aePolls>>
AEStart == AELive = {} /\ StartLoop
AEStopCall ==
    /\ ~aeStop /\ aeStop' = TRUE
    /\ UNCHANGED <<aeNow, aeLoop, aeState, aeAt, aeHeard, aeRun, aePolls>>

(* _run_loop: the event is tested before each evaluation and ends a wait.  *)
LoopEnds(l) ==
    /\ aeLoop[l].pc = "check" /\ aeStop
    /\ aeLoop' = [aeLoop EXCEPT ![l] = AEDead]
    /\ UNCHANGED <<aeNow, aeStop, aeState, aeAt, aeHeard, aeRun, aePolls>>

(* evaluate, first part: what ds.drift() reports of the dimension.         *)
Poll(l) ==
    /\ aeLoop[l].pc = "check" /\ ~aeStop /\ aePolls < AEMaxPolls
    /\ aePolls' = aePolls + 1
    /\ \E seen \in AEReport \cup {AENothing} :
         aeLoop' = [aeLoop EXCEPT ![l] = [pc |-> "apply", seen |-> seen, queue |-> @.queue]]
    /\ UNCHANGED <<aeNow, aeStop, aeState, aeAt, aeHeard, aeRun>>

(* A rule's condition on what was seen; an AutoPilotRule on a dimension    *)
(* without drift is not evaluated at all when it watches every dimension.  *)
MayViolate(r, seen) ==
    /\ seen.direction # "none" /\ seen.samples >= r.samples
    /\ r.direction = "any" \/ seen.direction = r.direction
    /\ r.auto \/ seen.pct >= r.min
Evaluated(r, seen) == ~r.auto \/ seen.direction # "none"

(* One rule's state after an evaluation, and the notice it causes.         *)
Violating(r, s) ==
    IF s.count + 1 < r.sustained
    THEN [status |-> "PENDING", count |-> s.count + 1, last |-> s.last, say |-> "nothing"]
    ELSE IF s.status # "FIRING" \/ aeNow - s.last >= AERefire
    THEN [status |-> "FIRING", count |-> s.count + 1, last |-> aeNow, say |-> "firing"]
    ELSE [status |-> "FIRING", count |-> s.count + 1, last |-> s.last, say |-> "nothing"]
QuietKeepsCount(s) == [status |-> "OK", count |-> s.count, last |-> s.last,
                       say |-> IF s.status = "FIRING" THEN "resolved" ELSE "nothing"]
Quiet(s) == [status |-> "OK", count |-> 0, last |-> s.last,
             say |-> IF s.status = "FIRING" THEN "resolved" ELSE "nothing"]

(* The state of every rule after an evaluation that saw `seen` and found   *)
(* the rules of `hit` violated.                                            *)
Evaluate(seen, hit) ==
    [r \in AERule |->
        IF ~Evaluated(r, seen) THEN [status |-> aeState[r].status, count |-> aeState[r].count,
                                     last |-> aeState[r].last, say |-> "nothing"]
        ELSE IF r \in hit THEN Violating(r, aeState[r]) ELSE Quiet(aeState[r])]

(* The rules to be told of, in some order, each with what is said of it.   *)
InOrder(told) ==
    CHOOSE f \in [1 .. Cardinality(told) -> told] :
        \A i, j \in 1 .. Cardinality(told) : f[i] = f[j] => i = j
Notices(after) ==
    LET told == {r \in AERule : after[r].say # "nothing"}
    IN  [i \in 1 .. Cardinality(told) |-> <<InOrder(told)[i], after[InOrder(told)[i]].say>>]

(* evaluate, second part: all rules under the lock; then the posts.        *)
Apply(l) ==
    /\ aeLoop[l].pc = "apply"
    /\ \E hit \in SUBSET {r \in AERule : MayViolate(r, aeLoop[l].seen)} :
         LET after == Evaluate(aeLoop[l].seen, hit)
         IN  /\ {r \in AERule : ~r.auto /\ MayViolate(r, aeLoop[l].seen)} \subseteq hit
             /\ aeState' = [r \in AERule |-> [status |-> after[r].status,
                                              count |-> after[r].count, last |-> after[r].last]]
             /\ aeLoop' = [aeLoop EXCEPT ![l] = [pc |-> "send", seen |-> AENothing,
                                                 queue |-> Notices(after)]]
             /\ aeRun' = [r \in AERule |-> IF ~Evaluated(r, aeLoop[l].seen) THEN aeRun[r]
                                           ELSE IF r \in hit THEN aeRun[r] + 1 ELSE 0]
    /\ UNCHANGED <<aeNow, aeStop, aeAt, aeHeard, aePolls>>

(* send_webhook with its three attempts: answered, or not answered and     *)
(* received or not.  With the queue empty the thread waits and goes on.    *)
Send(l, answered, reached) ==
    /\ aeLoop[l].pc = "send" /\ aeLoop[l].queue # <<>> /\ (answered => reached)
    /\ LET m == Head(aeLoop[l].queue)
       IN  /\ aeAt' = [aeAt EXCEPT ![m[1]] = IF reached THEN m[2] ELSE @]
           /\ aeHeard' = [aeHeard EXCEPT ![m[1]] = answered]
    /\ aeLoop' = [aeLoop EXCEPT ![l] = [pc |-> "send", seen |-> @.seen, queue |-> Tail(@.queue)]]
    /\ UNCHANGED <<aeNow, aeStop, aeState, aeRun, aePolls>>
Wait(l) ==
    /\ aeLoop[l].pc = "send" /\ aeLoop[l].queue = <<>>
    /\ aeLoop' = [aeLoop EXCEPT ![l] = [pc |-> "check", seen |-> @.seen, queue |-> @.queue]]
    /\ UNCHANGED <<aeNow, aeStop, aeState, aeAt, aeHeard, aeRun, aePolls>>

AELoopStep(l) ==
    \/ LoopEnds(l) \/ Poll(l) \/ Apply(l) \/ Wait(l)
    \/ \E answered, reached \in BOOLEAN : Send(l, answered, reached)

AETick == /\ aeNow < AEMaxNow /\ aeNow' = aeNow + 1
          /\ UNCHANGED <<aeLoop, aeStop, aeState, aeAt, aeHeard, aeRun, aePolls>>

AENext == AETick \/ AEStart \/ AEStopCall \/ \E l \in AELoop : AELoopStep(l)

-----------------------------------------------------------------------------
(* stop() followed by start() never leaves two polling threads at work on  *)
(* the same rule states.                                                   *)
AEOneLoop == Cardinality(AELive) <= 1

(* An alert fires only after `sustained` violating evaluations in a row,   *)
(* across stops and starts.                                                *)
AESustained ==
    \A r \in AERule : aeState[r].status = "FIRING" => aeRun[r] >= r.sustained

(* Between evaluations the receiver knows the state of a rule, provided    *)
(* its last post about it was answered: every firing is told, and every    *)
(* recovery after it.                                                      *)
AEReceiverAgrees ==
    (\A l \in AELoop : aeLoop[l].pc \in {"dead", "check"}) =>
        \A r \in AERule : aeHeard[r] =>
            aeAt[r] = IF aeState[r].status = "FIRING" THEN "firing" ELSE "resolved"

(* stop() was called and a polling thread is alive: it comes to its end,   *)
(* unless the engine is started again.                                     *)
AEPending == aeStop /\ AELive # {}

(* What AlertEngine promises: one polling thread, alerts for sustained     *)
(* violations only, and a receiver that agrees with the rule's state.      *)
AESafe == AEOneLoop /\ AESustained /\ AEReceiverAgrees

=============================================================================
