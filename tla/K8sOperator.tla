----------------------------- MODULE K8sOperator -----------------------------
(***************************************************************************)
(* SketchLogOperator: it lists the SketchLogClusters and, one after the    *)
(* other, patches or creates the ConfigMap, Deployment and Service of each *)
(* and writes its status.  Users edit and delete clusters and objects      *)
(* between any two requests, and requests may fail.  A specification has a *)
(* scalar part and a set of resource limits; a merge patch replaces the    *)
(* first and can only add to the second.  A specification whose replicas   *)
(* are no number raises what only run() catches.                           *)
(***************************************************************************)
EXTENDS Naturals, Sequences, SequencesExt, FiniteSets

CONSTANTS
    KOOrder,      \* the names of clusters, in the order of a list
    KOSpec,       \* specifications: [val, res, bad]
    KOStart,      \* what users may have created before the operator starts
    KODry,        \* the values of dry_run
    KOMaxEdits,   \* bound: changes by users
    KOMaxFaults   \* bound: requests that fail

VARIABLES
    koDry,      \* dry_run
    koCR,       \* per cluster: its specification, or KOGone
    koObj,      \* per cluster and kind: the object, or KOGone
    koStatus,   \* per cluster: phase
    koOp,       \* the operator: [pc, todo, kind, post, failed]
    koStop,     \* _stop_event
    koEdits, koFaults,
    koTouched   \* ghost: clusters a user touched since the operator listed them

koVars == <<koDry, koCR, koObj, koStatus, koOp, koStop, koEdits, koFaults, koTouched>>
KOGone == [val |-> 0, res |-> {}, bad |-> FALSE]
KOKinds == <<"configmap", "deployment", "service">>

ASSUME KOAssumption ==
    /\ KOOrder \in Seq(ToSet(KOOrder))
    /\ KOStart \subseteq [ToSet(KOOrder) -> KOSpec \cup {KOGone}]

KOWait == [pc |-> "wait", todo |-> <<>>, kind |-> 1, post |-> FALSE, failed |-> FALSE]

KOInit ==
    /\ koDry \in KODry
    /\ koCR \in KOStart
    /\ koObj = [c \in ToSet(KOOrder) |-> [k \in ToSet(KOKinds) |-> KOGone]]
    /\ koStatus = [c \in ToSet(KOOrder) |-> "none"]
    /\ koOp = KOWait /\ koStop = FALSE /\ koEdits = 0 /\ koFaults = 0 /\ koTouched = {}

Fault == koFaults < KOMaxFaults /\ koFaults' = koFaults + 1
NoFault == UNCHANGED koFaults

-----------------------------------------------------------------------------
(* Users.                                                                  *)
KOEdit(c, s) ==
    /\ koEdits < KOMaxEdits /\ koEdits' = koEdits + 1 /\ koCR[c] # s
    /\ koCR' = [koCR EXCEPT ![c] = s] /\ koTouched' = koTouched \cup {c}
    /\ koStatus' = IF s = KOGone THEN [koStatus EXCEPT ![c] = "none"] ELSE koStatus
    /\ UNCHANGED <<koDry, koObj, koOp, koStop, koFaults>>
KODeleteObject(c, k) ==
    /\ koEdits < KOMaxEdits /\ koEdits' = koEdits + 1 /\ koObj[c][k] # KOGone
    /\ koObj' = [koObj EXCEPT ![c][k] = KOGone] /\ koTouched' = koTouched \cup {c}
    /\ UNCHANGED <<koDry, koCR, koStatus, koOp, koStop, koFaults>>
KOStopCall ==
    /\ ~koStop /\ koStop' = TRUE
    /\ UNCHANGED <<koDry, koCR, koObj, koStatus, koOp, koEdits, koFaults, koTouched>>

-----------------------------------------------------------------------------
(* _reconcile_all: the list is read once, the clusters that exist in their *)
(* order; an error waits for the next turn.                                *)
Lists(n, at) ==
    /\ \A i, j \in 1 .. n : i < j => at[i] < at[j]
    /\ {at[i] : i \in 1 .. n} = {k \in DOMAIN KOOrder : koCR[KOOrder[k]] # KOGone}
_reconcile_all ==
    /\ koOp.pc = "wait" /\ ~koStop
    /\ \/ /\ \E n \in 0 .. Len(KOOrder) : \E at \in [1 .. n -> DOMAIN KOOrder] :
               /\ Lists(n, at)
               /\ koOp' = [KOWait EXCEPT !.pc = "apply",
                             !.todo = [i \in 1 .. n |-> [name |-> KOOrder[at[i]],
                                                         spec |-> koCR[KOOrder[at[i]]]]]]
          /\ koTouched' = {} /\ NoFault
       \/ Fault /\ UNCHANGED <<koOp, koTouched>>
    /\ UNCHANGED <<koDry, koCR, koObj, koStatus, koStop, koEdits>>

Item == Head(koOp.todo)
Kind == KOKinds[koOp.kind]
Working == koOp.pc = "apply" /\ koOp.todo # <<>>
NextItem == [KOWait EXCEPT !.pc = "apply", !.todo = Tail(koOp.todo)]

(* A body that cannot be built (int() of the replicas) leaves the loop     *)
(* over the clusters.                                                      *)
Unbuildable ==
    /\ Working /\ koOp.kind = 2 /\ Item.spec.bad /\ ~koOp.failed
    /\ koOp' = KOWait
    /\ UNCHANGED <<koDry, koCR, koObj, koStatus, koStop, koEdits, koFaults, koTouched>>
CanBuild == ~(koOp.kind = 2 /\ Item.spec.bad)

(* _apply_or_create: PATCH, and POST after 404; with dry_run nothing.      *)
Merge(old, s, k) == [val |-> s.val, bad |-> FALSE,
                     res |-> IF k = "deployment" THEN old.res \cup s.res ELSE {}]
Applied == [koOp EXCEPT !.kind = @ + 1, !.post = FALSE]
Failed == [koOp EXCEPT !.kind = 4, !.post = FALSE, !.failed = TRUE]
PatchOnly ==                    \* 404 is an error like any other
    /\ Working /\ koOp.kind <= 3 /\ CanBuild
    /\ \/ koDry /\ koOp' = Applied /\ UNCHANGED koObj /\ NoFault
       \/ /\ ~koDry /\ koObj[Item.name][Kind] # KOGone /\ NoFault
          /\ koObj' = [koObj EXCEPT ![Item.name][Kind] = Merge(@, Item.spec, Kind)]
          /\ koOp' = Applied
       \/ ~koDry /\ koObj[Item.name][Kind] = KOGone /\ NoFault /\ koOp' = Failed /\ UNCHANGED koObj
    /\ UNCHANGED <<koDry, koCR, koStatus, koStop, koEdits, koTouched>>
Patch ==
    /\ Working /\ koOp.kind <= 3 /\ ~koOp.post /\ CanBuild
    /\ \/ koDry /\ koOp' = Applied /\ UNCHANGED koObj /\ NoFault
       \/ /\ ~koDry /\ koObj[Item.name][Kind] # KOGone /\ NoFault
          /\ koObj' = [koObj EXCEPT ![Item.name][Kind] = Merge(@, Item.spec, Kind)]
          /\ koOp' = Applied
       \/ /\ ~koDry /\ koObj[Item.name][Kind] = KOGone /\ NoFault
          /\ koOp' = [koOp EXCEPT !.post = TRUE] /\ UNCHANGED koObj
       \/ ~koDry /\ Fault /\ koOp' = Failed /\ UNCHANGED koObj
    /\ UNCHANGED <<koDry, koCR, koStatus, koStop, koEdits, koTouched>>
Post ==
    /\ Working /\ koOp.post
    /\ \/ /\ koObj' = [koObj EXCEPT ![Item.name][Kind] = Merge(KOGone, Item.spec, Kind)]
          /\ koOp' = Applied /\ NoFault
       \/ Fault /\ koOp' = Failed /\ UNCHANGED koObj
    /\ UNCHANGED <<koDry, koCR, koStatus, koStop, koEdits, koTouched>>

(* reconcile's end and _update_status: a status that cannot be written is  *)
(* only logged; the loop goes on with the next cluster either way.         *)
StatusAlwaysReady ==
    /\ Working /\ koOp.kind = 4
    /\ koOp' = NextItem
    /\ \/ /\ ~koDry /\ koCR[Item.name] # KOGone /\ NoFault
          /\ koStatus' = [koStatus EXCEPT ![Item.name] = "Ready"]
       \/ (koDry \/ koCR[Item.name] = KOGone) /\ NoFault /\ UNCHANGED koStatus
       \/ ~koDry /\ Fault /\ UNCHANGED koStatus
    /\ UNCHANGED <<koDry, koCR, koObj, koStop, koEdits, koTouched>>
_update_status ==
    /\ Working /\ koOp.kind = 4
    /\ koOp' = NextItem
    /\ \/ /\ ~koDry /\ koCR[Item.name] # KOGone /\ NoFault
          /\ koStatus' = [koStatus EXCEPT ![Item.name] = IF koOp.failed THEN "Error" ELSE "Ready"]
       \/ (koDry \/ koCR[Item.name] = KOGone) /\ NoFault /\ UNCHANGED koStatus
       \/ ~koDry /\ Fault /\ UNCHANGED koStatus
    /\ UNCHANGED <<koDry, koCR, koObj, koStop, koEdits, koTouched>>
TurnEnds ==
    /\ koOp.pc = "apply" /\ koOp.todo = <<>> /\ koOp' = KOWait
    /\ UNCHANGED <<koDry, koCR, koObj, koStatus, koStop, koEdits, koFaults, koTouched>>

OperatorStep == _reconcile_all \/ Unbuildable \/ Patch \/ Post \/ _update_status \/ TurnEnds
KONext ==
    \/ OperatorStep \/ KOStopCall
    \/ \E c \in ToSet(KOOrder) : \/ \E s \in KOSpec \cup {KOGone} : KOEdit(c, s)
                                 \/ \E k \in ToSet(KOKinds) : KODeleteObject(c, k)

-----------------------------------------------------------------------------
Matches3(c) == \A k \in ToSet(KOKinds) :
    koObj[c][k].val = koCR[c].val /\ (k = "deployment" => koCR[c].res \subseteq koObj[c][k].res)

(* A cluster whose status is written as Ready is: unless a user touched it *)
(* since it was listed, all three objects then have the values of its      *)
(* specification.  (A status that cannot be written stays as it was, Ready *)
(* perhaps from an earlier turn.)                                          *)
KOReadyIsTrue ==
    [][\A c \in ToSet(KOOrder) :
          (koOp.kind = 4 /\ koOp'.kind = 1 /\ koStatus'[c] = "Ready" /\ koFaults' = koFaults
             /\ Working /\ Item.name = c /\ c \notin koTouched) => Matches3(c)]_koVars

(* Once users and the API server leave it alone, the operator brings every *)
(* cluster to its specification, whatever failed before and whichever      *)
(* object was deleted, unless it is stopped, or an unbuildable             *)
(* specification comes before the cluster in the list.                     *)
KOConverges ==
    <>[](koStop \/ koDry \/ \A i \in DOMAIN KOOrder :
            (koCR[KOOrder[i]] # KOGone /\ \A j \in 1 .. i : ~koCR[KOOrder[j]].bad) =>
                Matches3(KOOrder[i]))
=============================================================================
