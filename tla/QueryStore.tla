----------------------------- MODULE QueryStore -----------------------------
(***************************************************************************)
(* The saved queries and the history of the query builder                  *)
(* (query_builder.py).  Each process loads the JSON file once, changes its *)
(* own copy and writes the whole of it back through a temporary file of a  *)
(* fixed name, ignoring OSErrors; a file it cannot parse counts as empty.  *)
(* A process may die between any two steps.                                *)
(***************************************************************************)
EXTENDS Naturals, Sequences

CONSTANTS
    QSProcess,   \* processes
    QSName,      \* names of queries
    QSHistory,   \* _MAX_HISTORY
    QSMaxOps     \* bound: operations

VARIABLES
    qsFile,      \* the JSON file
    qsTmp,       \* the temporary file
    qsProc,      \* process -> [pc, data]
    qsOps,       \* operations so far
    qsTrue,      \* ghost: what the operations that returned add up to
    qsSerial     \* ghost: no two processes were at work at the same time

qsVars == <<qsFile, qsTmp, qsProc, qsOps, qsTrue, qsSerial>>

QSEmpty == [saved |-> {}, history |-> <<>>]
QSNone == [state |-> "none", data |-> QSEmpty]
QSTorn == [state |-> "torn", data |-> QSEmpty]
Whole(d) == [state |-> "whole", data |-> d]
QSGone == [pc |-> "gone", data |-> QSEmpty]
Working(p) == qsProc[p].pc # "gone"

QSInit ==
    /\ qsFile = QSNone /\ qsTmp = QSNone
    /\ qsProc = [p \in QSProcess |-> QSGone]
    /\ qsOps = 0 /\ qsTrue = QSEmpty /\ qsSerial = TRUE

-----------------------------------------------------------------------------
(* __init__ and _load.                                                     *)
_load(p) ==
    /\ ~Working(p)
    /\ qsProc' = [qsProc EXCEPT ![p] =
                    [pc |-> "ready",
                     data |-> IF qsFile.state = "whole" THEN qsFile.data ELSE QSEmpty]]
    /\ qsSerial' = (qsSerial /\ \A q \in QSProcess : ~Working(q))
    /\ UNCHANGED <<qsFile, qsTmp, qsOps, qsTrue>>

(* save, delete, push_history and clear_history change the copy first.     *)
Op(p, d) ==
    /\ qsProc[p].pc = "ready" /\ qsOps < QSMaxOps
    /\ qsOps' = qsOps + 1
    /\ qsProc' = [qsProc EXCEPT ![p].pc = "open", ![p].data = d]
    /\ UNCHANGED <<qsFile, qsTmp, qsTrue, qsSerial>>
NewestKept(h) == IF Len(h) > QSHistory THEN SubSeq(h, Len(h) - QSHistory + 1, Len(h)) ELSE h
save(p, n) == Op(p, [qsProc[p].data EXCEPT !.saved = @ \cup {n}])
delete(p, n) ==
    /\ n \in qsProc[p].data.saved
    /\ Op(p, [qsProc[p].data EXCEPT !.saved = @ \ {n}])
push_history(p) ==
    Op(p, [qsProc[p].data EXCEPT !.history = NewestKept(Append(@, qsOps + 1))])
clear_history(p) == Op(p, [qsProc[p].data EXCEPT !.history = <<>>])

(* _persist: open truncates the temporary file, the dump fills it and the  *)
(* replacement publishes it.                                               *)
TruncateTarget(p) ==     \* writes the file in place
    /\ qsProc[p].pc = "open"
    /\ qsFile' = QSTorn /\ qsTmp' = QSTorn /\ qsProc' = [qsProc EXCEPT ![p].pc = "dump"]
    /\ UNCHANGED <<qsOps, qsTrue, qsSerial>>
Truncate(p) ==
    /\ qsProc[p].pc = "open"
    /\ qsTmp' = QSTorn /\ qsProc' = [qsProc EXCEPT ![p].pc = "dump"]
    /\ UNCHANGED <<qsFile, qsOps, qsTrue, qsSerial>>
Dump(p) ==
    /\ qsProc[p].pc = "dump"
    /\ qsTmp' = Whole(qsProc[p].data) /\ qsProc' = [qsProc EXCEPT ![p].pc = "publish"]
    /\ UNCHANGED <<qsFile, qsOps, qsTrue, qsSerial>>
Returns(p) == qsProc' = [qsProc EXCEPT ![p].pc = "ready"]
Publish(p) ==
    /\ qsProc[p].pc = "publish"
    /\ IF qsTmp = QSNone THEN UNCHANGED <<qsFile, qsTmp>>   \* FileNotFoundError
       ELSE qsFile' = qsTmp /\ qsTmp' = QSNone
    /\ qsTrue' = qsProc[p].data
    /\ Returns(p)
    /\ UNCHANGED <<qsOps, qsSerial>>
PersistFails(p) ==
    /\ qsProc[p].pc \in {"open", "dump", "publish"}
    /\ qsProc' = [qsProc EXCEPT ![p].pc = "ready"]
    /\ UNCHANGED <<qsFile, qsTmp, qsOps, qsTrue, qsSerial>>

Dies(p) ==
    /\ Working(p) /\ qsProc' = [qsProc EXCEPT ![p] = QSGone]
    /\ UNCHANGED <<qsFile, qsTmp, qsOps, qsTrue, qsSerial>>

QSNext ==
    \E p \in QSProcess :
        \/ _load(p)
        \/ \E n \in QSName : save(p, n) \/ delete(p, n)
        \/ push_history(p) \/ clear_history(p)
        \/ Truncate(p) \/ Dump(p) \/ Publish(p) \/ PersistFails(p) \/ Dies(p)

-----------------------------------------------------------------------------
(* As long as processes take turns, the published file is whole and is     *)
(* what the last operation that was written left, whatever died or failed  *)
(* in between, and a process that has just loaded it has all of it.        *)
QSDurable ==
    qsSerial => /\ qsFile.state # "torn"
                /\ qsFile.data = qsTrue
=============================================================================
