------------------------------ MODULE Checkpoint ------------------------------
(***************************************************************************)
(* ThreadSafeStreamLog and the checkpoint writer under it.  Every method   *)
(* is a region of the log's lock; merge holds two locks one after the      *)
(* other; save takes a snapshot under the log's lock and writes it under   *)
(* the lock of the path: a temporary file, fsync, replace, fsync of the    *)
(* directory.  A power failure may come at any step: it leaves what was    *)
(* synced, and of the rest anything.  The contents of a log are the number *)
(* of times each batch is in it.                                           *)
(***************************************************************************)
EXTENDS Naturals, FiniteSets

CONSTANTS
    CKLog,      \* the logs
    CKThread,   \* the threads
    CKBatch,    \* the batches added, each once
    CKMaxOps    \* bound: calls begun and checkpoints taken

VARIABLES
    ckLog,      \* per log: its contents
    ckHeld,     \* per log: the holder of _lock
    ckPath,     \* the holder of the lock of the path (and of _save_lock)
    ckT,        \* per thread: [pc, op, log, src, snap]
    ckTmp,      \* per thread: its temporary file
    ckFile,     \* the file at the path, as a reader sees it
    ckDurable,  \* the file at the path after a power failure
    ckDrained,  \* ghost: what drain() returned so far
    ckDue,      \* ghost: per log, the batches whose call returned
    ckClock,    \* ghost: calls begun and checkpoints taken
    ckReturned  \* ghost: the saves that returned: [taken, at]

ckVars == <<ckLog, ckHeld, ckPath, ckT, ckTmp, ckFile, ckDurable, ckDrained, ckDue, ckClock, ckReturned>>

CKNobody == "nobody"
ASSUME CKAssumption == CKNobody \notin CKThread
CKEmpty == [b \in CKBatch |-> 0]
CKNoFile == [whole |-> TRUE, synced |-> TRUE, data |-> CKEmpty, taken |-> 0]
CKIdle == [pc |-> "idle", op |-> "none", log |-> CKNobody, src |-> CKNobody, batch |-> CKNobody,
           snap |-> CKEmpty, taken |-> 0]
CKSum(x, y) == [b \in CKBatch |-> x[b] + y[b]]

CKInit ==
    /\ ckLog = [l \in CKLog |-> CKEmpty] /\ ckHeld = [l \in CKLog |-> CKNobody]
    /\ ckPath = CKNobody /\ ckT = [t \in CKThread |-> CKIdle]
    /\ ckTmp = [t \in CKThread |-> CKNoFile] /\ ckFile = CKNoFile /\ ckDurable = CKNoFile
    /\ ckDrained = CKEmpty /\ ckDue = [l \in CKLog |-> {}]
    /\ ckClock = 0 /\ ckReturned = {}

Files == <<ckPath, ckTmp, ckFile, ckDurable, ckReturned>>
Logs == <<ckLog, ckHeld, ckDrained, ckDue>>

-----------------------------------------------------------------------------
(* A call: what it needs first is the lock of `src`, which for all but     *)
(* merge is the log itself.                                                *)
CKBegin(t, op, l, src, b) ==
    /\ ckT[t].pc = "idle" /\ ckClock < CKMaxOps
    /\ ckClock' = ckClock + 1
    /\ ckT' = [ckT EXCEPT ![t] = [CKIdle EXCEPT !.pc = "lock", !.op = op, !.log = l, !.src = src, !.batch = b]]
    /\ UNCHANGED <<Logs, Files>>
CKCall(t) ==
    \E l \in CKLog :
        \/ \E b \in CKBatch : /\ \A k \in CKLog : b \notin ckDue[k]
                              /\ \A u \in CKThread : ckT[u].batch # b
                              /\ CKBegin(t, "add", l, l, b)
        \/ \E op \in {"reset", "drain", "save"} : CKBegin(t, op, l, l, CKNobody)
        \/ \E src \in CKLog : CKBegin(t, "merge", l, src, CKNobody)

Acquire(t) ==
    /\ ckT[t].pc \in {"lock", "relock"}
    /\ LET l == IF ckT[t].pc = "lock" THEN ckT[t].src ELSE ckT[t].log
       IN  ckHeld[l] = CKNobody /\ ckHeld' = [ckHeld EXCEPT ![l] = t]
    /\ ckT' = [ckT EXCEPT ![t].pc = IF @ = "lock" THEN "in" ELSE "in2"]
    /\ UNCHANGED <<ckLog, ckDrained, ckDue, ckClock, Files>>

(* The bodies; each leaves the lock and, unless more follows, the call.    *)
Leave(t, l) == ckHeld' = [ckHeld EXCEPT ![l] = CKNobody]
In(t, op) == ckT[t].pc = "in" /\ ckT[t].op = op

add_batch(t) ==
    LET l == ckT[t].log IN
    /\ In(t, "add") /\ Leave(t, l)
    /\ ckLog' = [ckLog EXCEPT ![l][ckT[t].batch] = @ + 1]
    /\ ckDue' = [ckDue EXCEPT ![l] = @ \cup {ckT[t].batch}]
    /\ ckT' = [ckT EXCEPT ![t] = CKIdle]
    /\ UNCHANGED <<ckDrained, ckClock, Files>>

CKReset(t) ==
    LET l == ckT[t].log IN
    /\ In(t, "reset") /\ Leave(t, l)
    /\ ckLog' = [ckLog EXCEPT ![l] = CKEmpty] /\ ckDue' = [ckDue EXCEPT ![l] = {}]
    /\ ckT' = [ckT EXCEPT ![t] = CKIdle]
    /\ UNCHANGED <<ckDrained, ckClock, Files>>

drain(t) ==
    LET l == ckT[t].log IN
    /\ In(t, "drain") /\ Leave(t, l)
    /\ ckDrained' = CKSum(ckDrained, ckLog[l])
    /\ ckLog' = [ckLog EXCEPT ![l] = CKEmpty]
    /\ ckT' = [ckT EXCEPT ![t] = CKIdle]
    /\ UNCHANGED <<ckDue, ckClock, Files>>

(* merge and save begin with get_snapshot of `src`.                        *)
SnapshotKeepsLock(t) ==         \* merge keeps the other log locked
    /\ ckT[t].pc = "in" /\ ckT[t].op \in {"merge", "save"}
    /\ IF ckT[t].op = "save" THEN Leave(t, ckT[t].src) ELSE UNCHANGED ckHeld
    /\ ckT' = [ckT EXCEPT ![t].snap = ckLog[ckT[t].src], ![t].taken = ckClock + 1,
                          ![t].pc = IF ckT[t].op = "merge" THEN "relock" ELSE "path"]
    /\ ckClock' = IF ckT[t].op = "save" THEN ckClock + 1 ELSE ckClock
    /\ UNCHANGED <<ckLog, ckDrained, ckDue, Files>>
get_snapshot(t) ==
    /\ ckT[t].pc = "in" /\ ckT[t].op \in {"merge", "save"} /\ Leave(t, ckT[t].src)
    /\ ckT' = [ckT EXCEPT ![t].snap = ckLog[ckT[t].src], ![t].taken = ckClock + 1,
                          ![t].pc = IF ckT[t].op = "merge" THEN "relock" ELSE "path"]
    /\ ckClock' = IF ckT[t].op = "save" THEN ckClock + 1 ELSE ckClock
    /\ UNCHANGED <<ckLog, ckDrained, ckDue, Files>>

CKMerge(t) ==
    LET l == ckT[t].log IN
    /\ ckT[t].pc = "in2" /\ Leave(t, l)
    /\ ckLog' = [ckLog EXCEPT ![l] = CKSum(@, ckT[t].snap)]
    /\ ckDue' = [ckDue EXCEPT ![l] = @ \cup {b \in CKBatch : ckT[t].snap[b] > 0}]
    /\ ckT' = [ckT EXCEPT ![t] = CKIdle]
    /\ UNCHANGED <<ckDrained, ckClock, Files>>

-----------------------------------------------------------------------------
(* _atomic_write_json_locked, for the holder of the path.                  *)
LockPath(t) ==
    /\ ckT[t].pc = "path" /\ ckPath = CKNobody /\ ckPath' = t
    /\ ckT' = [ckT EXCEPT ![t].pc = "write"]
    /\ UNCHANGED <<Logs, ckClock, ckTmp, ckFile, ckDurable, ckReturned>>

(* json.dump, flush and fsync; an error on the way, or a payload above the *)
(* limit, leaves a temporary file that the finally clause removes.         *)
WriteTemporary(t) ==
    /\ ckT[t].pc = "write"
    /\ \E ok \in BOOLEAN :
         /\ ckTmp' = [ckTmp EXCEPT ![t] = [whole |-> ok, synced |-> ok, data |-> ckT[t].snap,
                                            taken |-> ckT[t].taken]]
         /\ ckT' = [ckT EXCEPT ![t].pc = IF ok THEN "replace" ELSE "fail"]
    /\ UNCHANGED <<Logs, ckClock, ckPath, ckFile, ckDurable, ckReturned>>

CKReplace(t) ==
    /\ ckT[t].pc = "replace"
    /\ \/ /\ ckFile' = ckTmp[t] /\ ckTmp' = [ckTmp EXCEPT ![t] = CKNoFile]
          /\ ckT' = [ckT EXCEPT ![t].pc = "dirsync"]
       \/ /\ ckT' = [ckT EXCEPT ![t].pc = "fail"] /\ UNCHANGED <<ckFile, ckTmp>>
    /\ UNCHANGED <<Logs, ckClock, ckPath, ckDurable, ckReturned>>

(* The directory is synced and the call returns, or it raises.             *)
Release(t) == ckPath' = CKNobody /\ ckT' = [ckT EXCEPT ![t] = CKIdle]
ReturnUnsynced(t) ==
    /\ ckT[t].pc = "dirsync" /\ Release(t)
    /\ ckReturned' = ckReturned \cup {[taken |-> ckT[t].taken, at |-> ckClock]}
    /\ UNCHANGED <<Logs, ckClock, ckTmp, ckFile, ckDurable>>
SyncDirectory(t) ==
    /\ ckT[t].pc = "dirsync" /\ Release(t)
    /\ \/ /\ ckDurable' = ckFile
          /\ ckReturned' = ckReturned \cup {[taken |-> ckT[t].taken, at |-> ckClock]}
       \/ UNCHANGED <<ckDurable, ckReturned>>
    /\ UNCHANGED <<Logs, ckClock, ckTmp, ckFile>>
CKFail(t) ==
    /\ ckT[t].pc = "fail" /\ Release(t) /\ ckTmp' = [ckTmp EXCEPT ![t] = CKNoFile]
    /\ UNCHANGED <<Logs, ckClock, ckFile, ckDurable, ckReturned>>

(* Power failure: every thread and log is gone, temporary files are never  *)
(* read again, and the path has its old or its new file, whose contents    *)
(* are only certain if they were synced.  A new process loads it.          *)
CKCrash ==
    /\ \E f \in {ckDurable, ckFile} :
         LET g == [f EXCEPT !.whole = f.whole /\ f.synced]
         IN  ckFile' = g /\ ckDurable' = g
    /\ ckLog' = [l \in CKLog |-> CKEmpty] /\ ckHeld' = [l \in CKLog |-> CKNobody]
    /\ ckPath' = CKNobody /\ ckT' = [t \in CKThread |-> CKIdle]
    /\ ckTmp' = [t \in CKThread |-> CKNoFile]
    /\ ckDrained' = CKEmpty /\ ckDue' = [l \in CKLog |-> {}]
    /\ UNCHANGED <<ckClock, ckReturned>>

CKStep(t) ==
    \/ Acquire(t) \/ add_batch(t) \/ CKReset(t) \/ drain(t) \/ get_snapshot(t) \/ CKMerge(t)
    \/ LockPath(t) \/ WriteTemporary(t) \/ CKReplace(t) \/ SyncDirectory(t) \/ CKFail(t)
CKNext == CKCrash \/ \E t \in CKThread : CKCall(t) \/ CKStep(t)

-----------------------------------------------------------------------------
(* Whoever opens the path, at any time and after any power failure, finds  *)
(* a complete checkpoint or none.                                          *)
CKNeverTorn == ckFile.whole /\ ckDurable.whole

(* A checkpoint whose save() returned survives a power failure: what is    *)
(* then at the path is that checkpoint or one whose save was not yet over  *)
(* when the snapshot of the first was taken.                               *)
CKSavedSurvives ==
    \A f \in {ckFile, ckDurable}, k \in ckReturned :
        /\ f.taken > 0
        /\ \A g \in ckReturned : (g.taken = f.taken) => ~(g.at < k.taken)

(* Outside a save no temporary file of the process is left, whichever step *)
(* failed.                                                                 *)
CKNoTemporaryLeft ==
    \A t \in CKThread : ckT[t].pc \notin {"replace", "fail"} => ckTmp[t] = CKNoFile

(* A batch whose call returned is in the log or was handed out by drain(), *)
(* however adds, merges and drains of several threads overlap.             *)
CKNoLostBatch ==
    \A l \in CKLog : \A b \in ckDue[l] : ckLog[l][b] + ckDrained[b] > 0

(* A call that has not returned.  It must end: two threads merging two     *)
(* logs into each other, or a log into itself, do not block each other.    *)
CKPending(t) == ckT[t].pc # "idle"

(* What the thread-safe log and the checkpoint writer promise: whole       *)
(* files, saves that survive a power failure, no litter, and no batch lost *)
(* or doubled by drain and merge.                                          *)
CKSafe == CKNeverTorn /\ CKSavedSurvives /\ CKNoTemporaryLeft /\ CKNoLostBatch

=============================================================================
