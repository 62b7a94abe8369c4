-------------------------- MODULE CheckpointProofs --------------------------
(***************************************************************************)
(* Proofs about the logs of a process, for any number of logs, threads and *)
(* batches.  Checkpoint: whatever fails and whenever the power goes, the   *)
(* path holds a complete checkpoint that no finished save supersedes, no   *)
(* temporary file is left, and drain and merge lose no batch.  WindowedLog *)
(* and DriftSketch: for any window, number of buckets and spacing of the   *)
(* calls, answers are about the windows they claim to be about.            *)
(***************************************************************************)
EXTENDS Checkpoint, WindowedLog, DriftSketch, Integers, NaturalsInduction,
        WellFoundedInduction, TLAPS

\* The component on its own: the threads take steps in any order and the
\* power may fail at any of them.
CKSpec == CKInit /\ [][CKNext]_ckVars

-----------------------------------------------------------------------------
(* Types.                                                                   *)

CKContents == [CKBatch -> Nat]
CKImage == [whole : BOOLEAN, synced : BOOLEAN, data : CKContents, taken : Nat]
CKCallState ==
    [pc : {"idle", "lock", "in", "relock", "in2", "path", "write", "replace",
           "dirsync", "fail"},
     op : {"none", "add", "reset", "drain", "save", "merge"},
     log : CKLog \union {CKNobody}, src : CKLog \union {CKNobody},
     batch : CKBatch \union {CKNobody}, snap : CKContents, taken : Nat]

\* The calls, and what they work on.
CallTypes ==
    /\ ckT \in [CKThread -> CKCallState]
    /\ \A t \in CKThread :
          /\ ckT[t].pc # "idle" => ckT[t].log \in CKLog /\ ckT[t].src \in CKLog
          /\ ckT[t].pc # "idle" /\ ckT[t].op = "add" => ckT[t].batch \in CKBatch

\* The logs and what was drained from them.
LogTypes ==
    /\ ckLog \in [CKLog -> CKContents]
    /\ ckDrained \in CKContents
    /\ ckDue \in [CKLog -> SUBSET CKBatch]

\* The files and the ghosts of the saves.
FileTypes ==
    /\ ckTmp \in [CKThread -> CKImage]
    /\ ckFile \in CKImage
    /\ ckDurable \in CKImage
    /\ ckClock \in Nat
    /\ ckReturned \in SUBSET [taken : Nat, at : Nat]

-----------------------------------------------------------------------------
(* The inductive invariant.                                                 *)

\* Between get_snapshot and its end, a save holds a checkpoint number.
Saving(t) == ckT[t].pc \in {"path", "write", "replace", "dirsync", "fail"}

\* Only the holder of the path's lock is inside _atomic_write_json_locked.
PathHeld ==
    \A t \in CKThread :
        ckT[t].pc \in {"write", "replace", "dirsync", "fail"} => ckPath = t

\* A complete temporary file is synced before it replaces the path, and
\* carries the checkpoint of its writer; after the replacement the path does.
TemporaryReady ==
    \A t \in CKThread :
        /\ ckT[t].pc = "replace" => /\ ckTmp[t].whole /\ ckTmp[t].synced
                                    /\ ckTmp[t].taken = ckT[t].taken
        /\ ckT[t].pc = "dirsync" => ckFile.taken = ckT[t].taken

\* What is or was at the path was synced, so a power failure cannot tear it.
PathSynced == /\ ckFile.whole /\ ckFile.synced
              /\ ckDurable.whole /\ ckDurable.synced

\* Checkpoint numbers grow with the clock; no two saves share one.
NumbersFresh ==
    /\ \A t \in CKThread : Saving(t) => /\ 0 < ckT[t].taken
                                        /\ ckT[t].taken <= ckClock
                                        /\ \A g \in ckReturned : g.taken # ckT[t].taken
    /\ \A t, u \in CKThread :
          t # u /\ Saving(t) /\ Saving(u) => ckT[t].taken # ckT[u].taken
    /\ \A g \in ckReturned : g.taken <= ckClock

\* A file at the path is not older than a save that had returned before the
\* snapshot of another returned save: CKSavedSurvives for one file.
Current(f) ==
    \A k \in ckReturned :
        /\ f.taken > 0
        /\ \A g \in ckReturned : g.taken = f.taken => ~(g.at < k.taken)

-----------------------------------------------------------------------------
(* Types are preserved.                                                     *)

\* The empty contents, no file and no call have their types.
LEMMA Blanks ==
    /\ CKEmpty \in CKContents
    /\ CKNoFile \in CKImage /\ CKNoFile.whole /\ CKNoFile.synced /\ CKNoFile.taken = 0
    /\ CKIdle \in CKCallState /\ CKIdle.pc = "idle"
<1>1. CKEmpty \in CKContents
  BY DEF CKEmpty, CKContents
<1>2. CKNoFile \in CKImage /\ CKNoFile.whole /\ CKNoFile.synced /\ CKNoFile.taken = 0
  BY <1>1 DEF CKNoFile, CKImage
<1>3. CKIdle \in CKCallState /\ CKIdle.pc = "idle"
  BY <1>1 DEF CKIdle, CKCallState
<1> QED
  BY <1>1, <1>2, <1>3

\* Adding contents batch by batch.
LEMMA SumType ==
    ASSUME NEW x \in CKContents, NEW y \in CKContents
    PROVE  /\ CKSum(x, y) \in CKContents
           /\ \A b \in CKBatch : CKSum(x, y)[b] = x[b] + y[b]
  BY DEF CKSum, CKContents

\* A call that starts or goes on keeps its type, and changes no other call.
LEMMA CallBegun ==
    ASSUME CallTypes, NEW t \in CKThread, NEW l \in CKLog, NEW src \in CKLog,
           NEW b \in CKBatch \union {CKNobody},
           NEW op \in {"add", "reset", "drain", "save", "merge"},
           op = "add" => b \in CKBatch, CKBegin(t, op, l, src, b)
    PROVE  CallTypes'
<1> DEFINE call == [CKIdle EXCEPT !.pc = "lock", !.op = op, !.log = l, !.src = src,
                                  !.batch = b]
<1>1. /\ call \in CKCallState /\ call.log = l /\ call.src = src
      /\ call.op = op /\ call.batch = b
  BY Blanks DEF CKCallState
<1> HIDE DEF call
<1>2. ckT' = [ckT EXCEPT ![t] = call]
  BY DEF CKBegin, call
<1> QED
  BY <1>1, <1>2 DEF CallTypes

\* A call that ends.
LEMMA CallEnded ==
    ASSUME CallTypes, NEW t \in CKThread, ckT' = [ckT EXCEPT ![t] = CKIdle]
    PROVE  CallTypes'
  BY Blanks DEF CallTypes

\* A call that moves on to its next step.
LEMMA CallMoved ==
    ASSUME CallTypes, NEW t \in CKThread, ckT[t].pc # "idle",
           NEW pc \in {"in", "in2", "write", "replace", "dirsync", "fail"},
           ckT' = [ckT EXCEPT ![t].pc = pc]
    PROVE  CallTypes'
<1>1. /\ ckT'[t] = [ckT[t] EXCEPT !.pc = pc] /\ ckT'[t] \in CKCallState
      /\ ckT'[t].log = ckT[t].log /\ ckT'[t].src = ckT[t].src
      /\ ckT'[t].op = ckT[t].op /\ ckT'[t].batch = ckT[t].batch
  BY DEF CallTypes, CKCallState
<1> QED
  BY <1>1 DEF CallTypes

\* A snapshot is taken.
LEMMA SnapshotTaken ==
    ASSUME CallTypes, LogTypes, FileTypes, NEW t \in CKThread, get_snapshot(t)
    PROVE  /\ CallTypes'
           /\ ckT'[t].taken = ckClock + 1
           /\ ckT'[t].pc = IF ckT[t].op = "merge" THEN "relock" ELSE "path"
           /\ \A u \in CKThread \ {t} : ckT'[u] = ckT[u]
<1> DEFINE pc == IF ckT[t].op = "merge" THEN "relock" ELSE "path"
           call == [ckT[t] EXCEPT !.snap = ckLog[ckT[t].src], !.taken = ckClock + 1,
                                  !.pc = pc]
<1>1. ckT[t] \in CKCallState /\ ckT[t].log \in CKLog /\ ckT[t].src \in CKLog
      /\ ckLog[ckT[t].src] \in CKContents /\ ckClock + 1 \in Nat
  BY DEF CallTypes, LogTypes, FileTypes, get_snapshot
<1>2. pc \in {"relock", "path"}
  OBVIOUS
<1> HIDE DEF pc
<1>3. /\ call \in CKCallState /\ call.log = ckT[t].log /\ call.src = ckT[t].src
      /\ call.op = ckT[t].op /\ call.batch = ckT[t].batch
      /\ call.taken = ckClock + 1 /\ call.pc = pc
  BY <1>1, <1>2 DEF CKCallState
<1>4. ckT' = [ckT EXCEPT ![t] = call]
  BY DEF get_snapshot, pc
<1> HIDE DEF call
<1>5. ckT[t].op # "add"
  BY DEF get_snapshot
<1> QED
  BY <1>1, <1>3, <1>4, <1>5 DEF CallTypes, pc

\* Every step keeps the types.
LEMMA TypesStep ==
    ASSUME CallTypes, LogTypes, FileTypes, [CKNext]_ckVars
    PROVE  CallTypes' /\ LogTypes' /\ FileTypes'
<1>1. CASE UNCHANGED ckVars
  BY <1>1 DEF ckVars, CallTypes, LogTypes, FileTypes
<1>2. CASE CKCrash
  <2>1. CallTypes'
    BY <1>2, Blanks DEF CKCrash, CallTypes
  <2>2. LogTypes'
    BY <1>2, Blanks DEF CKCrash, LogTypes
  <2>3. PICK f \in {ckDurable, ckFile} :
            LET g == [f EXCEPT !.whole = f.whole /\ f.synced]
            IN  ckFile' = g /\ ckDurable' = g
    BY <1>2 DEF CKCrash
  <2>4. f \in CKImage
    BY DEF FileTypes
  <2>5. (f.whole /\ f.synced) \in BOOLEAN
    OBVIOUS
  <2>6. [f EXCEPT !.whole = f.whole /\ f.synced] \in CKImage
    BY <2>4, <2>5 DEF CKImage
  <2>7. ckFile' \in CKImage /\ ckDurable' \in CKImage
    BY <2>3, <2>6
  <2>8. FileTypes'
    BY <1>2, <2>7, Blanks DEF CKCrash, FileTypes
  <2> QED
    BY <2>1, <2>2, <2>8
<1>3. ASSUME NEW t \in CKThread, CKCall(t)
      PROVE  CallTypes' /\ LogTypes' /\ FileTypes'
  <2>1. CallTypes'
    BY <1>3, CallBegun DEF CKCall
  <2>2. UNCHANGED <<Logs, Files>> /\ ckClock' = ckClock + 1
    BY <1>3 DEF CKCall, CKBegin
  <2> QED
    BY <2>1, <2>2 DEF Logs, Files, LogTypes, FileTypes
<1>4. ASSUME NEW t \in CKThread, Acquire(t)
      PROVE  CallTypes' /\ LogTypes' /\ FileTypes'
  <2>1. CallTypes'
    BY <1>4, CallMoved DEF Acquire
  <2> QED
    BY <1>4, <2>1 DEF Acquire, Files, LogTypes, FileTypes
<1>5. ASSUME NEW t \in CKThread, add_batch(t)
      PROVE  CallTypes' /\ LogTypes' /\ FileTypes'
  <2>1. CallTypes'
    BY <1>5, CallEnded DEF add_batch
  <2>2. ckT[t].log \in CKLog /\ ckT[t].batch \in CKBatch
    BY <1>5 DEF add_batch, In, CallTypes
  <2>3. LogTypes'
    BY <1>5, <2>2 DEF add_batch, LogTypes, CKContents
  <2> QED
    BY <1>5, <2>1, <2>3 DEF add_batch, Files, FileTypes
<1>6. ASSUME NEW t \in CKThread, CKReset(t)
      PROVE  CallTypes' /\ LogTypes' /\ FileTypes'
  <2>1. CallTypes'
    BY <1>6, CallEnded DEF CKReset
  <2>2. LogTypes'
    BY <1>6, Blanks DEF CKReset, LogTypes
  <2> QED
    BY <1>6, <2>1, <2>2 DEF CKReset, Files, FileTypes
<1>7. ASSUME NEW t \in CKThread, drain(t)
      PROVE  CallTypes' /\ LogTypes' /\ FileTypes'
  <2>1. CallTypes'
    BY <1>7, CallEnded DEF drain
  <2>2. ckT[t].log \in CKLog
    BY <1>7 DEF drain, In, CallTypes
  <2>3. LogTypes'
    BY <1>7, <2>2, Blanks, SumType DEF drain, LogTypes
  <2> QED
    BY <1>7, <2>1, <2>3 DEF drain, Files, FileTypes
<1>8. ASSUME NEW t \in CKThread, get_snapshot(t)
      PROVE  CallTypes' /\ LogTypes' /\ FileTypes'
  <2>1. CallTypes'
    BY <1>8, SnapshotTaken
  <2>2. UNCHANGED <<ckLog, ckDrained, ckDue, Files>> /\ ckClock' \in Nat
    BY <1>8 DEF get_snapshot, FileTypes
  <2> QED
    BY <2>1, <2>2 DEF Files, LogTypes, FileTypes
<1>9. ASSUME NEW t \in CKThread, CKMerge(t)
      PROVE  CallTypes' /\ LogTypes' /\ FileTypes'
  <2>1. CallTypes'
    BY <1>9, CallEnded DEF CKMerge
  <2>2. ckT[t].log \in CKLog /\ ckT[t].snap \in CKContents
    BY <1>9 DEF CKMerge, CallTypes, CKCallState
  <2>3. LogTypes'
    BY <1>9, <2>2, SumType DEF CKMerge, LogTypes
  <2> QED
    BY <1>9, <2>1, <2>3 DEF CKMerge, Files, FileTypes
<1>10. ASSUME NEW t \in CKThread, LockPath(t)
       PROVE  CallTypes' /\ LogTypes' /\ FileTypes'
  <2>1. CallTypes'
    BY <1>10, CallMoved DEF LockPath
  <2> QED
    BY <1>10, <2>1 DEF LockPath, Logs, LogTypes, FileTypes
<1>11. ASSUME NEW t \in CKThread, WriteTemporary(t)
       PROVE  CallTypes' /\ LogTypes' /\ FileTypes'
  <2>1. PICK ok \in BOOLEAN :
            /\ ckTmp' = [ckTmp EXCEPT ![t] = [whole |-> ok, synced |-> ok,
                              data |-> ckT[t].snap, taken |-> ckT[t].taken]]
            /\ ckT' = [ckT EXCEPT ![t].pc = IF ok THEN "replace" ELSE "fail"]
    BY <1>11 DEF WriteTemporary
  <2>2. CallTypes'
    BY <1>11, <2>1, CallMoved DEF WriteTemporary
  <2>3. [whole |-> ok, synced |-> ok, data |-> ckT[t].snap, taken |-> ckT[t].taken]
            \in CKImage
    BY DEF CKImage, CallTypes, CKCallState
  <2> QED
    BY <1>11, <2>1, <2>2, <2>3 DEF WriteTemporary, Logs, LogTypes, FileTypes
<1>12. ASSUME NEW t \in CKThread, CKReplace(t)
       PROVE  CallTypes' /\ LogTypes' /\ FileTypes'
  <2>1. CallTypes'
    BY <1>12, CallMoved DEF CKReplace
  <2> QED
    BY <1>12, <2>1, Blanks DEF CKReplace, Logs, LogTypes, FileTypes
<1>13. ASSUME NEW t \in CKThread, SyncDirectory(t)
       PROVE  CallTypes' /\ LogTypes' /\ FileTypes'
  <2>1. CallTypes'
    BY <1>13, CallEnded DEF SyncDirectory, Release
  <2>2. [taken |-> ckT[t].taken, at |-> ckClock] \in [taken : Nat, at : Nat]
    BY DEF CallTypes, CKCallState, FileTypes
  <2> QED
    BY <1>13, <2>1, <2>2 DEF SyncDirectory, Logs, LogTypes, FileTypes
<1>14. ASSUME NEW t \in CKThread, CKFail(t)
       PROVE  CallTypes' /\ LogTypes' /\ FileTypes'
  <2>1. CallTypes'
    BY <1>14, CallEnded DEF CKFail, Release
  <2> QED
    BY <1>14, <2>1, Blanks DEF CKFail, Logs, LogTypes, FileTypes
<1> QED
  BY <1>1, <1>2, <1>3, <1>4, <1>5, <1>6, <1>7, <1>8, <1>9, <1>10, <1>11, <1>12,
     <1>13, <1>14 DEF CKNext, CKStep

-----------------------------------------------------------------------------
(* Drain and merge.                                                         *)

\* No step takes a batch out of a log without handing it out.
LEMMA NoLostBatchStep ==
    ASSUME CallTypes, LogTypes, CKNoLostBatch, [CKNext]_ckVars
    PROVE  CKNoLostBatch'
<1> DEFINE Kept(l, b) == ckLog[l][b] + ckDrained[b] > 0
<1>1. \A l \in CKLog, b \in CKBatch : ckLog[l][b] \in Nat /\ ckDrained[b] \in Nat
  BY DEF LogTypes, CKContents
<1>2. CASE UNCHANGED <<ckLog, ckDrained, ckDue>>
  BY <1>2 DEF CKNoLostBatch
<1>3. CASE CKCrash
  BY <1>3 DEF CKCrash, CKNoLostBatch
<1>4. ASSUME NEW t \in CKThread, add_batch(t)
      PROVE  CKNoLostBatch'
  <2> DEFINE l == ckT[t].log
             b == ckT[t].batch
  <2>1. l \in CKLog /\ b \in CKBatch
    BY <1>4 DEF add_batch, In, CallTypes
  <2>2. /\ \A m \in CKLog, c \in CKBatch : ckLog'[m][c] >= ckLog[m][c]
        /\ ckLog'[l][b] = ckLog[l][b] + 1
        /\ \A m \in CKLog, c \in CKBatch : ckLog'[m][c] \in Nat
    BY <1>1, <1>4, <2>1 DEF add_batch, LogTypes, CKContents
  <2>3. /\ ckDrained' = ckDrained
        /\ \A m \in CKLog : ckDue'[m] \subseteq ckDue[m] \union {c \in {b} : m = l}
    BY <1>4, <2>1 DEF add_batch, LogTypes
  <2> HIDE DEF l, b
  <2>4. ASSUME NEW m \in CKLog, NEW c \in ckDue'[m]
        PROVE  ckLog'[m][c] + ckDrained'[c] > 0
    <3>1. CASE c \in ckDue[m]
      <4>1. c \in CKBatch /\ Kept(m, c)
        BY <3>1 DEF LogTypes, CKNoLostBatch
      <4> QED
        BY <1>1, <2>2, <2>3, <4>1
    <3>2. CASE m = l /\ c = b
      BY <1>1, <2>1, <2>2, <2>3, <3>2
    <3> QED
      BY <2>3, <3>1, <3>2
  <2> QED
    BY <2>4 DEF CKNoLostBatch
<1>5. ASSUME NEW t \in CKThread, CKReset(t)
      PROVE  CKNoLostBatch'
  <2>1. ckT[t].log \in CKLog
    BY <1>5 DEF CKReset, In, CallTypes
  <2> QED
    BY <1>5, <2>1 DEF CKReset, CKNoLostBatch, LogTypes
<1>6. ASSUME NEW t \in CKThread, drain(t)
      PROVE  CKNoLostBatch'
  <2> DEFINE l == ckT[t].log
  <2>1. l \in CKLog
    BY <1>6 DEF drain, In, CallTypes
  <2>2. \A b \in CKBatch : ckDrained'[b] = ckDrained[b] + ckLog[l][b]
    BY <1>6, <2>1, SumType DEF drain, LogTypes
  <2>3. /\ \A m \in CKLog \ {l} : ckLog'[m] = ckLog[m]
        /\ \A b \in CKBatch : ckLog'[l][b] = 0
        /\ ckDue' = ckDue
    BY <1>6, <2>1 DEF drain, LogTypes, CKEmpty
  <2> HIDE DEF l
  <2>4. ASSUME NEW m \in CKLog, NEW c \in ckDue'[m]
        PROVE  ckLog'[m][c] + ckDrained'[c] > 0
    <3>1. c \in CKBatch /\ Kept(m, c)
      BY <2>3 DEF LogTypes, CKNoLostBatch
    <3>2. ckLog[l][c] \in Nat /\ ckLog[m][c] \in Nat /\ ckDrained[c] \in Nat
      BY <1>1, <2>1, <3>1
    <3> QED
      BY <2>2, <2>3, <3>1, <3>2
  <2> QED
    BY <2>4 DEF CKNoLostBatch
<1>7. ASSUME NEW t \in CKThread, CKMerge(t)
      PROVE  CKNoLostBatch'
  <2> DEFINE l == ckT[t].log
             s == ckT[t].snap
  <2>1. l \in CKLog /\ s \in CKContents
    BY <1>7 DEF CKMerge, CallTypes, CKCallState
  <2>2. /\ \A m \in CKLog \ {l} : ckLog'[m] = ckLog[m]
        /\ \A b \in CKBatch : ckLog'[l][b] = ckLog[l][b] + s[b]
        /\ ckDrained' = ckDrained
    BY <1>7, <2>1, SumType DEF CKMerge, LogTypes
  <2>3. /\ \A m \in CKLog \ {l} : ckDue'[m] = ckDue[m]
        /\ ckDue'[l] = ckDue[l] \union {b \in CKBatch : s[b] > 0}
    BY <1>7, <2>1 DEF CKMerge, LogTypes
  <2>4. \A b \in CKBatch : s[b] \in Nat
    BY <2>1 DEF CKContents
  <2> HIDE DEF l, s
  <2>5. ASSUME NEW m \in CKLog, NEW c \in ckDue'[m]
        PROVE  ckLog'[m][c] + ckDrained'[c] > 0
    <3>1. c \in CKBatch /\ ckLog[m][c] \in Nat /\ ckDrained[c] \in Nat /\ s[c] \in Nat
      BY <1>1, <2>3, <2>4 DEF LogTypes
    <3>2. CASE c \in ckDue[m]
      <4>1. Kept(m, c)
        BY <3>2 DEF CKNoLostBatch
      <4> QED
        BY <2>2, <3>1, <4>1
    <3>3. CASE m = l /\ s[c] > 0
      BY <2>2, <3>1, <3>3
    <3> QED
      BY <2>3, <3>2, <3>3
  <2> QED
    BY <2>5 DEF CKNoLostBatch
<1>8. ASSUME NEW t \in CKThread,
             \/ CKCall(t) \/ Acquire(t) \/ get_snapshot(t) \/ LockPath(t)
             \/ WriteTemporary(t) \/ CKReplace(t) \/ SyncDirectory(t) \/ CKFail(t)
      PROVE  UNCHANGED <<ckLog, ckDrained, ckDue>>
  BY <1>8 DEF CKCall, CKBegin, Acquire, get_snapshot, LockPath, WriteTemporary,
              CKReplace, SyncDirectory, CKFail, Logs
<1> QED
  BY <1>2, <1>3, <1>4, <1>5, <1>6, <1>7, <1>8 DEF CKNext, CKStep, ckVars

-----------------------------------------------------------------------------
(* Saves.                                                                   *)

FileInv ==
    /\ PathHeld /\ TemporaryReady /\ PathSynced /\ NumbersFresh
    /\ Current(ckFile) /\ Current(ckDurable)
    /\ CKNoTemporaryLeft

\* Steps that are not part of a save touch no file and no number in use.
Outside == {"idle", "lock", "in", "relock", "in2"}

\* A step of thread t outside a save leaves every save and every file alone.
LEMMA OutsideKeepsFiles ==
    ASSUME CallTypes, FileTypes, FileInv, NEW t \in CKThread,
           UNCHANGED Files, ckClock' \in Nat, ckClock <= ckClock',
           \A u \in CKThread \ {t} : ckT'[u] = ckT[u],
           ckT[t].pc \in Outside, ckT'[t].pc \in Outside
    PROVE  FileInv'
<1>1. /\ UNCHANGED <<ckPath, ckTmp, ckFile, ckDurable, ckReturned>>
      /\ ckClock \in Nat
      /\ \A u \in CKThread : ckT[u].taken \in Nat
      /\ \A g \in ckReturned : g.taken \in Nat
  BY DEF Files, FileTypes, CallTypes, CKCallState
<1>2. PathHeld' /\ TemporaryReady'
  BY <1>1 DEF FileInv, PathHeld, TemporaryReady, Outside
<1>3. PathSynced' /\ Current(ckFile)' /\ Current(ckDurable)'
  BY <1>1 DEF FileInv, PathSynced, Current
<1>4. \A u \in CKThread : Saving(u)' => Saving(u) /\ ckT'[u] = ckT[u]
  BY DEF Saving, Outside
<1>5. NumbersFresh'
  BY <1>1, <1>4 DEF FileInv, NumbersFresh
<1>6. CKNoTemporaryLeft'
  BY <1>1 DEF FileInv, CKNoTemporaryLeft, Outside
<1> QED
  BY <1>2, <1>3, <1>5, <1>6 DEF FileInv

\* The calls on logs are such steps.
LEMMA LogSteps ==
    ASSUME CallTypes, FileTypes, NEW t \in CKThread,
           \/ CKCall(t) \/ Acquire(t) \/ add_batch(t) \/ CKReset(t) \/ drain(t)
           \/ CKMerge(t)
    PROVE  /\ UNCHANGED Files /\ ckClock' \in Nat /\ ckClock <= ckClock'
           /\ \A u \in CKThread \ {t} : ckT'[u] = ckT[u]
           /\ ckT[t].pc \in Outside /\ ckT'[t].pc \in Outside
<1>1. ckClock \in Nat /\ ckT \in [CKThread -> CKCallState]
  BY DEF FileTypes, CallTypes
<1>2. CASE CKCall(t)
  <2>1. PICK l \in CKLog, src \in CKLog, op \in {"add", "reset", "drain", "save", "merge"},
             b \in CKBatch \union {CKNobody} : CKBegin(t, op, l, src, b)
    BY <1>2 DEF CKCall
  <2>2. [CKIdle EXCEPT !.pc = "lock", !.op = op, !.log = l, !.src = src, !.batch = b].pc
            = "lock"
    BY Blanks DEF CKCallState
  <2> QED
    BY <1>1, <2>1, <2>2 DEF CKBegin, Outside, Files
<1>3. CASE Acquire(t)
  <2>1. ckT'[t].pc \in {"in", "in2"}
    BY <1>1, <1>3 DEF Acquire, CKCallState
  <2> QED
    BY <1>1, <1>3, <2>1 DEF Acquire, Outside
<1>4. CASE add_batch(t) \/ CKReset(t) \/ drain(t) \/ CKMerge(t)
  BY <1>1, <1>4, Blanks DEF add_batch, CKReset, drain, CKMerge, In, Outside
<1> QED
  BY <1>2, <1>3, <1>4

\* A snapshot takes the next checkpoint number.
LEMMA SnapshotKeepsFiles ==
    ASSUME CallTypes, LogTypes, FileTypes, FileInv, NEW t \in CKThread, get_snapshot(t)
    PROVE  FileInv'
<1>1. /\ UNCHANGED <<ckPath, ckTmp, ckFile, ckDurable, ckReturned>>
      /\ ckClock \in Nat
      /\ \A u \in CKThread : ckT[u].taken \in Nat
      /\ \A g \in ckReturned : g.taken \in Nat
      /\ ckT[t].pc = "in"
  BY DEF get_snapshot, Files, FileTypes, CallTypes, CKCallState
<1>2. /\ ckT'[t].taken = ckClock + 1
      /\ ckT'[t].pc = IF ckT[t].op = "merge" THEN "relock" ELSE "path"
      /\ \A u \in CKThread \ {t} : ckT'[u] = ckT[u]
  BY SnapshotTaken
<1>3. ckClock' = IF ckT[t].op = "save" THEN ckClock + 1 ELSE ckClock
  BY DEF get_snapshot
<1>4. CASE ckT[t].op = "merge"
  <2>1. UNCHANGED Files
    BY DEF get_snapshot
  <2> QED
    BY <1>1, <1>2, <1>3, <1>4, <2>1, OutsideKeepsFiles DEF Outside
<1>5. CASE ckT[t].op = "save"
  <2>1. ckT'[t].pc = "path" /\ ckClock' = ckClock + 1
    BY <1>2, <1>3, <1>5
  <2>2. PathHeld' /\ TemporaryReady' /\ CKNoTemporaryLeft'
    BY <1>1, <1>2, <2>1 DEF FileInv, PathHeld, TemporaryReady, CKNoTemporaryLeft
  <2>3. PathSynced' /\ Current(ckFile)' /\ Current(ckDurable)'
    BY <1>1 DEF FileInv, PathSynced, Current
  <2>4. \A u \in CKThread \ {t} : Saving(u)' => Saving(u) /\ ckT'[u] = ckT[u]
    BY <1>2 DEF Saving
  <2>5. NumbersFresh'
    BY <1>1, <1>2, <2>1, <2>4 DEF FileInv, NumbersFresh
  <2> QED
    BY <2>2, <2>3, <2>5 DEF FileInv
<1> QED
  BY <1>4, <1>5 DEF get_snapshot

\* A step inside a save keeps its number; the numbers stay fresh as long as
\* no save returns.
LEMMA SaveStepKeepsNumbers ==
    ASSUME NumbersFresh, NEW t \in CKThread, Saving(t),
           \A u \in CKThread \ {t} : ckT'[u] = ckT[u],
           ckT'[t].taken = ckT[t].taken \/ ~Saving(t)',
           UNCHANGED <<ckClock, ckReturned>>
    PROVE  NumbersFresh'
<1>1. \A u \in CKThread : Saving(u)' => Saving(u) /\ ckT'[u].taken = ckT[u].taken
  BY DEF Saving
<1> QED
  BY <1>1 DEF NumbersFresh

\* Every step keeps what the saves rely on.
LEMMA FilesStep ==
    ASSUME CallTypes, LogTypes, FileTypes, FileInv, [CKNext]_ckVars
    PROVE  FileInv'
<1>1. /\ ckT \in [CKThread -> CKCallState] /\ ckClock \in Nat
      /\ ckTmp \in [CKThread -> CKImage] /\ ckFile \in CKImage /\ ckDurable \in CKImage
      /\ CKNobody \notin CKThread
      /\ \A u \in CKThread : ckT[u].taken \in Nat
      /\ \A g \in ckReturned : g.taken \in Nat /\ g.at \in Nat
  BY CKAssumption DEF FileTypes, CallTypes, CKCallState
<1>2. CASE UNCHANGED ckVars
  BY <1>2 DEF ckVars, FileInv, PathHeld, TemporaryReady, PathSynced, NumbersFresh,
              Saving, Current, CKNoTemporaryLeft
<1>3. CASE CKCrash
  <2>1. PICK f \in {ckDurable, ckFile} :
            LET g == [f EXCEPT !.whole = f.whole /\ f.synced]
            IN  ckFile' = g /\ ckDurable' = g
    BY <1>3 DEF CKCrash
  <2>2. /\ f \in CKImage /\ f.whole /\ f.synced /\ Current(f)
    BY <1>1 DEF FileInv, PathSynced
  <2>3. /\ ckFile'.whole /\ ckFile'.synced /\ ckFile'.taken = f.taken
        /\ ckDurable'.whole /\ ckDurable'.synced /\ ckDurable'.taken = f.taken
    BY <2>1, <2>2 DEF CKImage
  <2>4. \A u \in CKThread : ckT'[u] = CKIdle /\ ckTmp'[u] = CKNoFile
    BY <1>3 DEF CKCrash
  <2>5. UNCHANGED <<ckClock, ckReturned>>
    BY <1>3 DEF CKCrash
  <2>6. PathHeld' /\ TemporaryReady' /\ CKNoTemporaryLeft' /\ NumbersFresh'
    BY <2>4, <2>5, Blanks
       DEF FileInv, PathHeld, TemporaryReady, CKNoTemporaryLeft, NumbersFresh, Saving
  <2>7. PathSynced' /\ Current(ckFile)' /\ Current(ckDurable)'
    BY <2>2, <2>3, <2>5 DEF PathSynced, Current
  <2> QED
    BY <2>6, <2>7 DEF FileInv
<1>4. ASSUME NEW t \in CKThread,
             \/ CKCall(t) \/ Acquire(t) \/ add_batch(t) \/ CKReset(t) \/ drain(t)
             \/ CKMerge(t)
      PROVE  FileInv'
  BY <1>4, LogSteps, OutsideKeepsFiles
<1>5. ASSUME NEW t \in CKThread, get_snapshot(t)
      PROVE  FileInv'
  BY <1>5, SnapshotKeepsFiles
<1>6. ASSUME NEW t \in CKThread, LockPath(t)
      PROVE  FileInv'
  <2>1. /\ ckT[t].pc = "path" /\ ckPath = CKNobody /\ ckPath' = t
        /\ UNCHANGED <<ckClock, ckTmp, ckFile, ckDurable, ckReturned>>
        /\ ckT'[t].pc = "write" /\ ckT'[t].taken = ckT[t].taken
        /\ \A u \in CKThread \ {t} : ckT'[u] = ckT[u]
    BY <1>1, <1>6 DEF LockPath, CKCallState
  <2>2. PathHeld' /\ TemporaryReady' /\ CKNoTemporaryLeft'
    BY <1>1, <2>1 DEF FileInv, PathHeld, TemporaryReady, CKNoTemporaryLeft
  <2>3. PathSynced' /\ Current(ckFile)' /\ Current(ckDurable)'
    BY <2>1 DEF FileInv, PathSynced, Current
  <2>4. NumbersFresh'
    BY <2>1, SaveStepKeepsNumbers DEF FileInv, Saving
  <2> QED
    BY <2>2, <2>3, <2>4 DEF FileInv
<1>7. ASSUME NEW t \in CKThread, WriteTemporary(t)
      PROVE  FileInv'
  <2>1. PICK ok \in BOOLEAN :
            /\ ckTmp' = [ckTmp EXCEPT ![t] = [whole |-> ok, synced |-> ok,
                              data |-> ckT[t].snap, taken |-> ckT[t].taken]]
            /\ ckT' = [ckT EXCEPT ![t].pc = IF ok THEN "replace" ELSE "fail"]
    BY <1>7 DEF WriteTemporary
  <2>2. /\ ckT[t].pc = "write"
        /\ UNCHANGED <<ckClock, ckPath, ckFile, ckDurable, ckReturned>>
    BY <1>7 DEF WriteTemporary
  <2>3. /\ ckT'[t].pc = IF ok THEN "replace" ELSE "fail"
        /\ ckT'[t].taken = ckT[t].taken
        /\ \A u \in CKThread \ {t} : ckT'[u] = ckT[u] /\ ckTmp'[u] = ckTmp[u]
        /\ ckTmp'[t].taken = ckT[t].taken
        /\ ok => ckTmp'[t].whole /\ ckTmp'[t].synced
    BY <1>1, <2>1 DEF CKCallState
  <2>4. PathHeld' /\ TemporaryReady' /\ CKNoTemporaryLeft'
    BY <1>1, <2>2, <2>3 DEF FileInv, PathHeld, TemporaryReady, CKNoTemporaryLeft
  <2>5. PathSynced' /\ Current(ckFile)' /\ Current(ckDurable)'
    BY <2>2 DEF FileInv, PathSynced, Current
  <2>6. NumbersFresh'
    BY <2>2, <2>3, SaveStepKeepsNumbers DEF FileInv, Saving
  <2> QED
    BY <2>4, <2>5, <2>6 DEF FileInv
<1>8. ASSUME NEW t \in CKThread, CKReplace(t)
      PROVE  FileInv'
  <2>1. /\ ckT[t].pc = "replace"
        /\ UNCHANGED <<ckClock, ckPath, ckDurable, ckReturned>>
        /\ \A u \in CKThread \ {t} : ckT'[u] = ckT[u] /\ ckTmp'[u] = ckTmp[u]
        /\ ckT'[t].taken = ckT[t].taken
    BY <1>1, <1>8 DEF CKReplace, CKCallState
  <2>2. NumbersFresh'
    BY <2>1, SaveStepKeepsNumbers DEF FileInv, Saving
  <2>3. Current(ckDurable)' /\ ckDurable'.whole /\ ckDurable'.synced
    BY <2>1 DEF FileInv, Current, PathSynced
  <2>4. CASE ckFile' = ckTmp[t] /\ ckTmp' = [ckTmp EXCEPT ![t] = CKNoFile]
             /\ ckT' = [ckT EXCEPT ![t].pc = "dirsync"]
    <3>1. /\ ckFile'.whole /\ ckFile'.synced /\ ckFile'.taken = ckT[t].taken
          /\ ckT'[t].pc = "dirsync" /\ ckTmp'[t] = CKNoFile
      BY <1>1, <2>1, <2>4 DEF FileInv, TemporaryReady, CKCallState
    <3>2. Saving(t) /\ ckPath = t
      BY <2>1 DEF FileInv, PathHeld, Saving
    <3>3. Current(ckFile)'
      BY <2>1, <3>1, <3>2 DEF FileInv, NumbersFresh, Current
    <3>4. PathHeld' /\ TemporaryReady' /\ CKNoTemporaryLeft'
      BY <1>1, <2>1, <3>1, <3>2 DEF FileInv, PathHeld, TemporaryReady, CKNoTemporaryLeft
    <3> QED
      BY <2>2, <2>3, <3>1, <3>3, <3>4 DEF FileInv, PathSynced
  <2>5. CASE ckT' = [ckT EXCEPT ![t].pc = "fail"] /\ UNCHANGED <<ckFile, ckTmp>>
    <3>1. ckT'[t].pc = "fail"
      BY <1>1, <2>5 DEF CKCallState
    <3>2. PathHeld' /\ TemporaryReady' /\ CKNoTemporaryLeft'
      BY <2>1, <2>5, <3>1 DEF FileInv, PathHeld, TemporaryReady, CKNoTemporaryLeft
    <3>3. Current(ckFile)' /\ ckFile'.whole /\ ckFile'.synced
      BY <2>1, <2>5 DEF FileInv, Current, PathSynced
    <3> QED
      BY <2>2, <2>3, <3>2, <3>3 DEF FileInv, PathSynced
  <2> QED
    BY <1>8, <2>4, <2>5 DEF CKReplace
<1>9. ASSUME NEW t \in CKThread, SyncDirectory(t)
      PROVE  FileInv'
  <2>1. /\ ckT[t].pc = "dirsync" /\ Saving(t) /\ ckPath' = CKNobody
        /\ UNCHANGED <<ckClock, ckTmp, ckFile>>
        /\ ckT'[t] = CKIdle
        /\ \A u \in CKThread \ {t} : ckT'[u] = ckT[u]
    BY <1>1, <1>9 DEF SyncDirectory, Release, Saving
  <2>2. \A u \in CKThread \ {t} : ckT[u].pc \notin {"write", "replace", "dirsync", "fail"}
    BY <2>1 DEF FileInv, PathHeld
  <2>3. PathHeld' /\ TemporaryReady' /\ CKNoTemporaryLeft'
    BY <2>1, <2>2, Blanks DEF FileInv, PathHeld, TemporaryReady, CKNoTemporaryLeft
  <2>4. CASE UNCHANGED <<ckDurable, ckReturned>>
    <3>1. PathSynced' /\ Current(ckFile)' /\ Current(ckDurable)'
      BY <2>1, <2>4 DEF FileInv, PathSynced, Current
    <3>2. NumbersFresh'
      BY <2>1, <2>4, Blanks, SaveStepKeepsNumbers DEF FileInv, Saving
    <3> QED
      BY <2>3, <3>1, <3>2 DEF FileInv
  <2>5. CASE /\ ckDurable' = ckFile
             /\ ckReturned' = ckReturned \union {[taken |-> ckT[t].taken, at |-> ckClock]}
    <3> DEFINE new == [taken |-> ckT[t].taken, at |-> ckClock]
    <3>1. /\ new.taken = ckT[t].taken /\ new.at = ckClock
          /\ 0 < ckT[t].taken /\ ckT[t].taken <= ckClock
          /\ \A g \in ckReturned : g.taken # ckT[t].taken /\ g.taken <= ckClock
          /\ ckFile.taken = ckT[t].taken
      BY <2>1 DEF FileInv, NumbersFresh, TemporaryReady
    <3>2. ckReturned' = ckReturned \union {new}
      BY <2>5
    <3> HIDE DEF new
    <3>3. PathSynced'
      BY <2>1, <2>5 DEF FileInv, PathSynced
    <3>4. Current(ckFile)'
      <4> SUFFICES ASSUME NEW k \in ckReturned'
                   PROVE  /\ ckFile'.taken > 0
                          /\ \A g \in ckReturned' :
                                g.taken = ckFile'.taken => ~(g.at < k.taken)
        BY DEF Current
      <4>1. ckFile'.taken > 0
        BY <1>1, <2>1, <3>1
      <4>2. k.taken <= ckClock
        BY <3>1, <3>2
      <4>3. k.taken \in Nat
        BY <1>1, <3>1, <3>2
      <4>4. \A g \in ckReturned' : g.taken = ckFile'.taken => g = new
        BY <2>1, <3>1, <3>2
      <4> QED
        BY <1>1, <3>1, <4>1, <4>2, <4>3, <4>4
    <3>5. Current(ckDurable)'
      BY <2>1, <2>5, <3>4 DEF Current
    <3>6. \A u \in CKThread : Saving(u)' => u # t /\ Saving(u) /\ ckT'[u] = ckT[u]
      BY <2>1, Blanks DEF Saving
    <3>7. NumbersFresh'
      BY <1>1, <2>1, <3>1, <3>2, <3>6 DEF FileInv, NumbersFresh
    <3> QED
      BY <2>3, <3>3, <3>4, <3>5, <3>7 DEF FileInv
  <2> QED
    BY <1>9, <2>4, <2>5 DEF SyncDirectory
<1>10. ASSUME NEW t \in CKThread, CKFail(t)
       PROVE  FileInv'
  <2>1. /\ ckT[t].pc = "fail" /\ Saving(t) /\ ckPath' = CKNobody
        /\ UNCHANGED <<ckClock, ckFile, ckDurable, ckReturned>>
        /\ ckT'[t] = CKIdle /\ ckTmp'[t] = CKNoFile
        /\ \A u \in CKThread \ {t} : ckT'[u] = ckT[u] /\ ckTmp'[u] = ckTmp[u]
    BY <1>1, <1>10 DEF CKFail, Release, Saving
  <2>2. \A u \in CKThread \ {t} : ckT[u].pc \notin {"write", "replace", "dirsync", "fail"}
    BY <2>1 DEF FileInv, PathHeld
  <2>3. PathHeld' /\ TemporaryReady' /\ CKNoTemporaryLeft'
    BY <2>1, <2>2, Blanks DEF FileInv, PathHeld, TemporaryReady, CKNoTemporaryLeft
  <2>4. PathSynced' /\ Current(ckFile)' /\ Current(ckDurable)'
    BY <2>1 DEF FileInv, PathSynced, Current
  <2>5. NumbersFresh'
    BY <2>1, Blanks, SaveStepKeepsNumbers DEF FileInv, Saving
  <2> QED
    BY <2>3, <2>4, <2>5 DEF FileInv
<1> QED
  BY <1>2, <1>3, <1>4, <1>5, <1>6, <1>7, <1>8, <1>9, <1>10 DEF CKNext, CKStep

\* ThreadSafeStreamLog and _atomic_write_json keep their promises for any
\* number of threads, logs and batches: whatever step fails and whenever the
\* power does, the path holds a complete checkpoint, one that no returned
\* save supersedes; no temporary file outlives its save; and drain and merge
\* lose no batch that was added.
THEOREM CheckpointSafe == CKSpec => []CKSafe
<1> DEFINE Inv == CallTypes /\ LogTypes /\ FileTypes /\ FileInv /\ CKNoLostBatch
<1>1. CKInit => Inv
  <2> SUFFICES ASSUME CKInit PROVE Inv
    OBVIOUS
  <2>1. CallTypes /\ LogTypes /\ FileTypes
    BY Blanks DEF CKInit, CallTypes, LogTypes, FileTypes
  <2>2. FileInv /\ CKNoLostBatch
    BY Blanks DEF CKInit, FileInv, PathHeld, TemporaryReady, PathSynced, NumbersFresh,
                  Saving, Current, CKNoTemporaryLeft, CKNoLostBatch
  <2> QED
    BY <2>1, <2>2
<1>2. Inv /\ [CKNext]_ckVars => Inv'
  BY TypesStep, FilesStep, NoLostBatchStep
<1>3. Inv => CKSafe
  BY DEF FileInv, PathSynced, Current, CKSafe, CKNeverTorn, CKSavedSurvives
<1> QED
  BY <1>1, <1>2, <1>3, PTL DEF CKSpec

-----------------------------------------------------------------------------
(* WindowedLog: reads that answer for the window.                           *)

WLSpec == WLInit /\ [][WLNext]_wlVars

WLRing == [bucket |-> wlBucket, start |-> wlStart, cur |-> wlCurrent,
           merged |-> wlMerged, expires |-> wlExpires]
Shaped == wlShape.n \in Nat \ {0} /\ wlShape.window \in Nat \ {0}

\* A bucket holds what was added within a Duration of its start.  Counted
\* ahead from the current one, the a-th bucket is the a-th to be cleared; its
\* values are so old that clearing it then costs nothing of the window, and
\* what was cleared is that old already.
RingOK(r) ==
    /\ r.cur \in Ring /\ r.start \in [Ring -> Nat] /\ r.bucket \in [Ring -> SUBSET wlAll]
    /\ r.start[r.cur] <= wlNow
    /\ \A i \in Ring : \A t \in r.bucket[i] : r.start[i] <= t /\ t < r.start[i] + Duration
    /\ \A a \in 1 .. wlShape.n : \A t \in r.bucket[(r.cur + a) % wlShape.n] :
          t + wlShape.n * Duration < r.start[r.cur] + (a + 1) * Duration
    /\ \A t \in wlAll : \/ \E i \in Ring : t \in r.bucket[i]
                        \/ t + wlShape.n * Duration < r.start[r.cur] + Duration

\* The cache is the merge of a set A of buckets: those outside of it are empty
\* or out of the window, and those in it, but for the current one, stay in
\* the window until the cache expires.
CachedBy(r, A) ==
    /\ r.merged = UNION {r.bucket[i] : i \in A}
    /\ \A i \in Ring \ A : r.bucket[i] # {} => r.start[i] + wlShape.window < wlNow
    /\ \A i \in A \ {r.cur} : r.expires <= r.start[i] + wlShape.window
CacheOK(r) == r.expires \in Nat /\ \E A \in SUBSET Ring : CachedBy(r, A)

WLInv ==
    /\ Shaped /\ wlNow \in Nat /\ wlAll \in SUBSET Nat
    /\ RingOK(WLRing) /\ CacheOK(WLRing)

\* Products with a common factor.
LEMMA Multiples ==
    ASSUME NEW d \in Nat
    PROVE  /\ \A a \in Nat : a * d \in Nat
           /\ \A a, b \in Nat : (a + b) * d = a * d + b * d
           /\ \A a, b \in Nat : a <= b => a * d <= b * d
<1>1. \A a \in Nat : a * d \in Nat
  OBVIOUS
<1>2. \A a, b \in Nat : (a + b) * d = a * d + b * d
  OBVIOUS
<1>3. ASSUME NEW a \in Nat, NEW b \in Nat, a <= b PROVE a * d <= b * d
  <2>1. PICK c \in Nat : b = a + c
    <3>1. b - a \in Nat /\ b = a + (b - a)
      BY <1>3
    <3> QED BY <3>1
  <2>2. b * d = a * d + c * d /\ a * d \in Nat /\ c * d \in Nat
    BY <1>1, <1>2, <2>1
  <2> QED BY <2>2
<1> QED BY <1>1, <1>2, <1>3

\* What integer division by a positive number returns.
LEMMA Quotient ==
    ASSUME NEW d \in Nat, NEW w \in Nat \ {0}
    PROVE  d \div w \in Nat /\ (d \div w) * w <= d /\ d < (d \div w) * w + w
  OBVIOUS

\* The buckets cover the window, and none is longer than it.
LEMMA DurationFits ==
    ASSUME Shaped
    PROVE  /\ Duration \in Nat \ {0} /\ Duration <= wlShape.window
           /\ wlShape.n * Duration \in Nat /\ wlShape.window <= wlShape.n * Duration
<1> DEFINE n == wlShape.n
           w == wlShape.window
           d == Duration
<1>1. n \in Nat \ {0} /\ w \in Nat \ {0}
  BY DEF Shaped
<1> HIDE DEF n, w
<1>2. d = (w + n - 1) \div n
  BY DEF Duration, n, w
<1> HIDE DEF d
<1>3. w + n - 1 \in Nat
  BY <1>1
<1>4. d \in Nat /\ d * n <= w + n - 1 /\ w + n - 1 < d * n + n
  BY <1>1, <1>2, <1>3, Quotient
<1>5. d * n \in Nat
  BY <1>1, <1>4, Multiples
<1>6. w <= d * n
  BY <1>1, <1>4, <1>5
<1>7. d # 0
  BY <1>1, <1>4, <1>6
<1>8. d <= w
  <2> SUFFICES ASSUME w + 1 <= d PROVE FALSE
    BY <1>1, <1>4
  <2>1. w + 1 \in Nat /\ (w + 1) * n <= d * n /\ (w + 1) * n = w * n + 1 * n
    BY <1>1, <1>4, Multiples
  <2>2. w * n \in Nat /\ 1 * n = n
    BY <1>1, Multiples
  <2>3. w <= w * n
    <3>1. 1 * w <= n * w
      BY <1>1, Multiples
    <3>2. n * w = w * n /\ 1 * w = w
      BY <1>1
    <3> QED BY <3>1, <3>2
  <2> QED BY <1>1, <1>4, <1>5, <2>1, <2>2, <2>3
<1>9. d * n = n * d
  BY <1>1, <1>4
<1> QED BY <1>4, <1>5, <1>6, <1>7, <1>8, <1>9 DEF n, w, d

\* The remainder of a number below twice the divisor.
LEMMA Wraps ==
    ASSUME NEW n \in Nat \ {0}, NEW x \in Nat, x < 2 * n
    PROVE  x % n = IF x < n THEN x ELSE x - n
<1>1. CASE x < n
  BY <1>1
<1>2. CASE ~(x < n)
  <2>1. x - n \in Nat /\ x - n < n
    BY <1>2
  <2>2. x = n * 1 + (x - n)
    BY <2>1
  <2> QED BY <1>2, <2>1, <2>2
<1> QED BY <1>1, <1>2

\* Positions of the ring counted ahead of one of them, once around.
LEMMA Ahead ==
    ASSUME NEW n \in Nat \ {0}, NEW c \in 0 .. n - 1
    PROVE  /\ \A a \in 0 .. n : (c + a) % n = IF c + a < n THEN c + a ELSE c + a - n
           /\ \A a \in 0 .. n : (c + a) % n \in 0 .. n - 1
           /\ \A a, b \in 1 .. n : (c + a) % n = (c + b) % n => a = b
           /\ \A i \in 0 .. n - 1 : \E a \in 1 .. n : i = (c + a) % n
<1>1. \A a \in 0 .. n : (c + a) % n = IF c + a < n THEN c + a ELSE c + a - n
  <2> SUFFICES ASSUME NEW a \in 0 .. n
               PROVE  (c + a) % n = IF c + a < n THEN c + a ELSE c + a - n
    OBVIOUS
  <2> DEFINE x == c + a
  <2>1. x \in Nat /\ x < 2 * n
    OBVIOUS
  <2> HIDE DEF x
  <2>2. x % n = IF x < n THEN x ELSE x - n
    BY <2>1, Wraps
  <2> QED BY <2>2 DEF x
<1>2. \A a \in 0 .. n : (c + a) % n \in 0 .. n - 1
  BY <1>1
<1>3. \A a, b \in 1 .. n : (c + a) % n = (c + b) % n => a = b
  <2> SUFFICES ASSUME NEW a \in 1 .. n, NEW b \in 1 .. n, (c + a) % n = (c + b) % n
               PROVE  a = b
    OBVIOUS
  <2>1. /\ (c + a) % n = IF c + a < n THEN c + a ELSE c + a - n
        /\ (c + b) % n = IF c + b < n THEN c + b ELSE c + b - n
    <3>1. a \in 0 .. n /\ b \in 0 .. n
      OBVIOUS
    <3> QED BY <1>1, <3>1, Zenon
  <2> QED BY <2>1
<1>4. ASSUME NEW i \in 0 .. n - 1 PROVE \E a \in 1 .. n : i = (c + a) % n
  <2> DEFINE a == IF i > c THEN i - c ELSE i + n - c
  <2>1. a \in 1 .. n /\ (c + a = i \/ c + a = i + n) /\ (c + a < n <=> c + a = i)
    OBVIOUS
  <2>2. (c + a) % n = i
    <3> HIDE DEF a
    <3> QED BY <1>1, <2>1
  <2> QED BY <2>1, <2>2
<1> QED BY <1>1, <1>2, <1>3, <1>4

\* A set of naturals has a least element: the first bucket to expire.
LEMMA FirstToExpire ==
    ASSUME NEW S \in SUBSET Nat, S # {}
    PROVE  \E m \in S : \A y \in S : m <= y
<1>1. IsWellFoundedOn(OpToRel(<, Nat), Nat)
  BY NatLessThanWellFounded
<1>2. PICK m \in S : \A y \in S : ~(<<y, m>> \in OpToRel(<, Nat))
  BY <1>1, WFMin
<1>3. \A y \in S : <<y, m>> \in OpToRel(<, Nat) <=> y < m
  BY DEF OpToRel
<1>4. \A y \in S : ~(y < m)
  BY <1>2, <1>3
<1> QED BY <1>4

\* A cache that was just rebuilt.
LEMMA Rebuilt ==
    ASSUME Shaped, wlNow \in Nat, NEW b, NEW s \in [Ring -> Nat], NEW c,
           NEW r, r = _rebuild_merged(b, s, c)
    PROVE  /\ r.bucket = b /\ r.start = s /\ r.cur = c
           /\ r.merged = _active_buckets(b, s) /\ CacheOK(r)
<1> DEFINE A == ActiveIn(b, s)
           ends == {s[i] + wlShape.window : i \in A}
           e == IF ends = {} THEN WLInf ELSE CHOOSE x \in ends : \A f \in ends : x <= f
<1>1. r = [bucket |-> b, start |-> s, cur |-> c, merged |-> _active_buckets(b, s), expires |-> e]
  BY Zenon DEF _rebuild_merged
<1>2. A \in SUBSET Ring /\ wlShape.window \in Nat
  BY DEF ActiveIn, Shaped
<1>3. \A i \in Ring \ A : b[i] # {} => s[i] + wlShape.window < wlNow
  BY <1>2 DEF ActiveIn
<1> HIDE DEF A
<1>4. ends \in SUBSET Nat
  BY <1>2
<1>5. e \in Nat /\ \A x \in ends : e <= x
  <2>1. CASE ends = {}
    BY <2>1, WLAssumption DEF WLInf
  <2>2. CASE ends # {}
    <3>1. \E m \in ends : \A y \in ends : m <= y
      BY <1>4, <2>2, FirstToExpire
    <3>2. e = CHOOSE x \in ends : \A f \in ends : x <= f
      BY <2>2
    <3> HIDE DEF e, ends
    <3>3. e \in ends /\ \A f \in ends : e <= f
      BY <3>1, <3>2
    <3> QED BY <1>4, <3>3
  <2> QED BY <2>1, <2>2
<1>6. \A i \in A : e <= s[i] + wlShape.window
  BY <1>5
<1> HIDE DEF e
<1>7. r.merged = UNION {r.bucket[i] : i \in A}
  BY <1>1 DEF _active_buckets, A
<1>8. CachedBy(r, A)
  BY <1>1, <1>3, <1>6, <1>7 DEF CachedBy
<1>9. CacheOK(r)
  BY <1>1, <1>2, <1>5, <1>8 DEF CacheOK
<1> QED BY <1>1, <1>9

\* A ring that was idle too long is cleared: all that was added is too old.
LEMMA IdleCleared ==
    ASSUME WLInv, NEW r, r.bucket = [i \in Ring |-> {}], r.start = [i \in Ring |-> wlNow],
           r.cur = wlCurrent, wlNow - wlStart[wlCurrent] >= wlShape.n * Duration
    PROVE  RingOK(r)
<1> DEFINE n == wlShape.n
           D == Duration
           s == wlStart[wlCurrent]
<1>1. n \in Nat \ {0} /\ D \in Nat \ {0} /\ n * D \in Nat
  BY DurationFits DEF WLInv, Shaped
<1>2. /\ wlCurrent \in Ring /\ s \in Nat /\ wlNow \in Nat /\ Ring = 0 .. n - 1 /\ wlAll \in SUBSET Nat
      /\ wlNow - s >= n * D
  BY DEF WLInv, RingOK, WLRing, Ring
<1>3. /\ \A a \in 1 .. n : \A t \in wlBucket[(wlCurrent + a) % n] : t + n * D < s + (a + 1) * D
      /\ \A t \in wlAll : (\E i \in Ring : t \in wlBucket[i]) \/ t + n * D < s + D
  BY DEF WLInv, RingOK, WLRing
<1>4. \A i \in Ring : \E a \in 1 .. n : i = (wlCurrent + a) % n
  <2>1. n \in Nat \ {0} /\ wlCurrent \in 0 .. n - 1
    BY <1>1, <1>2
  <2> HIDE DEF n
  <2>2. \A i \in 0 .. n - 1 : \E a \in 1 .. n : i = (wlCurrent + a) % n
    BY <2>1, Ahead, Zenon
  <2> QED BY <1>2, <2>2, Zenon
<1>5. r.cur \in Ring /\ r.start[r.cur] = wlNow
  BY <1>2
<1>6. ASSUME NEW t \in wlAll PROVE t + n * D < wlNow + D
  <2>1. CASE \E i \in Ring : t \in wlBucket[i]
    <3>1. PICK a \in 1 .. n : t \in wlBucket[(wlCurrent + a) % n]
      BY <1>4, <2>1
    <3>2. t + n * D < s + (a + 1) * D
      BY <1>3, <3>1
    <3>3. (a + 1) * D <= (n + 1) * D /\ (n + 1) * D = n * D + 1 * D /\ (a + 1) * D \in Nat
      BY <1>1, Multiples
    <3>4. 1 * D = D /\ t \in Nat
      BY <1>1, <1>2
    <3> HIDE DEF D, n, s
    <3> DEFINE nD == n * D
               aD == (a + 1) * D
    <3>5. t + nD < s + aD /\ aD <= nD + D /\ wlNow - s >= nD /\ nD \in Nat /\ aD \in Nat
      BY <1>1, <1>2, <3>2, <3>3, <3>4
    <3> HIDE DEF nD, aD
    <3>6. t + nD < wlNow + D
      BY <1>1, <1>2, <3>4, <3>5
    <3> QED BY <3>6 DEF nD
  <2>2. CASE t + n * D < s + D
    <3>1. s <= wlNow /\ t \in Nat
      BY <1>1, <1>2
    <3> HIDE DEF D, n, s
    <3> DEFINE nD == n * D
    <3>2. nD \in Nat /\ t + nD < s + D
      BY <1>1, <2>2
    <3> HIDE DEF nD
    <3>3. t + nD < wlNow + D
      BY <1>1, <1>2, <3>1, <3>2
    <3> QED BY <3>3 DEF nD
  <2> QED BY <1>3, <2>1, <2>2
<1>7. \A a \in 1 .. n : (r.cur + a) % n \in Ring
  <2>1. \A a \in 0 .. n : (wlCurrent + a) % n \in 0 .. n - 1
    <3>1. n \in Nat \ {0} /\ wlCurrent \in 0 .. n - 1
      BY <1>1, <1>2
    <3> HIDE DEF n
    <3> QED BY <3>1, Ahead, Zenon
  <2>2. \A a \in 1 .. n : a \in 0 .. n
    BY <1>1
  <2> QED BY <1>2, <2>1, <2>2
<1>8. \A i \in Ring : r.bucket[i] = {}
  OBVIOUS
<1>9. r.start \in [Ring -> Nat] /\ r.bucket \in [Ring -> SUBSET wlAll]
  BY <1>2
<1>10. r.start[r.cur] <= wlNow
  BY <1>2, <1>5
<1>11. \A i \in Ring : \A t \in r.bucket[i] : r.start[i] <= t /\ t < r.start[i] + Duration
  BY <1>8, Zenon
<1>12. \A a \in 1 .. wlShape.n : \A t \in r.bucket[(r.cur + a) % wlShape.n] :
          t + wlShape.n * Duration < r.start[r.cur] + (a + 1) * Duration
  BY <1>7, <1>8, Zenon
<1>13. \A t \in wlAll : t + wlShape.n * Duration < r.start[r.cur] + Duration
  BY <1>5, <1>6, Zenon
<1> QED BY <1>5, <1>9, <1>10, <1>11, <1>12, <1>13, Zenon DEF RingOK

\* The ring advances by the durations that have passed.  Bucket a ahead of the
\* new current bucket is bucket steps + a ahead of the old one, or one of
\* those that were cleared.
LEMMA RingTurned ==
    ASSUME WLInv, NEW steps \in Nat, steps < wlShape.n,
           steps * Duration <= wlNow - wlStart[wlCurrent],
           NEW r,
           r.bucket = [i \in Ring |-> IF i \in Turned(steps) THEN {} ELSE wlBucket[i]],
           r.start = [i \in Ring |-> IF i \in Turned(steps) THEN TurnedStart(i, steps) ELSE wlStart[i]],
           r.cur = (wlCurrent + steps) % wlShape.n
    PROVE  RingOK(r) /\ r.start[r.cur] = wlStart[wlCurrent] + steps * Duration
<1> DEFINE n == wlShape.n
           D == Duration
           s == wlStart[wlCurrent]
           c == wlCurrent
           at(a) == (c + a) % n
<1>1. n \in Nat \ {0} /\ D \in Nat \ {0} /\ n * D \in Nat
  BY DurationFits DEF WLInv, Shaped
<1>2. /\ c \in Ring /\ s \in Nat /\ wlNow \in Nat /\ Ring = 0 .. n - 1 /\ wlAll \in SUBSET Nat
      /\ wlStart \in [Ring -> Nat] /\ wlBucket \in [Ring -> SUBSET wlAll]
  BY DEF WLInv, RingOK, WLRing, Ring
<1>3. /\ \A i \in Ring : \A t \in wlBucket[i] : wlStart[i] <= t /\ t < wlStart[i] + D
      /\ \A a \in 1 .. n : \A t \in wlBucket[at(a)] : t + n * D < s + (a + 1) * D
      /\ \A t \in wlAll : (\E i \in Ring : t \in wlBucket[i]) \/ t + n * D < s + D
  BY DEF WLInv, RingOK, WLRing
<1>4. /\ \A a \in 0 .. n : at(a) = IF c + a < n THEN c + a ELSE c + a - n
      /\ \A a \in 0 .. n : at(a) \in Ring
      /\ \A a, b \in 1 .. n : at(a) = at(b) => a = b
      /\ \A i \in Ring : \E a \in 1 .. n : i = at(a)
  <2>1. c \in 0 .. n - 1
    BY <1>2
  <2> HIDE DEF n, c
  <2>2. /\ \A a \in 0 .. n : at(a) = IF c + a < n THEN c + a ELSE c + a - n
        /\ \A a \in 0 .. n : at(a) \in 0 .. n - 1
        /\ \A a, b \in 1 .. n : at(a) = at(b) => a = b
        /\ \A i \in 0 .. n - 1 : \E a \in 1 .. n : i = at(a)
    BY <1>1, <2>1, Ahead, Zenon
  <2> HIDE DEF at
  <2>3. Ring = 0 .. n - 1
    BY <1>2
  <2> QED BY <2>2, <2>3, Zenon
<1>5. /\ Turned(steps) = {at(k) : k \in 1 .. steps}
      /\ \A i : TurnedStart(i, steps) = s + (CHOOSE k \in 1 .. steps : i = at(k)) * D
      /\ r.cur = at(steps) /\ steps * D <= wlNow - s
  BY Zenon DEF Turned, TurnedStart
<1>6. \A a \in 1 .. n : at(a) \in Turned(steps) <=> a <= steps
  <2> HIDE DEF at
  <2> SUFFICES ASSUME NEW a \in 1 .. n PROVE at(a) \in Turned(steps) <=> a <= steps
    OBVIOUS
  <2>1. ASSUME a <= steps PROVE at(a) \in Turned(steps)
    <3>1. a \in 1 .. steps
      BY <1>1, <2>1
    <3> QED BY <1>5, <3>1
  <2>2. ASSUME at(a) \in Turned(steps) PROVE a <= steps
    <3>1. PICK k \in 1 .. steps : at(a) = at(k)
      BY <1>5, <2>2
    <3>2. k \in 1 .. n
      BY <1>1
    <3>3. a = k
      BY <1>4, <3>1, <3>2
    <3> QED BY <3>3
  <2> QED BY <2>1, <2>2
<1>7. \A k \in 1 .. steps : TurnedStart(at(k), steps) = s + k * D
  <2> SUFFICES ASSUME NEW k \in 1 .. steps PROVE TurnedStart(at(k), steps) = s + k * D
    OBVIOUS
  <2> DEFINE chosen == CHOOSE j \in 1 .. steps : at(k) = at(j)
  <2>1. chosen \in 1 .. steps /\ at(k) = at(chosen)
    <3> HIDE DEF at
    <3> QED OBVIOUS
  <2>2. TurnedStart(at(k), steps) = s + chosen * D
    BY <1>5, Zenon
  <2> HIDE DEF chosen, at
  <2>3. chosen \in 1 .. n /\ k \in 1 .. n
    BY <2>1, <1>1
  <2>4. chosen = k
    BY <1>4, <2>1, <2>3
  <2> QED BY <2>2, <2>4
<1>8. r.start \in [Ring -> Nat] /\ r.bucket \in [Ring -> SUBSET wlAll]
  <2>1. ASSUME NEW i \in Turned(steps) PROVE TurnedStart(i, steps) \in Nat
    <3>1. PICK k \in 1 .. steps : i = at(k)
      BY <1>5, <2>1, Zenon
    <3>2. TurnedStart(i, steps) = s + k * D
      BY <1>7, <3>1
    <3>3. k \in Nat /\ k * D \in Nat
      BY <1>1, Multiples
    <3> QED BY <1>2, <3>2, <3>3
  <2> QED BY <1>2, <2>1
<1>9. r.cur \in Ring /\ r.start[r.cur] = s + steps * D
  <2>1. steps \in 0 .. n
    BY <1>1
  <2>2. r.cur \in Ring
    <3> HIDE DEF at
    <3> QED BY <1>4, <1>5, <2>1
  <2>3. CASE steps = 0
    <3>1. Turned(steps) = {}
      BY <1>5, <2>3
    <3>2. r.cur = c
      BY <1>1, <1>2, <1>4, <1>5, <2>1, <2>3
    <3>3. r.start[r.cur] = s
      BY <1>2, <3>1, <3>2
    <3>4. s + steps * D = s
      BY <1>1, <1>2, <2>3
    <3> QED BY <2>2, <3>3, <3>4
  <2>4. CASE steps # 0
    <3>1. steps \in 1 .. steps /\ steps \in 1 .. n
      BY <2>4, <1>1
    <3>2. r.cur \in Turned(steps)
      BY <1>5, <3>1
    <3>3. r.start[r.cur] = TurnedStart(r.cur, steps)
      BY <2>2, <3>2
    <3>4. TurnedStart(at(steps), steps) = s + steps * D
      BY <1>7, <3>1, Zenon
    <3> QED BY <1>5, <2>2, <3>3, <3>4
  <2> QED BY <2>3, <2>4
<1>10. \A i \in Ring : \A t \in r.bucket[i] : r.start[i] <= t /\ t < r.start[i] + D
  BY <1>3
<1> DEFINE sD == steps * D
           nD == n * D
<1>11. sD \in Nat /\ nD \in Nat /\ s + sD <= wlNow
  BY <1>1, <1>2, <1>5, Multiples
<1>12. ASSUME NEW a \in 1 .. n, NEW t \in r.bucket[(r.cur + a) % n]
       PROVE  t + nD < s + sD + (a + 1) * D
  <2>1. (r.cur + a) % n = IF r.cur + a < n THEN r.cur + a ELSE r.cur + a - n
    <3>1. a \in 0 .. n /\ r.cur \in 0 .. n - 1
      BY <1>2, <1>9
    <3> DEFINE x == r.cur
    <3> HIDE DEF n, x
    <3>2. n \in Nat \ {0} /\ x \in 0 .. n - 1
      BY <1>1, <3>1 DEF x
    <3>3. \A y \in 0 .. n : (x + y) % n = IF x + y < n THEN x + y ELSE x + y - n
      BY <3>2, Ahead, Zenon
    <3> QED BY <3>1, <3>3, Zenon DEF x
  <2>2. r.cur = IF c + steps < n THEN c + steps ELSE c + steps - n
    BY <1>1, <1>4, <1>5
  <2> DEFINE i == (r.cur + a) % n
  <2>3. CASE steps + a <= n
    <3> DEFINE b == steps + a
    <3>1. b \in 1 .. n /\ b \in 0 .. n /\ ~(b <= steps)
      BY <2>3
    <3>2. at(b) = IF c + b < n THEN c + b ELSE c + b - n
      BY <1>4, <3>1, Zenon
    <3>3. i = at(b)
      <4>1. c \in 0 .. n - 1
        BY <1>2
      <4> HIDE DEF at, i
      <4>2. i = IF r.cur + a < n THEN r.cur + a ELSE r.cur + a - n
        BY <2>1 DEF i
      <4> QED BY <1>1, <2>2, <2>3, <3>1, <3>2, <4>1, <4>2
    <3>4. i \notin Turned(steps) /\ i \in Ring
      BY <1>4, <1>6, <3>1, <3>3, Zenon
    <3>5. t \in wlBucket[at(b)]
      BY <3>3, <3>4
    <3>6. t + nD < s + (b + 1) * D
      BY <1>3, <3>1, <3>5, Zenon
    <3>7. (b + 1) * D = sD + (a + 1) * D /\ (a + 1) * D \in Nat
      <4>1. b + 1 = steps + (a + 1) /\ a + 1 \in Nat
        OBVIOUS
      <4> QED BY <1>1, <4>1, Multiples
    <3> DEFINE aD == (a + 1) * D
    <3>8. t + nD < s + (sD + aD) /\ aD \in Nat
      BY <3>6, <3>7
    <3> HIDE DEF aD, sD, nD, s
    <3>9. t + nD < s + sD + aD
      BY <1>2, <1>11, <3>8
    <3> QED BY <3>9 DEF aD
  <2>4. CASE ~(steps + a <= n)
    <3> DEFINE b == steps + a - n
    <3>1. b \in 1 .. n /\ b \in 0 .. n /\ b <= steps
      BY <1>1, <2>4
    <3>2. at(b) = IF c + b < n THEN c + b ELSE c + b - n
      BY <1>4, <3>1, Zenon
    <3>3. i = at(b)
      <4>1. c \in 0 .. n - 1
        BY <1>2
      <4> HIDE DEF at, i
      <4>2. i = IF r.cur + a < n THEN r.cur + a ELSE r.cur + a - n
        BY <2>1 DEF i
      <4> QED BY <1>1, <2>2, <2>4, <3>1, <3>2, <4>1, <4>2
    <3>4. i \in Turned(steps) /\ i \in Ring
      BY <1>4, <1>6, <3>1, <3>3, Zenon
    <3>5. r.bucket[i] = {}
      BY <3>4
    <3> QED BY <1>12, <3>5
  <2> QED BY <2>3, <2>4
<1>13. ASSUME NEW t \in wlAll, ~\E i \in Ring : t \in r.bucket[i]
       PROVE  t + nD < s + sD + D
  <2>1. CASE \E i \in Ring : t \in wlBucket[i]
    <3>1. PICK i \in Ring : t \in wlBucket[i]
      BY <2>1
    <3>2. i \in Turned(steps)
      BY <1>13, <3>1
    <3>3. PICK a \in 1 .. n : i = at(a)
      BY <1>4, Zenon
    <3>4. a <= steps
      BY <1>6, <3>2, <3>3, Zenon
    <3>5. t + nD < s + (a + 1) * D
      BY <1>3, <3>1, <3>3, Zenon
    <3>6. (a + 1) * D <= (steps + 1) * D /\ (steps + 1) * D = sD + 1 * D /\ (a + 1) * D \in Nat
      BY <1>1, <3>4, Multiples
    <3>7. 1 * D = D
      BY <1>1
    <3> DEFINE aD == (a + 1) * D
    <3>8. t + nD < s + aD /\ aD <= sD + D /\ aD \in Nat /\ t \in Nat
      BY <1>2, <3>5, <3>6, <3>7
    <3> HIDE DEF aD, sD, nD, s, D
    <3> QED BY <1>1, <1>2, <1>11, <3>8
  <2>2. CASE t + nD < s + D
    <3>1. t \in Nat
      BY <1>2
    <3> HIDE DEF sD, nD, s, D
    <3> QED BY <1>1, <1>2, <1>11, <2>2, <3>1
  <2> QED BY <1>3, <2>1, <2>2
<1>14. /\ \A a \in 1 .. n : \A t \in r.bucket[(r.cur + a) % n] : t + nD < r.start[r.cur] + (a + 1) * D
       /\ \A t \in wlAll : (\E i \in Ring : t \in r.bucket[i]) \/ t + nD < r.start[r.cur] + D
       /\ r.start[r.cur] <= wlNow
  BY <1>9, <1>11, <1>12, <1>13
<1> QED BY <1>8, <1>9, <1>10, <1>14 DEF RingOK

\* What _rotate leaves, in any state: a ring in order whose current bucket is
\* that of the present, and a cache that is the merge of the active buckets.
LEMMA RotateOK ==
    ASSUME WLInv
    PROVE  LET r == _rotate
           IN  /\ RingOK(r) /\ CacheOK(r) /\ wlNow < r.start[r.cur] + Duration
               /\ r.merged = _active_buckets(r.bucket, r.start)
               /\ r = [bucket |-> r.bucket, start |-> r.start, cur |-> r.cur,
                       merged |-> r.merged, expires |-> r.expires]
<1> DEFINE r == _rotate
           D == Duration
           s == wlStart[wlCurrent]
           elapsed == wlNow - s
           steps == elapsed \div D
           cleared == [i \in Ring |-> IF i \in Turned(steps) THEN {} ELSE wlBucket[i]]
           started == [i \in Ring |-> IF i \in Turned(steps) THEN TurnedStart(i, steps) ELSE wlStart[i]]
           empty == [i \in Ring |-> {}]
           fresh == [i \in Ring |-> wlNow]
           next == (wlCurrent + steps) % wlShape.n
<1>1. /\ elapsed >= wlShape.n * D => r = _rebuild_merged(empty, fresh, wlCurrent)
      /\ ~(elapsed >= wlShape.n * D) /\ (steps > 0 \/ wlNow > wlExpires)
            => r = _rebuild_merged(cleared, started, next)
      /\ ~(elapsed >= wlShape.n * D) /\ ~(steps > 0 \/ wlNow > wlExpires) => r = WLRing
  BY Zenon DEF _rotate, RotateBody, WLRing
<1>2. /\ Shaped /\ wlNow \in Nat /\ RingOK(WLRing) /\ CacheOK(WLRing)
      /\ wlCurrent \in Ring /\ wlStart \in [Ring -> Nat] /\ s \in Nat /\ s <= wlNow
  BY DEF WLInv, RingOK, WLRing
<1>3. /\ D \in Nat \ {0} /\ D <= wlShape.window /\ wlShape.n * D \in Nat
      /\ wlShape.n \in Nat \ {0} /\ wlShape.window \in Nat
  BY <1>2, DurationFits DEF Shaped
<1>4. elapsed \in Nat /\ steps \in Nat /\ steps * D <= elapsed /\ elapsed < steps * D + D /\ steps * D \in Nat
  <2> HIDE DEF D
  <2>1. elapsed \in Nat
    BY <1>2
  <2> HIDE DEF elapsed
  <2>2. steps \in Nat /\ steps * D <= elapsed /\ elapsed < steps * D + D
    BY <1>3, <2>1, Quotient
  <2> HIDE DEF steps
  <2> QED BY <1>3, <2>1, <2>2, Multiples
<1> HIDE DEF r
<1>5. \A b, st, c : _rebuild_merged(b, st, c) =
            [bucket |-> _rebuild_merged(b, st, c).bucket, start |-> _rebuild_merged(b, st, c).start,
             cur |-> _rebuild_merged(b, st, c).cur, merged |-> _rebuild_merged(b, st, c).merged,
             expires |-> _rebuild_merged(b, st, c).expires]
  BY DEF _rebuild_merged
<1>6. CASE elapsed >= wlShape.n * D
  <2>1. fresh \in [Ring -> Nat]
    BY <1>2
  <2> HIDE DEF empty, fresh
  <2>2. /\ r.bucket = empty /\ r.start = fresh /\ r.cur = wlCurrent
        /\ r.merged = _active_buckets(empty, fresh) /\ CacheOK(r)
    <3>1. r = _rebuild_merged(empty, fresh, wlCurrent)
      BY <1>1, <1>6
    <3> HIDE DEF D, s, elapsed, steps, cleared, started, next
    <3>2. Shaped /\ wlNow \in Nat /\ fresh \in [Ring -> Nat]
      BY <1>2, <2>1
    <3> QED BY <3>1, <3>2, Rebuilt
  <2>3. RingOK(r)
    BY <1>6, <2>2, IdleCleared DEF empty, fresh
  <2>4. wlNow < r.start[r.cur] + D
    BY <1>2, <1>3, <2>2 DEF fresh
  <2> QED BY <1>1, <1>5, <1>6, <2>2, <2>3, <2>4 DEF r
<1>7. CASE ~(elapsed >= wlShape.n * D) /\ (steps > 0 \/ wlNow > wlExpires)
  <2>1. steps < wlShape.n
    <3> SUFFICES ASSUME wlShape.n <= steps PROVE FALSE
      BY <1>3, <1>4
    <3>1. wlShape.n * D <= steps * D
      BY <1>3, <1>4, Multiples
    <3> QED BY <1>3, <1>4, <1>7, <3>1
  <2> DEFINE q == [bucket |-> cleared, start |-> started, cur |-> next]
  <2>2. RingOK(q) /\ q.start[q.cur] = s + steps * D
    <3> HIDE DEF steps
    <3>1. q.bucket = cleared /\ q.start = started /\ q.cur = next
      OBVIOUS
    <3> HIDE DEF q
    <3> QED BY <1>4, <2>1, <3>1, RingTurned
  <2> HIDE DEF cleared, started, next
  <2>3. started \in [Ring -> Nat]
    BY <2>2 DEF RingOK
  <2>4. /\ r.bucket = cleared /\ r.start = started /\ r.cur = next
        /\ r.merged = _active_buckets(cleared, started) /\ CacheOK(r)
    <3>1. r = _rebuild_merged(cleared, started, next)
      BY <1>1, <1>7
    <3> HIDE DEF D, s, elapsed, steps, cleared, started, next
    <3>2. Shaped /\ wlNow \in Nat /\ started \in [Ring -> Nat]
      BY <1>2, <2>3
    <3> QED BY <3>1, <3>2, Rebuilt
  <2>5. RingOK(r)
    BY <2>2, <2>4 DEF RingOK
  <2>6. wlNow < r.start[r.cur] + D
    <3>1. r.start[r.cur] = s + steps * D
      BY <2>2, <2>4
    <3> DEFINE sD == steps * D
    <3>2. sD \in Nat /\ elapsed < sD + D
      BY <1>4
    <3> HIDE DEF sD, s, D
    <3> QED BY <1>2, <1>3, <3>1, <3>2 DEF sD
  <2> QED BY <1>1, <1>5, <1>7, <2>4, <2>5, <2>6 DEF r
<1>8. CASE ~(elapsed >= wlShape.n * D) /\ ~(steps > 0 \/ wlNow > wlExpires)
  <2>1. r = WLRing
    BY <1>1, <1>8
  <2>2. steps = 0 /\ wlExpires \in Nat /\ wlNow <= wlExpires
    BY <1>2, <1>4, <1>8 DEF CacheOK, WLRing
  <2>3. wlNow < s + D
    <3>1. steps * D = 0
      BY <1>3, <2>2
    <3> HIDE DEF steps, D, s
    <3> QED BY <1>2, <1>3, <1>4, <3>1
  <2>4. PICK A \in SUBSET Ring :
          /\ wlMerged = UNION {wlBucket[i] : i \in A}
          /\ \A i \in Ring \ A : wlBucket[i] # {} => wlStart[i] + wlShape.window < wlNow
          /\ \A i \in A \ {wlCurrent} : wlExpires <= wlStart[i] + wlShape.window
    BY <1>2 DEF CacheOK, CachedBy, WLRing
  <2>5. ASSUME NEW i \in Ring, wlBucket[i] # {} PROVE i \in A <=> wlNow - wlStart[i] <= wlShape.window
    <3>1. wlStart[i] \in Nat
      BY <1>2
    <3>2. CASE i \notin A
      BY <1>2, <1>3, <2>4, <2>5, <3>1, <3>2
    <3>3. CASE i \in A /\ i = wlCurrent
      <4> HIDE DEF D
      <4> QED BY <1>2, <1>3, <2>3, <3>1, <3>3
    <3>4. CASE i \in A /\ i # wlCurrent
      BY <1>2, <1>3, <2>2, <2>4, <3>1, <3>4
    <3> QED BY <3>2, <3>3, <3>4
  <2>6. wlMerged = _active_buckets(wlBucket, wlStart)
    <3>1. ActiveIn(wlBucket, wlStart) = {i \in A : wlBucket[i] # {}}
      BY <2>5 DEF ActiveIn
    <3> QED BY <2>4, <3>1 DEF _active_buckets
  <2> QED BY <1>2, <2>1, <2>3, <2>6 DEF WLRing, r
<1> QED BY <1>6, <1>7, <1>8 DEF r

\* Both halves of WLWindow follow from the order of the ring.
LEMMA AnswersForWindow ==
    ASSUME WLInv
    PROVE  WLWindow /\ WLCacheFresh
<1> DEFINE r == _rotate
           n == wlShape.n
           w == wlShape.window
           D == Duration
<1>1. /\ RingOK(r) /\ wlNow < r.start[r.cur] + D
      /\ r.merged = _active_buckets(r.bucket, r.start)
  BY RotateOK
<1>2. /\ Shaped /\ wlNow \in Nat /\ wlAll \in SUBSET Nat /\ w \in Nat
  BY DEF WLInv, Shaped
<1>3. D \in Nat /\ n * D \in Nat /\ w <= n * D
  BY <1>2, DurationFits
<1> HIDE DEF r, D
<1>4. ASSUME NEW t \in wlAll, wlNow - t + D <= w PROVE t \in r.merged
  <2>1. t \in Nat /\ r.cur \in Ring /\ r.start \in [Ring -> Nat] /\ r.start[r.cur] \in Nat
    BY <1>1, <1>2 DEF RingOK
  <2>2. r.start[r.cur] <= wlNow
    BY <1>1 DEF RingOK
  <2>3. ~(t + n * D < r.start[r.cur] + D)
    <3> DEFINE nD == n * D
               c == r.start[r.cur]
    <3>1. nD \in Nat /\ w <= nD /\ c \in Nat /\ c <= wlNow
      BY <1>3, <2>1, <2>2
    <3> HIDE DEF nD, c
    <3>2. ~(t + nD < c + D)
      BY <1>2, <1>3, <1>4, <2>1, <3>1
    <3> QED BY <3>2 DEF nD, c
  <2>4. PICK i \in Ring : t \in r.bucket[i]
    BY <1>1, <2>3 DEF RingOK, D
  <2>5. r.start[i] \in Nat /\ t < r.start[i] + D
    BY <1>1, <2>1, <2>4 DEF RingOK, D
  <2>6. wlNow - r.start[i] <= w
    BY <1>2, <1>3, <1>4, <2>1, <2>5
  <2> QED BY <1>1, <2>4, <2>6 DEF _active_buckets, ActiveIn
<1>5. ASSUME NEW t \in r.merged PROVE t \in wlAll /\ wlNow - t <= w
  <2>1. PICK i \in Ring : t \in r.bucket[i] /\ wlNow - r.start[i] <= w
    BY <1>1, <1>5 DEF _active_buckets, ActiveIn
  <2>2. t \in wlAll /\ r.start[i] <= t /\ r.start[i] \in Nat
    BY <1>1, <2>1 DEF RingOK
  <2>3. t \in Nat
    BY <1>2, <2>2
  <2> QED BY <1>2, <2>1, <2>2, <2>3
<1> QED BY <1>1, <1>4, <1>5 DEF WLWindow, WLCacheFresh, r, D

\* A read installs what _rotate leaves.
LEMMA ReadStep ==
    ASSUME WLInv, WLRead
    PROVE  WLInv'
<1> DEFINE r == _rotate
<1>1. /\ RingOK(r) /\ CacheOK(r)
      /\ r = [bucket |-> r.bucket, start |-> r.start, cur |-> r.cur,
              merged |-> r.merged, expires |-> r.expires]
  BY RotateOK
<1> HIDE DEF r
<1>2. WLRing' = r
  BY <1>1 DEF WLRead, Install, WLRing, r
<1>3. UNCHANGED <<wlShape, wlNow, wlAll>>
  BY DEF WLRead
<1>4. Ring' = Ring /\ Duration' = Duration
  BY <1>3 DEF Ring, Duration
<1>5. RingOK(WLRing)'
  BY <1>1, <1>2, <1>3, <1>4 DEF RingOK
<1>6. CacheOK(WLRing)'
  BY <1>1, <1>2, <1>3, <1>4 DEF CacheOK, CachedBy
<1> QED BY <1>3, <1>5, <1>6 DEF WLInv, Shaped

\* An addition goes to the bucket of the present and to the cache.
LEMMA AddStep ==
    ASSUME WLInv, WLAdd
    PROVE  WLInv'
<1> DEFINE r == _rotate
           n == wlShape.n
           D == Duration
           s == r.start[r.cur]
           bucket == [r.bucket EXCEPT ![r.cur] = @ \cup {wlNow}]
           merged == r.merged \cup {wlNow}
<1>1. /\ RingOK(r) /\ CacheOK(r) /\ wlNow < s + D
      /\ r = [bucket |-> r.bucket, start |-> r.start, cur |-> r.cur,
              merged |-> r.merged, expires |-> r.expires]
  BY RotateOK
<1> HIDE DEF r
<1>2. /\ wlBucket' = bucket /\ wlStart' = r.start /\ wlCurrent' = r.cur
      /\ wlMerged' = merged /\ wlExpires' = r.expires
  BY <1>1 DEF WLAdd, Install, r
<1>3. UNCHANGED <<wlShape, wlNow>> /\ wlAll' = wlAll \cup {wlNow}
  BY DEF WLAdd
<1>4. Ring' = Ring /\ D' = D
  BY <1>3 DEF Ring, Duration
<1>5. /\ Shaped /\ wlNow \in Nat /\ wlAll \in SUBSET Nat /\ n \in Nat \ {0} /\ wlShape.window \in Nat
      /\ Ring = 0 .. n - 1
  BY DEF WLInv, Shaped, Ring
<1>6. D \in Nat \ {0} /\ D <= wlShape.window /\ n * D \in Nat
  BY <1>5, DurationFits
<1>7. /\ r.cur \in Ring /\ r.start \in [Ring -> Nat] /\ r.bucket \in [Ring -> SUBSET wlAll]
      /\ s \in Nat /\ s <= wlNow
      /\ \A i \in Ring : \A t \in r.bucket[i] : r.start[i] <= t /\ t < r.start[i] + D
      /\ \A a \in 1 .. n : \A t \in r.bucket[(r.cur + a) % n] : t + n * D < s + (a + 1) * D
      /\ \A t \in wlAll : (\E i \in Ring : t \in r.bucket[i]) \/ t + n * D < s + D
  BY <1>1 DEF RingOK
<1>8. /\ bucket \in [Ring -> SUBSET wlAll']
      /\ bucket[r.cur] = r.bucket[r.cur] \cup {wlNow}
      /\ \A i \in Ring \ {r.cur} : bucket[i] = r.bucket[i]
  BY <1>3, <1>7
<1> HIDE DEF bucket, merged
<1>9. \A i \in Ring : \A t \in bucket[i] : r.start[i] <= t /\ t < r.start[i] + D
  BY <1>1, <1>7, <1>8
<1>10. ASSUME NEW a \in 1 .. n, NEW t \in bucket[(r.cur + a) % n]
       PROVE  t + n * D < s + (a + 1) * D
  <2> DEFINE c == r.cur
  <2>1. c \in 0 .. n - 1
    BY <1>5, <1>7
  <2> HIDE DEF n, c
  <2>2. /\ \A x \in 0 .. n : (c + x) % n = IF c + x < n THEN c + x ELSE c + x - n
        /\ \A x \in 0 .. n : (c + x) % n \in 0 .. n - 1
    BY <1>5, <2>1, Ahead, Zenon
  <2>3. a \in 0 .. n
    BY <1>5
  <2>4. CASE t \in r.bucket[(c + a) % n]
    BY <1>7, <2>4 DEF c, n
  <2>5. CASE t \notin r.bucket[(c + a) % n]
    <3>1. (c + a) % n = c /\ t = wlNow
      <4>1. (c + a) % n \in Ring
        BY <1>5, <2>2, <2>3
      <4> QED BY <1>8, <1>10, <2>5, <4>1 DEF c, n
    <3>2. a = n
      BY <1>5, <2>1, <2>2, <2>3, <3>1
    <3>3. (n + 1) * D = n * D + 1 * D /\ 1 * D = D
      BY <1>5, <1>6, Multiples
    <3> DEFINE nD == n * D
    <3>4. nD \in Nat /\ (a + 1) * D = nD + D
      BY <1>6, <3>2, <3>3
    <3> HIDE DEF nD, D, s
    <3>5. wlNow + nD < s + (nD + D)
      BY <1>1, <1>5, <1>6, <1>7, <3>4, SMTT(60)
    <3> QED BY <3>1, <3>4, <3>5 DEF nD
  <2> QED BY <2>4, <2>5
<1>11. \A t \in wlAll' : (\E i \in Ring : t \in bucket[i]) \/ t + n * D < s + D
  BY <1>3, <1>7, <1>8
<1>12. RingOK(WLRing)'
  BY <1>2, <1>3, <1>4, <1>7, <1>8, <1>9, <1>10, <1>11 DEF RingOK, WLRing
<1>13. PICK A \in SUBSET Ring : CachedBy(r, A)
  BY <1>1 DEF CacheOK
<1>14. r.cur \notin A => r.bucket[r.cur] = {}
  BY <1>1, <1>5, <1>6, <1>7, <1>13 DEF CachedBy
<1>15. merged = UNION {bucket[i] : i \in A \cup {r.cur}}
  <2>1. ASSUME NEW t \in merged PROVE \E i \in A \cup {r.cur} : t \in bucket[i]
    BY <1>7, <1>8, <1>13, <2>1 DEF CachedBy, merged
  <2>2. ASSUME NEW i \in A \cup {r.cur}, NEW t \in bucket[i] PROVE t \in merged
    BY <1>7, <1>8, <1>13, <1>14, <2>2 DEF CachedBy, merged
  <2> QED BY <2>1, <2>2
<1>16. /\ \A i \in Ring \ (A \cup {r.cur}) : bucket[i] # {} => r.start[i] + wlShape.window < wlNow
       /\ \A i \in (A \cup {r.cur}) \ {r.cur} : r.expires <= r.start[i] + wlShape.window
       /\ A \cup {r.cur} \in SUBSET Ring
  BY <1>7, <1>8, <1>13 DEF CachedBy
<1>17. CacheOK(WLRing)'
  <2>1. PICK B \in SUBSET Ring : B = A \cup {r.cur}
    BY <1>16
  <2>2. CachedBy(WLRing, B)'
    BY <1>2, <1>3, <1>4, <1>15, <1>16, <2>1 DEF CachedBy, WLRing
  <2>3. B \in SUBSET Ring' /\ wlExpires' \in Nat
    BY <1>1, <1>2, <1>4 DEF CacheOK
  <2> QED BY <2>2, <2>3 DEF CacheOK, WLRing
<1>18. Shaped' /\ wlNow' \in Nat /\ wlAll' \in SUBSET Nat
  BY <1>3, <1>5 DEF Shaped
<1> QED BY <1>12, <1>17, <1>18 DEF WLInv

\* A ring without values, all of whose buckets start now.
LEMMA EmptyRing ==
    ASSUME Shaped, wlNow \in Nat, wlAll = {}, wlBucket = [i \in Ring |-> {}],
           wlStart = [i \in Ring |-> wlNow], wlCurrent = 0, wlMerged = {}, wlExpires = WLInf
    PROVE  WLInv
<1>1. 0 \in Ring
  BY DEF Ring, Shaped
<1>2. \A a \in 1 .. wlShape.n : (wlCurrent + a) % wlShape.n \in Ring
  <2> DEFINE n == wlShape.n
  <2>1. n \in Nat \ {0} /\ Ring = 0 .. n - 1
    BY DEF Shaped, Ring
  <2> HIDE DEF n
  <2>2. 0 \in 0 .. n - 1
    BY <2>1
  <2>3. \A a \in 0 .. n : (0 + a) % n \in 0 .. n - 1
    BY <2>1, <2>2, Ahead, Zenon
  <2>4. \A a \in 1 .. n : a \in 0 .. n
    BY <2>1
  <2> QED BY <2>1, <2>3, <2>4 DEF n
<1>3. RingOK(WLRing)
  BY <1>1, <1>2 DEF RingOK, WLRing
<1>4. CachedBy(WLRing, {}) /\ WLInf \in Nat
  BY WLAssumption DEF CachedBy, WLRing, WLInf
<1>5. CacheOK(WLRing)
  BY <1>4 DEF CacheOK, WLRing
<1> QED BY <1>3, <1>5 DEF WLInv

\* As time passes the buckets outside of the cache only get older.
LEMMA TickStep ==
    ASSUME WLInv, WLTick
    PROVE  WLInv'
<1>1. /\ UNCHANGED <<wlShape, wlBucket, wlStart, wlCurrent, wlMerged, wlExpires, wlAll>>
      /\ wlNow' = wlNow + 1
  BY DEF WLTick
<1>2. WLRing' = WLRing /\ Ring' = Ring /\ Duration' = Duration
  BY <1>1 DEF WLRing, Ring, Duration
<1>3. /\ Shaped /\ wlNow \in Nat /\ wlAll \in SUBSET Nat /\ wlShape.window \in Nat
      /\ WLRing.start \in [Ring -> Nat] /\ WLRing.cur \in Ring
      /\ RingOK(WLRing) /\ CacheOK(WLRing)
  BY DEF WLInv, RingOK, Shaped
<1>4. WLRing.start[WLRing.cur] <= wlNow'
  <2>1. WLRing.start[WLRing.cur] \in Nat /\ WLRing.start[WLRing.cur] <= wlNow
    BY <1>3 DEF RingOK
  <2> QED BY <1>1, <1>3, <2>1
<1> HIDE DEF WLRing
<1>5. RingOK(WLRing)'
  BY <1>1, <1>2, <1>3, <1>4 DEF RingOK
<1>6. CacheOK(WLRing)'
  <2>1. PICK A \in SUBSET Ring : CachedBy(WLRing, A)
    BY <1>3 DEF CacheOK
  <2>2. \A i \in Ring : WLRing.start[i] + wlShape.window < wlNow => WLRing.start[i] + wlShape.window < wlNow'
    BY <1>1, <1>3
  <2>3. CachedBy(WLRing, A)'
    BY <1>1, <1>2, <2>1, <2>2 DEF CachedBy
  <2> QED BY <1>2, <1>3, <2>3 DEF CacheOK
<1> QED BY <1>1, <1>3, <1>5, <1>6 DEF WLInv, Shaped

\* For every window length, number of buckets and spacing of additions, reads
\* and resets: a read counts everything added within the window less one
\* bucket, nothing from before the window, and answers from a cache that
\* equals the merge of the active buckets.
THEOREM WindowAnswered == WLSpec => []WLSafe
<1>1. WLInit => WLInv
  <2> SUFFICES ASSUME WLInit PROVE WLInv
    OBVIOUS
  <2>1. Shaped
    BY WLAssumption DEF WLInit, Shaped
  <2>2. wlStart = [i \in Ring |-> wlNow] /\ wlNow \in Nat
    BY DEF WLInit
  <2> QED BY <2>1, <2>2, EmptyRing DEF WLInit
<1>2. WLInv /\ [WLNext]_wlVars => WLInv'
  <2> SUFFICES ASSUME WLInv, [WLNext]_wlVars PROVE WLInv'
    OBVIOUS
  <2>1. ASSUME WLReset PROVE WLInv'
    <3>1. /\ wlBucket' = [i \in Ring |-> {}] /\ wlStart' = [i \in Ring |-> wlNow] /\ wlCurrent' = 0
          /\ wlMerged' = {} /\ wlExpires' = WLInf /\ wlAll' = {} /\ UNCHANGED <<wlShape, wlNow>>
      BY <2>1 DEF WLReset, Install
    <3>2. Ring' = Ring /\ Shaped' /\ wlNow' \in Nat
      BY <3>1 DEF Ring, WLInv, Shaped
    <3>3. (Shaped /\ wlNow \in Nat /\ wlAll = {} /\ wlBucket = [i \in Ring |-> {}]
             /\ wlStart = [i \in Ring |-> wlNow] /\ wlCurrent = 0 /\ wlMerged = {} /\ wlExpires = WLInf
               => WLInv)'
      BY EmptyRing, PTL
    <3> QED BY <3>1, <3>2, <3>3
  <2>2. ASSUME UNCHANGED wlVars PROVE WLInv'
    BY <2>2, SMTT(60) DEF wlVars, WLInv, Shaped, RingOK, CacheOK, CachedBy, WLRing, Ring, Duration
  <2> QED BY <2>1, <2>2, ReadStep, AddStep, TickStep DEF WLNext
<1>3. WLInv => WLSafe
  BY AnswersForWindow DEF WLSafe
<1> QED BY <1>1, <1>2, <1>3, PTL DEF WLSpec

-----------------------------------------------------------------------------
(* DriftSketch: windows that follow each other, each told once.             *)

DSSpec == DSInit /\ [][DSNext]_dsVars

DSRecord == [cur : SUBSET (Nat \X DSValue), prev : SUBSET (Nat \X DSValue),
             start : Nat, cusum : Nat, anomaly : BOOLEAN]

\* The values of the two sketches lie in the windows they stand for.
Framed(s) ==
    /\ \A x \in s.cur : s.start <= x[1] /\ x[1] < s.start + DSWindow
    /\ \A x \in s.prev : s.start - DSWindow <= x[1] /\ x[1] < s.start

\* The inductive invariant.  Before the first observation the dimension does
\* not exist and its start is negative.
DSInv ==
    /\ dsNow \in Nat /\ dsBirth \in Nat
    /\ \/ ds = [cur |-> {}, prev |-> {}, start |-> -1, cusum |-> 0, anomaly |-> FALSE]
       \/ /\ ds \in DSRecord /\ ds.start <= dsNow
          /\ ~dsForced => Framed(ds)
          /\ ~dsForced /\ ~dsCapped => dsBirth + ds.cusum * DSWindow = ds.start

\* Telling the detector n windows counts them and leaves the sketches alone.
LEMMA CusumTold ==
    ASSUME NEW s \in DSRecord, NEW n \in Nat, NEW t \in _update_cusum(s, n)
    PROVE  t \in DSRecord /\ t = [s EXCEPT !.cusum = s.cusum + n, !.anomaly = t.anomaly]
<1>1. PICK f \in IF s.cusum + n > 1 THEN BOOLEAN ELSE {s.anomaly} :
             t = [s EXCEPT !.cusum = @ + n, !.anomaly = f]
  BY DEF _update_cusum
<1>2. f \in BOOLEAN
  BY <1>1 DEF DSRecord
<1>3. t = [cur |-> s.cur, prev |-> s.prev, start |-> s.start, cusum |-> s.cusum + n, anomaly |-> f]
  BY <1>1 DEF DSRecord
<1>4. t \in DSRecord /\ t.anomaly = f
  BY <1>2, <1>3 DEF DSRecord
<1> QED BY <1>1, <1>4

\* What _maybe_rotate makes of a dimension that exists: it is in the window
\* of the present, its sketches are in their windows, and unless the gap
\* exceeds the backfill the detector is told of as many windows as passed.
LEMMA Rotated ==
    ASSUME NEW s \in DSRecord, dsNow \in Nat, s.start <= dsNow, NEW t \in _maybe_rotate(s)
    PROVE  /\ t \in DSRecord /\ t.start <= dsNow /\ dsNow < t.start + DSWindow
           /\ Framed(s) => Framed(t)
           /\ Gone(s) - 1 > DSBackfill \/ \E k \in Nat : /\ t.cusum = s.cusum + k
                                                       /\ t.start = s.start + k * DSWindow
<1> DEFINE gone == Gone(s)
           told == IF gone >= 2 THEN 1 + BackfillSteps(gone) ELSE 1
           moved == gone * DSWindow
<1> USE DSAssumption
<1>1. s.start \in Nat /\ s.cusum \in Nat /\ dsNow - s.start \in Nat
  BY DEF DSRecord
<1>2. gone \in Nat /\ moved \in Nat /\ s.start + moved <= dsNow /\ dsNow < s.start + moved + DSWindow
  <2>1. gone = (dsNow - s.start) \div DSWindow
    BY DEF Gone
  <2> HIDE DEF gone
  <2>2. gone \in Nat /\ gone * DSWindow <= dsNow - s.start /\ dsNow - s.start < gone * DSWindow + DSWindow
    BY <1>1, <2>1, Quotient
  <2>3. moved \in Nat
    BY <2>2, Multiples
  <2> HIDE DEF moved
  <2>4. moved <= dsNow - s.start /\ dsNow - s.start < moved + DSWindow
    BY <2>2 DEF moved
  <2> QED BY <1>1, <2>2, <2>3, <2>4
<1>3. gone = 0 => moved = 0
  BY <1>2
<1>4. gone = 1 => moved = DSWindow
  BY <1>2
<1> HIDE DEF moved
<1>5. CASE gone < 1
  <2>1. t = s
    BY <1>5 DEF _maybe_rotate
  <2>2. gone = 0
    BY <1>2, <1>5
  <2>3. s.cusum + 0 = s.cusum /\ s.start + 0 * DSWindow = s.start
    BY <1>1
  <2> QED BY <1>1, <1>2, <1>3, <2>1, <2>2, <2>3
<1>6. CASE gone >= 1
  <2>1. told \in Nat
    BY <1>2 DEF BackfillSteps
  <2> DEFINE turn(u) == [u EXCEPT !.prev = IF gone >= 2 THEN {} ELSE s.cur, !.cur = {},
                                  !.start = @ + gone * DSWindow]
  <2>2. t \in {turn(u) : u \in _update_cusum(s, told)}
    <3>1. ~(gone < 1)
      BY <1>2, <1>6
    <3> QED BY <3>1, Zenon DEF _maybe_rotate
  <2>3. PICK u \in _update_cusum(s, told) : t = turn(u)
    BY <2>2, Zenon
  <2> HIDE DEF told
  <2>4. u \in DSRecord /\ u = [s EXCEPT !.cusum = s.cusum + told, !.anomaly = u.anomaly]
    <3>1. \A n \in Nat : \A w \in _update_cusum(s, n) :
             w \in DSRecord /\ w = [s EXCEPT !.cusum = s.cusum + n, !.anomaly = w.anomaly]
      BY CusumTold
    <3> QED BY <2>1, <2>3, <3>1
  <2> DEFINE before == IF gone >= 2 THEN {} ELSE s.cur
  <2>5. before \in SUBSET (Nat \X DSValue)
    BY DEF DSRecord
  <2>6. t = [cur |-> {}, prev |-> before, start |-> s.start + moved, cusum |-> s.cusum + told,
             anomaly |-> u.anomaly]
    BY <2>3, <2>4 DEF moved, DSRecord
  <2> HIDE DEF before
  <2>7. /\ t \in DSRecord /\ t.start = s.start + moved /\ t.cusum = s.cusum + told
        /\ t.cur = {} /\ t.prev = before
    <3>1. u.anomaly \in BOOLEAN /\ s.start + moved \in Nat /\ s.cusum + told \in Nat
      BY <1>1, <1>2, <2>1, <2>4 DEF DSRecord
    <3> QED BY <2>5, <2>6, <3>1 DEF DSRecord
  <2>8. Framed(s) => Framed(t)
    <3>1. CASE gone = 1
      <4>1. before = s.cur
        BY <3>1 DEF before
      <4>2. t.start = s.start + DSWindow
        BY <1>4, <2>7, <3>1
      <4>3. \A x \in s.cur : x[1] \in Nat
        BY DEF DSRecord
      <4>4. t.start - DSWindow = s.start
        BY <1>1, <4>2
      <4> QED BY <1>1, <2>7, <4>1, <4>2, <4>3, <4>4 DEF Framed
    <3>2. CASE gone >= 2
      <4>1. before = {}
        BY <3>2 DEF before
      <4> QED BY <2>7, <4>1 DEF Framed
    <3> QED BY <1>2, <1>6, <3>1, <3>2
  <2>9. gone - 1 > DSBackfill \/ told = gone
    BY <1>2, <1>6 DEF BackfillSteps, told
  <2> QED BY <1>1, <1>2, <2>7, <2>8, <2>9 DEF moved
<1> QED BY <1>2, <1>5, <1>6

\* Windows told so far and windows told now add up to the new start.
LEMMA ToldAddsUp ==
    ASSUME NEW birth \in Nat, NEW c \in Nat, NEW k \in Nat, NEW start \in Nat,
           birth + c * DSWindow = start
    PROVE  birth + (c + k) * DSWindow = start + k * DSWindow
<1>1. (c + k) * DSWindow = c * DSWindow + k * DSWindow /\ c * DSWindow \in Nat /\ k * DSWindow \in Nat
  BY DSAssumption, Multiples
<1> QED BY <1>1

\* What an operation leaves of a dimension that existed and was rotated.
LEMMA RotateKeeps ==
    ASSUME dsNow \in Nat, NEW birth \in Nat, NEW s \in DSRecord, s.start <= dsNow,
           NEW forced \in BOOLEAN, NEW capped \in BOOLEAN,
           ~forced => Framed(s),
           ~forced /\ ~capped => birth + s.cusum * DSWindow = s.start,
           NEW t \in _maybe_rotate(s)
    PROVE  /\ t \in DSRecord /\ t.start <= dsNow /\ dsNow < t.start + DSWindow
           /\ ~forced => Framed(t)
           /\ ~forced /\ ~(capped \/ Gone(s) - 1 > DSBackfill)
                => birth + t.cusum * DSWindow = t.start
<1>1. /\ t \in DSRecord /\ t.start <= dsNow /\ dsNow < t.start + DSWindow
      /\ Framed(s) => Framed(t)
      /\ Gone(s) - 1 > DSBackfill \/ \E k \in Nat : /\ t.cusum = s.cusum + k
                                                  /\ t.start = s.start + k * DSWindow
  BY Rotated
<1>2. ASSUME ~forced, ~(capped \/ Gone(s) - 1 > DSBackfill)
      PROVE  birth + t.cusum * DSWindow = t.start
  <2>1. PICK k \in Nat : t.cusum = s.cusum + k /\ t.start = s.start + k * DSWindow
    BY <1>1, <1>2
  <2>2. s.cusum \in Nat /\ s.start \in Nat /\ birth + s.cusum * DSWindow = s.start
    BY <1>2 DEF DSRecord
  <2>3. birth + (s.cusum + k) * DSWindow = s.start + k * DSWindow
    BY <2>2, ToldAddsUp
  <2> QED BY <2>1, <2>3
<1> QED BY <1>1, <1>2

\* However observations, reads, forced rotations and gaps of any length
\* interleave: a reported drift compares the window in progress with the one
\* just before it, and the detector is told of every window once until a gap
\* exceeds the backfill or a rotation is forced.
THEOREM DriftWindowsSafe == DSSpec => []DSSafe
<1> DEFINE absent == [cur |-> {}, prev |-> {}, start |-> -1, cusum |-> 0, anomaly |-> FALSE]
<1>1. DSInit => DSInv
  BY DEF DSInit, DSInv
<1>2. DSInv /\ [DSNext]_dsVars => DSInv'
  <2> SUFFICES ASSUME DSInv, [DSNext]_dsVars PROVE DSInv'
    OBVIOUS
  <2>1. dsNow \in Nat /\ dsBirth \in Nat
    BY DEF DSInv
  <2>2. ds.start >= 0 => /\ ds \in DSRecord /\ ds.start <= dsNow
                         /\ ~dsForced => Framed(ds)
                         /\ ~dsForced /\ ~dsCapped => dsBirth + ds.cusum * DSWindow = ds.start
    <3>1. ds = absent => ~(ds.start >= 0)
      OBVIOUS
    <3> QED BY <3>1 DEF DSInv
  <2>3. ds \in DSRecord => ds.start >= 0
    BY DEF DSRecord
  <2>4. ASSUME UNCHANGED dsVars PROVE DSInv'
    BY <2>4 DEF dsVars, DSInv, Framed
  <2>5. ASSUME DSTick PROVE DSInv'
    <3>1. dsNow' \in Nat /\ \A k \in Nat : k <= dsNow => k <= dsNow'
      BY <2>1, <2>5 DEF DSTick
    <3>2. UNCHANGED <<ds, dsBirth, dsForced, dsCapped>>
      BY <2>5 DEF DSTick
    <3>3. ds \in DSRecord => ds.start \in Nat
      BY DEF DSRecord
    <3> QED BY <3>1, <3>2, <3>3 DEF DSInv, Framed
  <2>6. ASSUME rotate_all PROVE DSInv'
    <3>1. PICK s \in _update_cusum(ds, 1) : ds' = [s EXCEPT !.prev = ds.cur, !.cur = {}, !.start = dsNow]
      BY <2>6 DEF rotate_all
    <3>2. ds \in DSRecord
      BY <2>2, <2>6 DEF rotate_all
    <3>3. s \in DSRecord
      BY <3>1, <3>2, CusumTold
    <3>4. ds' \in DSRecord /\ ds'.start = dsNow
      BY <2>1, <3>1, <3>2, <3>3 DEF DSRecord
    <3>5. dsForced' /\ dsNow' = dsNow /\ dsBirth' = dsBirth
      BY <2>6 DEF rotate_all
    <3> QED BY <2>1, <3>4, <3>5 DEF DSInv
  <2>7. ASSUME DSRead PROVE DSInv'
    <3>1. ds \in DSRecord /\ ds' \in _maybe_rotate(ds) /\ UNCHANGED <<dsNow, dsBirth, dsForced>>
      BY <2>2, <2>7 DEF DSRead
    <3>2. dsCapped' = (dsCapped \/ Gone(ds) - 1 > DSBackfill)
      BY <2>7 DEF DSRead, Capped
    <3>3. /\ ds' \in DSRecord /\ ds'.start <= dsNow
          /\ ~dsForced => Framed(ds')
          /\ ~dsForced /\ ~dsCapped' => dsBirth + ds'.cusum * DSWindow = ds'.start
      BY <2>1, <2>2, <2>3, <3>1, <3>2, RotateKeeps
    <3> QED BY <2>1, <3>1, <3>3 DEF DSInv, Framed
  <2>8. ASSUME NEW v \in DSValue, DSAdd(v) PROVE DSInv'
    <3> DEFINE born == IF ds.start >= 0 THEN ds ELSE [ds EXCEPT !.start = dsNow]
               birth == IF ds.start >= 0 THEN dsBirth ELSE dsNow
    <3>1. /\ born \in DSRecord /\ born.start <= dsNow /\ birth \in Nat
          /\ ~dsForced => Framed(born)
          /\ ~dsForced /\ ~dsCapped => birth + born.cusum * DSWindow = born.start
      <4>1. CASE ds.start >= 0
        BY <2>1, <2>2, <4>1
      <4>2. CASE ~(ds.start >= 0)
        <5>1. ds = absent
          BY <2>3, <4>2 DEF DSInv
        <5>2. born = [cur |-> {}, prev |-> {}, start |-> dsNow, cusum |-> 0, anomaly |-> FALSE]
          BY <4>2, <5>1
        <5>3. birth = dsNow /\ birth + 0 * DSWindow = dsNow
          BY <2>1, <4>2, DSAssumption
        <5> HIDE DEF born, birth
        <5>4. born \in DSRecord
          BY <2>1, <5>2 DEF DSRecord
        <5>5. Framed(born) /\ born.start = dsNow /\ born.cusum = 0
          BY <5>2 DEF Framed
        <5> QED BY <2>1, <5>3, <5>4, <5>5
      <4> QED BY <4>1, <4>2
    <3>2. /\ dsBirth' = birth /\ UNCHANGED <<dsNow, dsForced>>
          /\ dsCapped' = (dsCapped \/ Gone(born) - 1 > DSBackfill)
      BY <2>8 DEF DSAdd, Capped
    <3>3. PICK s \in _maybe_rotate(born) : ds' = [s EXCEPT !.cur = @ \cup {<<dsNow, v>>}]
      BY <2>8 DEF DSAdd
    <3> HIDE DEF born, birth
    <3>4. /\ s \in DSRecord /\ s.start <= dsNow /\ dsNow < s.start + DSWindow
          /\ ~dsForced => Framed(s)
          /\ ~dsForced /\ ~dsCapped' => birth + s.cusum * DSWindow = s.start
      BY <2>1, <3>1, <3>2, <3>3, RotateKeeps
    <3>5. ds' = [cur |-> s.cur \cup {<<dsNow, v>>}, prev |-> s.prev, start |-> s.start,
                 cusum |-> s.cusum, anomaly |-> s.anomaly]
      BY <3>3, <3>4 DEF DSRecord
    <3>6. s.cur \cup {<<dsNow, v>>} \in SUBSET (Nat \X DSValue)
      BY <2>1, <3>4 DEF DSRecord
    <3>7. ds' \in DSRecord
      BY <3>4, <3>5, <3>6 DEF DSRecord
    <3>8. ~dsForced => Framed(ds')
      BY <3>4, <3>5 DEF Framed
    <3> QED BY <2>1, <3>1, <3>2, <3>4, <3>5, <3>7, <3>8 DEF DSInv, Framed
  <2> QED BY <2>4, <2>5, <2>6, <2>7, <2>8 DEF DSNext
<1>3. DSInv => DSSafe
  <2> SUFFICES ASSUME DSInv PROVE DSSafe
    OBVIOUS
  <2>1. ds = absent => ~(ds.start >= 0)
    OBVIOUS
  <2>2. DSEveryWindowTold
    BY <2>1 DEF DSInv, DSEveryWindowTold
  <2>3. DSWindowsAdjacent
    <3> SUFFICES ASSUME ~dsForced, ds.start >= 0, NEW s \in _maybe_rotate(ds)
                 PROVE  /\ s.start <= dsNow /\ dsNow < s.start + DSWindow
                        /\ \A x \in s.prev : s.start - DSWindow <= x[1] /\ x[1] < s.start
                        /\ \A x \in s.cur : s.start <= x[1]
      BY DEF DSWindowsAdjacent
    <3>1. ds \in DSRecord /\ dsNow \in Nat /\ ds.start <= dsNow /\ Framed(ds)
      BY <2>1 DEF DSInv
    <3>2. s.start <= dsNow /\ dsNow < s.start + DSWindow /\ Framed(s)
      BY <3>1, Rotated
    <3> QED BY <3>2 DEF Framed
  <2> QED BY <2>2, <2>3 DEF DSSafe
<1> QED BY <1>1, <1>2, <1>3, PTL DEF DSSpec

=============================================================================
