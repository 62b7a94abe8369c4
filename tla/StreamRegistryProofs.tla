------------------------ MODULE StreamRegistryProofs ------------------------
(***************************************************************************)
(* Proofs about StreamRegistry, for any number of streams, namespaces and  *)
(* DELETE requests and for any limits:                                     *)
(*   - type correctness (either backend, with and without a mesh);         *)
(*   - a node never loses a committed tombstone;                           *)
(*   - both stream limits, whatever runs while a victim is being saved;    *)
(*   - the cap on durable tombstones, with the SQL backend;                *)
(*   - a failed deletion leaves no tombstone behind, as long as no two     *)
(*     deletions of one stream are in flight together.                     *)
(* AckedBatchProofs builds on them.                                        *)
(***************************************************************************)
EXTENDS StreamRegistry, FiniteSetTheorems, TLAPS

-----------------------------------------------------------------------------
(* Who refers to what.  TypeOK alone is not inductive: a save in flight     *)
(* reads an object, and the type of what it reads rests on that object      *)
(* being there.                                                             *)

\* The request inside the lock works for a stream that is not resident, and
\* while it saves its victim the victim stays resident.
OpRefs ==
    /\ op.pc # "idle" => op.key \in Key /\ resident[op.key] = NoLog
    /\ op.pc = "save" => /\ op.victim \in Key
                         /\ resident[op.victim] # NoLog
                         /\ save["evict"].key = op.victim
    /\ save["evict"].pc # "idle" => op.pc = "save"

\* The flush pass lists objects that exist: the registry's own, or one that
\* it keeps alive itself.
FlushRefs ==
    /\ save["flush"].pc # "idle" => /\ save["flush"].key \in Key
                                    /\ flush[save["flush"].key] # NoLog
    /\ \A k \in Key : flush[k] = Live => resident[k] # NoLog

\* A DELETE request in progress has a key.
DelRefs == \A d \in Deleter : del[d].pc # "idle" => del[d].key \in Key

WellFormed == TypeOK /\ OpRefs /\ FlushRefs /\ DelRefs

\* What the constants' assumptions say of logs and of the two sentinels.
LEMMA Sentinels ==
    /\ NoLog \notin Log /\ Live \notin Log /\ Live # NoLog
    /\ \A x \in Log : x.data \in SUBSET Nat /\ x.ver \in Nat
  BY SentinelAssumption DEF Log

\* Building a log.
LEMMA LogRecord ==
    ASSUME NEW data \in SUBSET Nat, NEW ver \in Nat
    PROVE  /\ [data |-> data, ver |-> ver] \in Log
           /\ [data |-> data, ver |-> ver].data = data
           /\ [data |-> data, ver |-> ver].ver = ver
  BY DEF Log

\* Adding the batch of the next clock value to a log.
LEMMA LogExtend ==
    ASSUME NEW data \in SUBSET Nat, NEW now \in Nat
    PROVE  [data |-> data \union {now + 1}, ver |-> now + 1] \in Log
<1>1. data \union {now + 1} \in SUBSET Nat /\ now + 1 \in Nat
  OBVIOUS
<1> QED
  BY <1>1 DEF Log

\* A write of a save leaves every other row alone, and a row in its type.
LEMMA UpsertRow ==
    ASSUME TypeOK, NEW s \in Saver
    PROVE  Upsert(s) \in [Key -> Log \union {NoLog}]
<1>1. [data |-> save[s].payload, ver |-> save[s].ver] \in Log
  BY LogRecord DEF TypeOK, SaveState
<1> QED
  BY <1>1 DEF TypeOK, Upsert

\* The outcome of an insertion, whatever the request was.
LEMMA InsertResult ==
    ASSUME TypeOK, OpRefs, op.pc # "idle",
           NEW res \in [Key -> Log \union {NoLog}], Insert(res)
    PROVE  /\ resident' \in [Key -> Log \union {NoLog}]
           /\ \A j \in Key \ {op.key} : resident'[j] = res[j]
           /\ op' = IdleOp
           /\ clock' \in Nat
           /\ acked' \in [Key -> SUBSET Nat]
<1>1. DataOf(op.loaded) \in SUBSET Nat
  BY Sentinels DEF TypeOK, OpState, DataOf
<1>2. CASE op.kind = "ingest"
  <2>1. [data |-> DataOf(op.loaded) \union {clock + 1}, ver |-> clock + 1] \in Log
    BY <1>1, LogExtend DEF TypeOK
  <2> QED
    BY <1>2, <2>1 DEF TypeOK, Insert, OpRefs
<1>3. CASE op.kind # "ingest"
  BY <1>3 DEF TypeOK, Insert, OpRefs, OpState
<1> QED
  BY <1>2, <1>3

\* Start-up with empty storage is well formed.
LEMMA WellFormedInit == Init => WellFormed
  BY RegistryAssumption, SentinelAssumption
     DEF Init, WellFormed, TypeOK, OpRefs, FlushRefs, DelRefs, IdleOp, IdleSave,
         IdleDel, OpState, SaveState, DelState, Saver

\* Every step of the requests, the flush loop, the deletions and the process
\* keeps the state well formed.
LEMMA WellFormedStep == WellFormed /\ [Next]_vars => WellFormed'
<1> SUFFICES ASSUME WellFormed, [Next]_vars PROVE WellFormed'
  OBVIOUS
<1> USE RegistryAssumption, Sentinels
    DEF WellFormed, TypeOK, OpRefs, FlushRefs, DelRefs, IdleOp, IdleSave,
        IdleDel, OpState, SaveState, DelState, Saver
<1>1. ASSUME NEW k \in Key, IngestResident(k)
      PROVE  WellFormed'
  <2>1. [data |-> resident[k].data \union {clock + 1}, ver |-> clock + 1] \in Log
    BY <1>1, LogExtend DEF IngestResident
  <2> QED
    BY <1>1, <2>1 DEF IngestResident
<1>2. ASSUME NEW kind \in {"ingest", "get"}, NEW k \in Key, OpStart(kind, k)
      PROVE  WellFormed'
  <2>1. op'.pc = "load" /\ op'.key = k /\ op' \in OpState
    BY <1>2 DEF OpStart
  <2>2. resident[k] = NoLog /\ op.pc = "idle"
    BY <1>2 DEF OpStart
  <2> QED
    BY <1>2, <2>1, <2>2 DEF OpStart
<1>3. CASE OpLoad
  BY <1>3 DEF OpLoad
<1>4. CASE OpLoadFail
  BY <1>4 DEF OpLoadFail
<1>5. CASE OpInsert
  <2>1. /\ resident' \in [Key -> Log \union {NoLog}]
        /\ \A j \in Key \ {op.key} : resident'[j] = resident[j]
        /\ op' = IdleOp /\ clock' \in Nat /\ acked' \in [Key -> SUBSET Nat]
    BY <1>5, InsertResult DEF OpInsert
  <2>2. resident[op.key] = NoLog
    BY <1>5 DEF OpInsert
  <2> QED
    BY <1>5, <2>1, <2>2 DEF OpInsert
<1>6. CASE OpPickVictim
  <2>1. PICK v \in Victims(NamespaceOf[op.key]) :
            /\ op' = [op EXCEPT !.pc = "save", !.victim = v]
            /\ save' = StartSave("evict", v)
    BY <1>6 DEF OpPickVictim
  <2>2. v \in Key /\ resident[v] # NoLog
    BY DEF Victims, Resident, ResidentIn
  <2>3. save["evict"].pc = "idle"
    BY <1>6 DEF OpPickVictim
  <2> QED
    BY <1>6, <2>1, <2>2, <2>3 DEF OpPickVictim, StartSave, FirstRead
<1>7. CASE OpEvict
  <2> DEFINE res == [resident EXCEPT ![op.victim] = NoLog]
  <2>1. res \in [Key -> Log \union {NoLog}]
    OBVIOUS
  <2>2. Insert(res) /\ op.pc = "save"
    BY <1>7 DEF OpEvict
  <2> HIDE DEF res
  <2>3. /\ resident' \in [Key -> Log \union {NoLog}]
        /\ \A j \in Key \ {op.key} : resident'[j] = res[j]
        /\ op' = IdleOp /\ clock' \in Nat /\ acked' \in [Key -> SUBSET Nat]
    BY <2>1, <2>2, InsertResult
  <2>4. stored' \in [Key -> Log \union {NoLog}]
    BY <1>7, UpsertRow DEF OpEvict
  <2>5. /\ flush' \in [Key -> Log \union {NoLog, Live}]
        /\ \A j \in Key : flush'[j] = Live => flush[j] = Live /\ j # op.victim
        /\ \A j \in Key : flush[j] # NoLog => flush'[j] # NoLog
    BY <1>7, <2>2 DEF OpEvict, Freeze
  <2>6. save' = [save EXCEPT !["evict"] = IdleSave]
    BY <1>7 DEF OpEvict
  <2>7. FlushRefs'
    BY <2>2, <2>3, <2>5, <2>6 DEF res
  <2> QED
    BY <1>7, <2>3, <2>4, <2>5, <2>6, <2>7 DEF OpEvict
<1>8. CASE OpEvictFail
  BY <1>8 DEF OpEvictFail
<1>9. ASSUME NEW s \in Saver, Serialize(s)
      PROVE  WellFormed'
  BY <1>9 DEF Serialize, Source, AfterSerialize, Saver
<1>10. ASSUME NEW s \in Saver, Stamp(s)
      PROVE  WellFormed'
  BY <1>10, SMTT(60) DEF Stamp, Source, AfterStamp, Saver
<1>11. CASE FlushStart
  BY <1>11 DEF FlushStart, AllLive
<1>12. ASSUME NEW k \in Key, FlushNext(k)
      PROVE  WellFormed'
  BY <1>12 DEF FlushNext, StartSave, FirstRead, Saver
<1>13. CASE FlushWrite
  <2>1. stored' \in [Key -> Log \union {NoLog}]
    BY <1>13, UpsertRow DEF FlushWrite
  <2> QED
    BY <1>13, <2>1 DEF FlushWrite
<1>14. CASE FlushFail
  BY <1>14 DEF FlushFail
<1>15. ASSUME NEW d \in Deleter, NEW k \in Key, DeleteRequest(d, k)
      PROVE  WellFormed'
  BY <1>15 DEF DeleteRequest
<1>16. ASSUME NEW d \in Deleter, DeleteCommit(d)
      PROVE  WellFormed'
  BY <1>16 DEF DeleteCommit, Unlink, Freeze
<1>17. ASSUME NEW d \in Deleter, DeleteFail(d)
      PROVE  WellFormed'
  BY <1>17 DEF DeleteFail
<1>18. ASSUME NEW d \in Deleter, NEW k \in Key, MeshDeleteBegin(d, k)
      PROVE  WellFormed'
  BY <1>18 DEF MeshDeleteBegin, Max2
<1>19. ASSUME NEW d \in Deleter, MeshDeleteTransaction(d)
      PROVE  WellFormed'
  BY <1>19 DEF MeshDeleteTransaction, Max2
<1>20. ASSUME NEW d \in Deleter, MeshDeleteTombstone(d)
      PROVE  WellFormed'
  BY <1>20 DEF MeshDeleteTombstone, Max2
<1>21. ASSUME NEW d \in Deleter, MeshDeleteState(d)
      PROVE  WellFormed'
  BY <1>21 DEF MeshDeleteState, Max2
<1>22. ASSUME NEW d \in Deleter, MeshDeleteFail(d)
      PROVE  WellFormed'
  BY <1>22 DEF MeshDeleteFail, Rollback
<1>23. ASSUME NEW d \in Deleter, MeshDeleteSyncFail(d)
      PROVE  WellFormed'
  BY <1>23 DEF MeshDeleteSyncFail, Rollback, DataOf
<1>24. ASSUME NEW d \in Deleter, MeshDeleteUnlink(d)
      PROVE  WellFormed'
  BY <1>24 DEF MeshDeleteUnlink, Unlink, Freeze
<1>25. CASE Shutdown
  BY <1>25 DEF Shutdown, AllLive, NoRequests
<1>26. CASE ShutdownDone
  BY <1>26 DEF ShutdownDone, Forget, DataOf
<1>27. CASE Crash
  BY <1>27 DEF Crash, Forget, DataOf
<1>28. CASE Restart
  BY <1>28 DEF Restart
<1>29. CASE UNCHANGED vars
  BY <1>29 DEF vars
<1> QED
  BY <1>1, <1>2, <1>3, <1>4, <1>5, <1>6, <1>7, <1>8, <1>9, <1>10, <1>11, <1>12,
     <1>13, <1>14, <1>15, <1>16, <1>17, <1>18, <1>19, <1>20, <1>21, <1>22,
     <1>23, <1>24, <1>25, <1>26, <1>27, <1>28, <1>29 DEF Next

\* Type correctness of the registry, the storage and every request in
\* progress, for both backends: in particular, what a save reads is a stream
\* object in each interleaving of eviction, flush and DELETE.
THEOREM TypeCorrect == Spec => []TypeOK
<1>1. Spec => []WellFormed
  BY WellFormedInit, WellFormedStep, PTL DEF Spec
<1>2. WellFormed => TypeOK
  BY DEF WellFormed
<1> QED
  BY <1>1, <1>2, PTL

-----------------------------------------------------------------------------
(* Tombstones.  A deletion in flight must not be able to take back the      *)
(* tombstone of another one: versions of concurrent deletions of a key are  *)
(* ordered, and each remembers a previous version at least as new as every  *)
(* older deletion in flight.                                                *)

InFlight(d) == del[d].pc \in {"reserved", "tombstoned"}

\* What a deletion in flight knows about its key.
DeletionWindow(d) ==
    /\ del[d].previous < del[d].ver
    /\ del[d].ver <= localTomb[del[d].key]
    /\ \/ delVer[del[d].key] <= del[d].previous
       \/ delVer[del[d].key] > del[d].ver
    /\ del[d].pc = "tombstoned" => del[d].ver <= storedTomb[del[d].key]

DeletionOrder ==
    /\ \A d \in Deleter : InFlight(d) => DeletionWindow(d)
    /\ \A d, e \in Deleter :
          d # e /\ InFlight(d) /\ InFlight(e) /\ del[d].key = del[e].key
              => del[d].ver <= del[e].previous \/ del[e].ver <= del[d].previous
    /\ phase = "down" => \A d \in Deleter : ~InFlight(d)
    /\ ~Mesh => /\ \A k \in Key : delVer[k] = 0
                /\ \A d \in Deleter : ~InFlight(d)

TombstoneInv == WellFormed /\ DeletionOrder /\ TombstoneSurvives

\* Start-up satisfies the invariant of the deletion protocol.
LEMMA TombstoneInit == Init => TombstoneInv
  BY WellFormedInit, RegistryAssumption
     DEF Init, TombstoneInv, DeletionOrder, TombstoneSurvives, InFlight, IdleDel

\* The steps that touch no tombstone and no DELETE request.
TombstonesUntouched == UNCHANGED <<phase, storedTomb, localTomb, del, delVer>>

\* The steps of registry requests, saves and the flush loop touch no tombstone, deletion or phase.
LEMMA UntouchedSteps ==
    ASSUME \/ \E k \in Key : IngestResident(k)
           \/ \E kind \in {"ingest", "get"}, k \in Key : OpStart(kind, k)
           \/ OpLoad \/ OpLoadFail \/ OpInsert \/ OpPickVictim \/ OpEvict
           \/ OpEvictFail
           \/ \E s \in Saver : Serialize(s)
           \/ \E s \in Saver : Stamp(s)
           \/ FlushStart \/ FlushWrite \/ FlushFail
           \/ \E k \in Key : FlushNext(k)
           \/ UNCHANGED vars
    PROVE  TombstonesUntouched
  BY DEF TombstonesUntouched, IngestResident, OpStart, OpLoad, OpLoadFail,
         OpInsert, OpPickVictim, OpEvict, OpEvictFail, Serialize, Stamp,
         FlushStart, FlushWrite, FlushFail, FlushNext, vars

\* A durable commit of deletion d.
LEMMA CommitKeepsOrder ==
    ASSUME TombstoneInv, NEW d \in Deleter, InFlight(d),
           delVer' = [delVer EXCEPT ![del[d].key] = Max2(@, del[d].ver)],
           storedTomb' \in [Key -> Nat],
           \A k \in Key : storedTomb[k] <= storedTomb'[k],
           del[d].ver <= storedTomb'[del[d].key],
           del' = [del EXCEPT ![d].pc = "committed"],
           UNCHANGED <<phase, localTomb>>
    PROVE  DeletionOrder' /\ TombstoneSurvives'
<1> DEFINE k == del[d].key
<1>1. /\ k \in Key /\ del[d] \in DelState
      /\ delVer \in [Key -> Nat] /\ localTomb \in [Key -> Nat]
      /\ storedTomb \in [Key -> Nat]
  BY DEF TombstoneInv, WellFormed, TypeOK, DelRefs, InFlight
<1>2. \A e \in Deleter : del[e] \in DelState
  BY DEF TombstoneInv, WellFormed, TypeOK
<1>3. \A e \in Deleter \ {d} : del'[e] = del[e]
  BY DEF TombstoneInv, WellFormed, TypeOK
<1>4. del'[d].pc = "committed"
  BY DEF TombstoneInv, WellFormed, TypeOK
<1>5. TombstoneSurvives'
  <2>1. phase # "down"
    BY DEF TombstoneInv, DeletionOrder
  <2>2. del[d].ver <= localTomb[k]
    BY DEF TombstoneInv, DeletionOrder, DeletionWindow
  <2> QED
    BY <1>1, <2>1, <2>2 DEF TombstoneInv, TombstoneSurvives, Max2, DelState
<1>6. \A e \in Deleter : InFlight(e)' => DeletionWindow(e)'
  <2> SUFFICES ASSUME NEW e \in Deleter, InFlight(e)' PROVE DeletionWindow(e)'
    OBVIOUS
  <2>1. e # d /\ InFlight(e) /\ del'[e] = del[e]
    BY <1>3, <1>4 DEF InFlight
  <2>2. del[e].key \in Key
    BY <2>1 DEF TombstoneInv, WellFormed, DelRefs, InFlight
  <2>3. DeletionWindow(e)
    BY <2>1 DEF TombstoneInv, DeletionOrder
  <2>4. CASE del[e].key # k
    BY <1>1, <1>2, <2>1, <2>2, <2>3, <2>4 DEF DeletionWindow, DelState
  <2>5. CASE del[e].key = k
    <3>1. del[d].ver <= del[e].previous \/ del[e].ver <= del[d].previous
      BY <2>1, <2>5 DEF TombstoneInv, DeletionOrder
    <3>2. del[d].previous < del[d].ver
      BY DEF TombstoneInv, DeletionOrder, DeletionWindow
    <3> QED
      BY <1>1, <1>2, <2>1, <2>3, <2>5, <3>1, <3>2
         DEF DeletionWindow, DelState, Max2
  <2> QED
    BY <2>4, <2>5
<1>7. Mesh
  BY DEF TombstoneInv, DeletionOrder
<1> QED
  BY <1>3, <1>4, <1>5, <1>6, <1>7 DEF TombstoneInv, DeletionOrder, InFlight

\* A rollback of deletion d.
LEMMA RollbackKeepsOrder ==
    ASSUME TombstoneInv, NEW d \in Deleter, InFlight(d), Rollback(d),
           del' = [del EXCEPT ![d] = IdleDel],
           UNCHANGED <<phase, storedTomb, delVer>>
    PROVE  DeletionOrder' /\ TombstoneSurvives'
<1> DEFINE k == del[d].key
<1>1. /\ k \in Key /\ del[d] \in DelState
      /\ delVer \in [Key -> Nat] /\ localTomb \in [Key -> Nat]
      /\ \A e \in Deleter : del[e] \in DelState
  BY DEF TombstoneInv, WellFormed, TypeOK, DelRefs, InFlight
<1>2. /\ \A e \in Deleter \ {d} : del'[e] = del[e]
      /\ ~InFlight(d)'
  BY DEF TombstoneInv, WellFormed, TypeOK, IdleDel, InFlight
<1>3. CASE localTomb[k] # del[d].ver
  BY <1>2, <1>3 DEF Rollback, TombstoneInv, DeletionOrder, DeletionWindow,
                    InFlight, TombstoneSurvives
<1>4. CASE localTomb[k] = del[d].ver
  <2>1. localTomb' = [localTomb EXCEPT ![k] = del[d].previous]
    BY <1>4 DEF Rollback
  <2>2. DeletionWindow(d)
    BY DEF TombstoneInv, DeletionOrder
  <2>3. phase # "down" /\ delVer[k] <= localTomb[k]
    BY <1>1 DEF TombstoneInv, DeletionOrder, TombstoneSurvives
  <2>4. delVer[k] <= del[d].previous
    BY <1>1, <1>4, <2>2, <2>3 DEF DeletionWindow, DelState
  <2>5. TombstoneSurvives'
    BY <1>1, <2>1, <2>4 DEF TombstoneInv, TombstoneSurvives
  <2>6. ASSUME NEW e \in Deleter, InFlight(e)' PROVE DeletionWindow(e)'
    <3>1. e # d /\ InFlight(e) /\ del'[e] = del[e]
      BY <1>2, <2>6 DEF InFlight
    <3>2. del[e].key \in Key /\ DeletionWindow(e)
      BY <3>1 DEF TombstoneInv, DeletionOrder, WellFormed, DelRefs, InFlight
    <3>3. CASE del[e].key # k
      BY <1>1, <2>1, <3>1, <3>2, <3>3 DEF DeletionWindow
    <3>4. CASE del[e].key = k
      <4>1. del[d].ver <= del[e].previous \/ del[e].ver <= del[d].previous
        BY <3>1, <3>4 DEF TombstoneInv, DeletionOrder
      <4> QED
        BY <1>1, <1>4, <2>1, <2>2, <3>1, <3>2, <3>4, <4>1
           DEF DeletionWindow, DelState
    <3> QED
      BY <3>3, <3>4
  <2> QED
    BY <1>2, <2>5, <2>6 DEF TombstoneInv, DeletionOrder, InFlight
<1> QED
  BY <1>3, <1>4

\* Every step keeps the invariant of the deletion protocol.
LEMMA TombstoneStep == TombstoneInv /\ [Next]_vars => TombstoneInv'
<1> SUFFICES ASSUME TombstoneInv, [Next]_vars
             PROVE  DeletionOrder' /\ TombstoneSurvives'
  BY WellFormedStep DEF TombstoneInv
<1>1. CASE TombstonesUntouched
  BY <1>1 DEF TombstonesUntouched, TombstoneInv, DeletionOrder, DeletionWindow,
              InFlight, TombstoneSurvives
<1> USE RegistryAssumption DEF TombstoneInv, WellFormed, TypeOK, IdleDel
<1>2. ASSUME NEW d \in Deleter, NEW k \in Key, DeleteRequest(d, k)
      PROVE  DeletionOrder' /\ TombstoneSurvives'
  BY <1>2 DEF DeleteRequest, DeletionOrder, DeletionWindow, InFlight,
              TombstoneSurvives
<1>3. ASSUME NEW d \in Deleter, DeleteCommit(d)
      PROVE  DeletionOrder' /\ TombstoneSurvives'
  BY <1>3 DEF DeleteCommit, Unlink, DeletionOrder, DeletionWindow, InFlight,
              TombstoneSurvives
<1>4. ASSUME NEW d \in Deleter, DeleteFail(d)
      PROVE  DeletionOrder' /\ TombstoneSurvives'
  BY <1>4 DEF DeleteFail, DeletionOrder, DeletionWindow, InFlight,
              TombstoneSurvives
<1>5. ASSUME NEW d \in Deleter, NEW k \in Key, MeshDeleteBegin(d, k)
      PROVE  DeletionOrder' /\ TombstoneSurvives'
  <2> DEFINE v == Max2(clock + 1, localTomb[k] + 1)
  <2>1. v \in Nat /\ v > localTomb[k]
    BY DEF Max2
  <2>2. /\ localTomb' = [localTomb EXCEPT ![k] = v]
        /\ del' = [del EXCEPT ![d] = [pc |-> "reserved", key |-> k, ver |-> v,
                                      previous |-> localTomb[k]]]
        /\ Mesh /\ phase = "up" /\ phase' = phase /\ ~InFlight(d)
        /\ UNCHANGED <<storedTomb, delVer>>
    BY <1>5 DEF MeshDeleteBegin, InFlight
  <2> HIDE DEF v
  <2>3. delVer[k] <= localTomb[k]
    BY <2>2 DEF TombstoneSurvives
  <2>4. TombstoneSurvives'
    BY <2>1, <2>2, <2>3 DEF TombstoneSurvives
  <2>5. DeletionWindow(d)'
    BY <2>1, <2>2, <2>3 DEF DeletionWindow
  <2>6. ASSUME NEW e \in Deleter \ {d}, InFlight(e)'
        PROVE  /\ InFlight(e) /\ DeletionWindow(e)' /\ del'[e] = del[e]
               /\ del[e].key = k => del[e].ver <= localTomb[k]
    <3>1. InFlight(e) /\ del'[e] = del[e]
      BY <2>2, <2>6 DEF InFlight
    <3>2. DeletionWindow(e) /\ del[e].key \in Key
      BY <3>1 DEF DeletionOrder, DelRefs, InFlight
    <3> QED
      BY <2>1, <2>2, <3>1, <3>2 DEF DeletionWindow, DelState
  <2>7. del'[d].key = k /\ del'[d].previous = localTomb[k]
    BY <2>2
  <2> QED
    BY <2>2, <2>4, <2>5, <2>6, <2>7 DEF DeletionOrder
<1>6. ASSUME NEW d \in Deleter, MeshDeleteTransaction(d)
      PROVE  DeletionOrder' /\ TombstoneSurvives'
  <2>1. InFlight(d) /\ del[d].key \in Key
    BY <1>6 DEF MeshDeleteTransaction, InFlight, DelRefs
  <2> QED
    <3>1. /\ delVer' = [delVer EXCEPT ![del[d].key] = Max2(@, del[d].ver)]
          /\ del' = [del EXCEPT ![d].pc = "committed"]
          /\ UNCHANGED <<phase, localTomb>>
      BY <1>6 DEF MeshDeleteTransaction
    <3>2. /\ storedTomb' \in [Key -> Nat]
          /\ \A k \in Key : storedTomb[k] <= storedTomb'[k]
          /\ del[d].ver <= storedTomb'[del[d].key]
      BY <1>6, <2>1 DEF MeshDeleteTransaction, Max2, DelState
    <3> QED
      BY <2>1, <3>1, <3>2, CommitKeepsOrder
<1>7. ASSUME NEW d \in Deleter, MeshDeleteTombstone(d)
      PROVE  DeletionOrder' /\ TombstoneSurvives'
  <2>1. InFlight(d) /\ del[d].key \in Key /\ del[d].pc = "reserved"
    BY <1>7 DEF MeshDeleteTombstone, InFlight, DelRefs
  <2>2. /\ storedTomb' = [storedTomb EXCEPT ![del[d].key] = Max2(@, del[d].ver)]
        /\ del' = [del EXCEPT ![d].pc = "tombstoned"]
        /\ UNCHANGED <<phase, localTomb, delVer>>
    BY <1>7 DEF MeshDeleteTombstone
  <2>3. /\ \A k \in Key : storedTomb[k] <= storedTomb'[k]
        /\ del[d].ver <= storedTomb'[del[d].key]
        /\ storedTomb' \in [Key -> Nat]
    BY <2>1, <2>2 DEF Max2, DelState
  <2>4. \A e \in Deleter :
            /\ del'[e].key = del[e].key /\ del'[e].ver = del[e].ver
            /\ del'[e].previous = del[e].previous
            /\ InFlight(e)' <=> InFlight(e)
            /\ e # d => del'[e] = del[e]
    BY <2>1, <2>2 DEF InFlight, DelState
  <2>5. ASSUME NEW e \in Deleter, InFlight(e)' PROVE DeletionWindow(e)'
    <3>1. InFlight(e) /\ DeletionWindow(e) /\ del[e].key \in Key
      BY <2>4, <2>5 DEF DeletionOrder, DelRefs, InFlight
    <3> QED
      BY <2>2, <2>3, <2>4, <3>1 DEF DeletionWindow, DelState
  <2>6. TombstoneSurvives'
    BY <2>2, <2>3 DEF TombstoneSurvives
  <2> QED
    BY <2>2, <2>4, <2>5, <2>6 DEF DeletionOrder
<1>8. ASSUME NEW d \in Deleter, MeshDeleteState(d)
      PROVE  DeletionOrder' /\ TombstoneSurvives'
  <2>1. InFlight(d) /\ del[d].pc = "tombstoned" /\ del[d].key \in Key
    BY <1>8 DEF MeshDeleteState, InFlight, DelRefs
  <2>2. /\ delVer' = [delVer EXCEPT ![del[d].key] = Max2(@, del[d].ver)]
        /\ del' = [del EXCEPT ![d].pc = "committed"]
        /\ UNCHANGED <<phase, localTomb, storedTomb>>
    BY <1>8 DEF MeshDeleteState
  <2>3. /\ storedTomb' \in [Key -> Nat]
        /\ \A k \in Key : storedTomb[k] <= storedTomb'[k]
        /\ del[d].ver <= storedTomb'[del[d].key]
    BY <2>1, <2>2 DEF DeletionOrder, DeletionWindow
  <2> QED
    BY <2>1, <2>2, <2>3, CommitKeepsOrder
<1>9. ASSUME NEW d \in Deleter, MeshDeleteFail(d)
      PROVE  DeletionOrder' /\ TombstoneSurvives'
  BY <1>9, RollbackKeepsOrder DEF MeshDeleteFail, InFlight
<1>10. ASSUME NEW d \in Deleter, MeshDeleteSyncFail(d)
       PROVE  DeletionOrder' /\ TombstoneSurvives'
  BY <1>10, RollbackKeepsOrder DEF MeshDeleteSyncFail, InFlight
<1>11. ASSUME NEW d \in Deleter, MeshDeleteUnlink(d)
       PROVE  DeletionOrder' /\ TombstoneSurvives'
  BY <1>11 DEF MeshDeleteUnlink, Unlink, DeletionOrder, DeletionWindow, InFlight,
               TombstoneSurvives
<1>12. CASE Shutdown
  BY <1>12 DEF Shutdown, DeletionOrder, DeletionWindow, InFlight,
               TombstoneSurvives
<1>13. CASE ShutdownDone \/ Crash
  BY <1>13 DEF ShutdownDone, Crash, Forget, DeletionOrder, InFlight,
               TombstoneSurvives
<1>14. CASE Restart
  BY <1>14 DEF Restart, DeletionOrder, DeletionWindow, InFlight,
               TombstoneSurvives
<1> QED
  BY <1>1, <1>2, <1>3, <1>4, <1>5, <1>6, <1>7, <1>8, <1>9, <1>10, <1>11, <1>12,
     <1>13, <1>14, UntouchedSteps DEF Next

\* A committed deletion is never forgotten, by any interleaving of any number
\* of DELETE requests, failures, rollbacks, crashes and restarts, with either
\* backend: its tombstone is durable and known to the running node.
THEOREM TombstoneNeverLost == Spec => []TombstoneSurvives
<1>1. Spec => []TombstoneInv
  BY TombstoneInit, TombstoneStep, PTL DEF Spec
<1>2. TombstoneInv => TombstoneSurvives
  BY DEF TombstoneInv
<1> QED
  BY <1>1, <1>2, PTL

-----------------------------------------------------------------------------
(* Stream limits *)

\* Sets of keys are finite.
LEMMA KeySets ==
    ASSUME NEW S \in SUBSET Key
    PROVE  IsFiniteSet(S) /\ Cardinality(S) \in Nat
  BY RegistryAssumption, FS_Subset, FS_CardinalityType

\* Fewer keys count less.
LEMMA KeySubset ==
    ASSUME NEW S \in SUBSET Key, NEW T \in SUBSET S
    PROVE  Cardinality(T) <= Cardinality(S)
  BY KeySets, FS_Subset

\* One key in for at most one key out.
LEMMA KeySwap ==
    ASSUME NEW S \in SUBSET Key, NEW T \in SUBSET Key, NEW k \in Key, NEW v \in S,
           T \subseteq (S \ {v}) \union {k}
    PROVE  Cardinality(T) <= Cardinality(S)
<1>1. IsFiniteSet(S) /\ Cardinality(S) \in Nat
  BY KeySets
<1>2. IsFiniteSet(S \ {v}) /\ Cardinality(S \ {v}) = Cardinality(S) - 1
  BY <1>1, FS_RemoveElement
<1>3. /\ IsFiniteSet((S \ {v}) \union {k})
      /\ Cardinality((S \ {v}) \union {k}) <= Cardinality(S)
  <2> DEFINE U == S \ {v}
  <2>1. IsFiniteSet(U) /\ Cardinality(U) = Cardinality(S) - 1
    BY <1>2
  <2> HIDE DEF U
  <2>2. /\ IsFiniteSet(U \union {k})
        /\ \/ Cardinality(U \union {k}) = Cardinality(U)
           \/ Cardinality(U \union {k}) = Cardinality(U) + 1
    BY <2>1, FS_AddElement
  <2>3. Cardinality(U \union {k}) <= Cardinality(S)
    BY <1>1, <2>1, <2>2
  <2> QED
    BY <2>2, <2>3 DEF U
<1>4. Cardinality(T) <= Cardinality((S \ {v}) \union {k}) /\ Cardinality(T) \in Nat
  BY <1>3, FS_Subset, KeySets
<1>5. Cardinality((S \ {v}) \union {k}) \in Nat
  BY <1>3, FS_CardinalityType
<1> QED
  BY <1>1, <1>3, <1>4, <1>5

\* One key more counts at most one more.
LEMMA KeyAdd ==
    ASSUME NEW S \in SUBSET Key, NEW T \in SUBSET Key, NEW k \in Key,
           T \subseteq S \union {k}
    PROVE  Cardinality(T) <= Cardinality(S) + 1
<1>1. IsFiniteSet(S) /\ Cardinality(S) \in Nat
  BY KeySets
<1>2. /\ IsFiniteSet(S \union {k})
      /\ Cardinality(S \union {k}) <= Cardinality(S) + 1
  BY <1>1, FS_AddElement, SMTT(60)
<1>3. Cardinality(T) <= Cardinality(S \union {k}) /\ Cardinality(T) \in Nat
  BY <1>2, FS_Subset, KeySets
<1>4. Cardinality(S \union {k}) \in Nat
  BY <1>2, FS_CardinalityType
<1> QED
  BY <1>1, <1>2, <1>3, <1>4

\* A victim of another namespace is only taken for a namespace with room, and
\* the namespace still has room when the victim has been saved.
VictimFits ==
    op.pc = "save" =>
        \/ NamespaceOf[op.victim] = NamespaceOf[op.key]
        \/ Cardinality(ResidentIn(NamespaceOf[op.key])) < MaxPerNamespace

CapacityInv == WellFormed /\ CapacityRespected /\ VictimFits

\* Steps that leave no stream resident that was not before keep the limits.
LEMMA NoneAdded ==
    ASSUME CapacityRespected, Resident' \subseteq Resident
    PROVE  CapacityRespected'
<1>1. Resident \in SUBSET Key /\ Resident' \in SUBSET Key
  BY DEF Resident
<1>2. Cardinality(Resident') \in Nat /\ Cardinality(Resident) \in Nat
  BY <1>1, KeySets
<1>3. Cardinality(Resident') <= MaxStreams
  BY <1>1, <1>2, KeySubset, RegistryAssumption DEF CapacityRespected
<1>4. ASSUME NEW ns \in Namespace
      PROVE  Cardinality(ResidentIn(ns)') <= MaxPerNamespace
  <2>1. /\ ResidentIn(ns) \in SUBSET Key /\ ResidentIn(ns)' \in SUBSET Key
        /\ ResidentIn(ns)' \subseteq ResidentIn(ns)
    BY <1>1 DEF ResidentIn
  <2>2. Cardinality(ResidentIn(ns)) \in Nat /\ Cardinality(ResidentIn(ns)') \in Nat
    BY <2>1, KeySets
  <2>3. Cardinality(ResidentIn(ns)') <= Cardinality(ResidentIn(ns))
    BY <2>1, KeySubset
  <2> QED
    BY <2>2, <2>3, RegistryAssumption DEF CapacityRespected
<1> QED
  BY <1>3, <1>4 DEF CapacityRespected

\* An insertion when there is no victim to take: there was room.
LEMMA InsertFits ==
    ASSUME WellFormed, CapacityRespected, OpInsert
    PROVE  CapacityRespected'
<1> DEFINE k == op.key
           home == NamespaceOf[k]
<1>1. /\ op.pc = "loaded" /\ k \in Key /\ home \in Namespace
      /\ resident \in [Key -> Log \union {NoLog}]
      /\ Victims(home) = {} /\ Insert(resident)
  BY RegistryAssumption DEF OpInsert, WellFormed, OpRefs, TypeOK
<1>2. \A j \in Key \ {k} : resident'[j] = resident[j]
  BY <1>1, InsertResult DEF WellFormed
<1>3. Resident \in SUBSET Key /\ Resident' \in SUBSET Key
      /\ Resident' \subseteq Resident \union {k}
  BY <1>2 DEF Resident
<1>4. \A ns \in Namespace :
          /\ ResidentIn(ns) \in SUBSET Key /\ ResidentIn(ns)' \in SUBSET Key
          /\ ResidentIn(ns)' \subseteq ResidentIn(ns) \union {k}
          /\ ns # home => ResidentIn(ns)' \subseteq ResidentIn(ns)
  BY <1>3 DEF ResidentIn
<1>5. Cardinality(Resident) \in Nat /\ Cardinality(Resident') \in Nat
  BY <1>3, KeySets
<1>6. \A ns \in Namespace : /\ Cardinality(ResidentIn(ns)) \in Nat
                            /\ Cardinality(ResidentIn(ns)') \in Nat
  BY <1>4, KeySets
<1>7. Cardinality(ResidentIn(home)) < MaxPerNamespace
  <2>1. ResidentIn(home) = {} => Cardinality(ResidentIn(home)) = 0
    BY FS_EmptySet
  <2> QED
    BY <1>1, <1>6, <2>1, RegistryAssumption DEF Victims
<1>8. Cardinality(Resident) < MaxStreams
  <2>1. Resident = {} => Cardinality(Resident) = 0
    BY FS_EmptySet
  <2> QED
    BY <1>1, <1>5, <1>6, <1>7, <2>1, RegistryAssumption DEF Victims
<1>9. Cardinality(Resident') <= Cardinality(Resident) + 1
  BY <1>1, <1>3, KeyAdd
<1>10. ASSUME NEW ns \in Namespace
       PROVE  Cardinality(ResidentIn(ns)') <= MaxPerNamespace
  <2>1. CASE ns = home
    <3>1. Cardinality(ResidentIn(ns)') <= Cardinality(ResidentIn(ns)) + 1
      BY <1>1, <1>4, KeyAdd
    <3> QED
      BY <1>6, <1>7, <2>1, <3>1, RegistryAssumption
  <2>2. CASE ns # home
    <3>1. Cardinality(ResidentIn(ns)') <= Cardinality(ResidentIn(ns))
      BY <1>4, <2>2, KeySubset
    <3> QED
      BY <1>6, <3>1, RegistryAssumption DEF CapacityRespected
  <2> QED
    BY <2>1, <2>2
<1> QED
  BY <1>5, <1>8, <1>9, <1>10, RegistryAssumption DEF CapacityRespected

\* An insertion in the place of the saved victim.
LEMMA EvictFits ==
    ASSUME CapacityInv, OpEvict
    PROVE  CapacityRespected'
<1> DEFINE k == op.key
           v == op.victim
           home == NamespaceOf[k]
           res == [resident EXCEPT ![v] = NoLog]
<1>1. /\ op.pc = "save" /\ k \in Key /\ v \in Key /\ home \in Namespace
      /\ resident \in [Key -> Log \union {NoLog}]
      /\ resident[v] # NoLog
      /\ Insert(res)
  BY RegistryAssumption DEF OpEvict, CapacityInv, WellFormed, OpRefs, TypeOK
<1>2. \A j \in Key \ {k} : resident'[j] = res[j]
  <2>1. res \in [Key -> Log \union {NoLog}]
    BY <1>1
  <2> HIDE DEF res
  <2> QED
    BY <1>1, <2>1, InsertResult DEF CapacityInv, WellFormed
<1>3. /\ Resident \in SUBSET Key /\ Resident' \in SUBSET Key /\ v \in Resident
      /\ Resident' \subseteq (Resident \ {v}) \union {k}
  BY <1>1, <1>2 DEF Resident
<1>4. \A ns \in Namespace :
          /\ ResidentIn(ns) \in SUBSET Key /\ ResidentIn(ns)' \in SUBSET Key
          /\ ResidentIn(ns)' \subseteq (ResidentIn(ns) \ {v}) \union {k}
          /\ ns # home => ResidentIn(ns)' \subseteq ResidentIn(ns)
  BY <1>3 DEF ResidentIn
<1>5. Cardinality(Resident) \in Nat /\ Cardinality(Resident') \in Nat
  BY <1>3, KeySets
<1>6. \A ns \in Namespace : /\ Cardinality(ResidentIn(ns)) \in Nat
                            /\ Cardinality(ResidentIn(ns)') \in Nat
  BY <1>4, KeySets
<1> HIDE DEF res
<1>7. Cardinality(Resident') <= Cardinality(Resident)
  BY <1>1, <1>3, KeySwap
<1>8. ASSUME NEW ns \in Namespace
      PROVE  Cardinality(ResidentIn(ns)') <= MaxPerNamespace
  <2>1. CASE ns # home
    <3>1. Cardinality(ResidentIn(ns)') <= Cardinality(ResidentIn(ns))
      BY <1>4, <2>1, KeySubset
    <3> QED
      BY <1>6, <3>1, RegistryAssumption DEF CapacityInv, CapacityRespected
  <2>2. CASE ns = home /\ NamespaceOf[v] = home
    <3>1. v \in ResidentIn(ns)
      BY <1>3, <2>2 DEF ResidentIn
    <3>2. Cardinality(ResidentIn(ns)') <= Cardinality(ResidentIn(ns))
      BY <1>1, <1>4, <3>1, KeySwap
    <3> QED
      BY <1>6, <3>2, RegistryAssumption DEF CapacityInv, CapacityRespected
  <2>3. CASE ns = home /\ NamespaceOf[v] # home
    <3>1. Cardinality(ResidentIn(ns)) < MaxPerNamespace
      BY <1>1, <2>3 DEF CapacityInv, VictimFits
    <3>2. ResidentIn(ns)' \subseteq ResidentIn(ns) \union {k}
      BY <1>4
    <3>3. Cardinality(ResidentIn(ns)') <= Cardinality(ResidentIn(ns)) + 1
      BY <1>1, <1>4, <3>2, KeyAdd
    <3> QED
      BY <1>6, <3>1, <3>3, RegistryAssumption
  <2> QED
    BY <2>1, <2>2, <2>3
<1> QED
  BY <1>5, <1>7, <1>8, RegistryAssumption DEF CapacityInv, CapacityRespected

\* The steps that touch neither the resident streams nor the request inside
\* the lock.
RegistryUntouched == UNCHANGED <<resident, op>>

\* They keep the limits.
LEMMA UntouchedKeepsCapacity ==
    ASSUME CapacityInv, WellFormed', RegistryUntouched
    PROVE  CapacityInv'
<1>1. Resident' = Resident /\ \A ns : ResidentIn(ns)' = ResidentIn(ns)
  BY DEF RegistryUntouched, Resident, ResidentIn
<1> QED
  BY <1>1 DEF CapacityInv, CapacityRespected, VictimFits, RegistryUntouched

\* They are the reads of saves, the flush loop, and all of a DELETE request
\* but its last step.
LEMMA RegistryUntouchedSteps ==
    ASSUME \/ \E s \in Saver : Serialize(s)
           \/ \E s \in Saver : Stamp(s)
           \/ FlushStart \/ FlushWrite \/ FlushFail
           \/ \E k \in Key : FlushNext(k)
           \/ \E d \in Deleter, k \in Key : DeleteRequest(d, k)
           \/ \E d \in Deleter : DeleteFail(d)
           \/ \E d \in Deleter, k \in Key : MeshDeleteBegin(d, k)
           \/ \E d \in Deleter : \/ MeshDeleteTransaction(d)
                                 \/ MeshDeleteTombstone(d)
                                 \/ MeshDeleteState(d)
                                 \/ MeshDeleteFail(d)
                                 \/ MeshDeleteSyncFail(d)
           \/ Shutdown \/ Restart
           \/ UNCHANGED vars
    PROVE  RegistryUntouched
  BY DEF RegistryUntouched, Serialize, Stamp, FlushStart, FlushWrite, FlushFail,
         FlushNext, DeleteRequest, DeleteFail, MeshDeleteBegin,
         MeshDeleteTransaction, MeshDeleteTombstone, MeshDeleteState,
         MeshDeleteFail, MeshDeleteSyncFail, Shutdown, Restart, vars

\* Every step keeps both limits.
LEMMA CapacityStep == CapacityInv /\ [Next]_vars => CapacityInv'
<1> SUFFICES ASSUME CapacityInv, [Next]_vars PROVE CapacityInv'
  OBVIOUS
<1>1. WellFormed /\ WellFormed'
  BY WellFormedStep DEF CapacityInv
<1>2. CASE RegistryUntouched
  BY <1>1, <1>2, UntouchedKeepsCapacity
<1>3. ASSUME Resident' \subseteq Resident, op'.pc # "save"
      PROVE  CapacityInv'
  BY <1>1, <1>3, NoneAdded DEF CapacityInv, VictimFits
<1>4. ASSUME NEW k \in Key, IngestResident(k)
      PROVE  CapacityInv'
  <2>1. Resident' \subseteq Resident
    BY <1>1, <1>4 DEF IngestResident, Resident, WellFormed, TypeOK
  <2>2. op'.pc # "save"
    BY <1>4 DEF IngestResident
  <2> QED
    BY <1>3, <2>1, <2>2
<1>5. ASSUME NEW kind \in {"ingest", "get"}, NEW k \in Key, OpStart(kind, k)
      PROVE  CapacityInv'
  BY <1>3, <1>5 DEF OpStart, IdleOp, Resident
<1>6. CASE OpLoad \/ OpLoadFail \/ OpEvictFail
  <2>1. resident' = resident
    BY <1>6 DEF OpLoad, OpLoadFail, OpEvictFail
  <2>2. op'.pc # "save"
    <3>1. CASE OpLoad
      <4>1. op' = IdleOp \/ op' = [op EXCEPT !.pc = "loaded", !.loaded = stored[op.key]]
        BY <3>1 DEF OpLoad
      <4>2. op \in OpState
        BY <1>1 DEF WellFormed, TypeOK
      <4>3. [op EXCEPT !.pc = "loaded", !.loaded = stored[op.key]].pc = "loaded"
        BY <4>2 DEF OpState
      <4>4. IdleOp.pc = "idle"
        BY DEF IdleOp
      <4> QED
        BY <4>1, <4>3, <4>4
    <3>2. CASE OpLoadFail \/ OpEvictFail
      BY <3>2 DEF OpLoadFail, OpEvictFail, IdleOp
    <3> QED
      BY <1>6, <3>1, <3>2
  <2> QED
    BY <1>3, <2>1, <2>2 DEF Resident
<1>7. CASE OpInsert
  <2>1. op' = IdleOp
    BY <1>7 DEF OpInsert, Insert
  <2> QED
    BY <1>1, <1>7, <2>1, InsertFits DEF CapacityInv, VictimFits, IdleOp
<1>8. CASE OpEvict
  <2>1. op' = IdleOp
    BY <1>8 DEF OpEvict, Insert
  <2> QED
    BY <1>1, <1>8, <2>1, EvictFits DEF CapacityInv, VictimFits, IdleOp
<1>9. CASE OpPickVictim
  <2>1. PICK v \in Victims(NamespaceOf[op.key]) :
            op' = [op EXCEPT !.pc = "save", !.victim = v]
    BY <1>9 DEF OpPickVictim
  <2>2. /\ op.key \in Key /\ NamespaceOf[op.key] \in Namespace
        /\ op'.key = op.key /\ op'.victim = v
    BY <1>1, <1>9, <2>1, RegistryAssumption
       DEF OpPickVictim, WellFormed, OpRefs, TypeOK, OpState
  <2>3. /\ resident' = resident /\ Resident' = Resident
        /\ \A ns : ResidentIn(ns)' = ResidentIn(ns)
    BY <1>9 DEF OpPickVictim, Resident, ResidentIn
  <2>4. ResidentIn(NamespaceOf[op.key]) \in SUBSET Key
    BY DEF ResidentIn, Resident
  <2>5. Cardinality(ResidentIn(NamespaceOf[op.key])) \in Nat
    BY <2>4, KeySets
  <2>6. \/ NamespaceOf[v] = NamespaceOf[op.key]
        \/ Cardinality(ResidentIn(NamespaceOf[op.key])) < MaxPerNamespace
    BY <2>5, RegistryAssumption DEF Victims, ResidentIn
  <2> QED
    BY <1>1, <2>2, <2>3, <2>6 DEF CapacityInv, CapacityRespected, VictimFits
<1>10. ASSUME NEW d \in Deleter, DeleteCommit(d) \/ MeshDeleteUnlink(d)
       PROVE  CapacityInv'
  <2>1. resident' = [resident EXCEPT ![del[d].key] = NoLog] /\ op' = op
        /\ op.pc = "idle"
    BY <1>10 DEF DeleteCommit, MeshDeleteUnlink, Unlink
  <2>2. Resident' \subseteq Resident
    BY <1>1, <2>1 DEF Resident, WellFormed, TypeOK
  <2> QED
    BY <1>3, <2>1, <2>2
<1>11. CASE ShutdownDone \/ Crash
  BY <1>3, <1>11 DEF ShutdownDone, Crash, Forget, IdleOp, Resident
<1> QED
  BY <1>2, <1>4, <1>5, <1>6, <1>7, <1>8, <1>9, <1>10, <1>11,
     RegistryUntouchedSteps DEF Next

\* The registry never holds more streams than max_streams, nor more of one
\* namespace than max_streams_per_ns, for any limits and whatever requests,
\* flushes, deletions and crashes happen between the choice of a victim in
\* _evict_if_needed and the insertion that follows its save.
THEOREM CapacityNeverExceeded == Spec => []CapacityRespected
<1>1. Init => CapacityInv
  <2> SUFFICES ASSUME Init PROVE CapacityInv
    OBVIOUS
  <2>1. Resident = {} /\ \A ns : ResidentIn(ns) = {}
    BY DEF Init, Resident, ResidentIn
  <2>2. CapacityRespected
    BY <2>1, FS_EmptySet, RegistryAssumption DEF CapacityRespected
  <2> QED
    BY <2>2, WellFormedInit DEF CapacityInv, VictimFits, Init, IdleOp
<1>2. CapacityInv /\ [Next]_vars => CapacityInv'
  BY CapacityStep
<1>3. CapacityInv => CapacityRespected
  BY DEF CapacityInv
<1> QED
  BY <1>1, <1>2, <1>3, PTL DEF Spec

-----------------------------------------------------------------------------
(* The cap on durable tombstones                                            *)

Marked == {k \in Key : localTomb[k] # 0}
DurablyMarked == {k \in Key : storedTomb[k] # 0}

\* With the SQL backend a tombstone becomes durable in the transaction that
\* deletes the state, so every durable tombstone belongs to a committed
\* deletion; the running node knows all of those (TombstoneSurvives), and it
\* never knows more than the cap.
TombstoneCap ==
    /\ \A k \in Key : storedTomb[k] = delVer[k]
    /\ Mesh => /\ Cardinality(Marked) <= MaxTombstones
               /\ Cardinality(DurablyMarked) <= MaxTombstones

\* A rollback never takes the node's last tombstone of a key that another
\* deletion still needs, and adds none.
LEMMA RollbackMarks ==
    ASSUME TombstoneInv, NEW d \in Deleter, InFlight(d), Rollback(d)
    PROVE  {k \in Key : localTomb'[k] # 0} \subseteq Marked
<1>1. /\ del[d].key \in Key /\ localTomb \in [Key -> Nat] /\ del[d] \in DelState
      /\ del[d].previous < del[d].ver /\ del[d].ver <= localTomb[del[d].key]
  BY DEF TombstoneInv, WellFormed, TypeOK, DelRefs, InFlight, DeletionOrder,
         DeletionWindow
<1>2. localTomb[del[d].key] # 0
  BY <1>1 DEF DelState
<1> QED
  BY <1>1, <1>2 DEF Rollback, Marked

\* Every step keeps the cap.
LEMMA TombstoneCapStep ==
    ASSUME Backend = "sqlalchemy", TombstoneInv, TombstoneCap, [Next]_vars
    PROVE  TombstoneCap'
<1>1. /\ WellFormed /\ TypeOK
      /\ Marked \in SUBSET Key /\ Marked' \in SUBSET Key
      /\ DurablyMarked \in SUBSET Key /\ DurablyMarked' \in SUBSET Key
  BY DEF TombstoneInv, WellFormed, Marked, DurablyMarked
<1>2. /\ Cardinality(Marked) \in Nat /\ Cardinality(Marked') \in Nat
      /\ Cardinality(DurablyMarked) \in Nat /\ Cardinality(DurablyMarked') \in Nat
      /\ MaxTombstones \in Nat
  BY <1>1, KeySets, RegistryAssumption
<1>3. ASSUME Marked' \subseteq Marked, UNCHANGED <<storedTomb, delVer>>
      PROVE  TombstoneCap'
  <2>1. Cardinality(Marked') <= Cardinality(Marked) /\ DurablyMarked' = DurablyMarked
    BY <1>1, <1>3, KeySubset DEF DurablyMarked
  <2> QED
    BY <1>2, <1>3, <2>1 DEF TombstoneCap
<1>4. CASE TombstonesUntouched
  BY <1>3, <1>4 DEF TombstonesUntouched, Marked
<1>5. ASSUME NEW d \in Deleter, NEW k \in Key, DeleteRequest(d, k)
      PROVE  TombstoneCap'
  BY <1>3, <1>5 DEF DeleteRequest, Marked
<1>6. ASSUME NEW d \in Deleter, DeleteCommit(d) \/ DeleteFail(d) \/ MeshDeleteUnlink(d)
      PROVE  TombstoneCap'
  BY <1>3, <1>6 DEF DeleteCommit, DeleteFail, MeshDeleteUnlink, Marked
<1>7. ASSUME NEW d \in Deleter, NEW k \in Key, MeshDeleteBegin(d, k)
      PROVE  TombstoneCap'
  <2>1. /\ Mesh /\ RoomForTombstone(k)
        /\ UNCHANGED <<storedTomb, delVer>>
        /\ \A j \in Key \ {k} : localTomb'[j] = localTomb[j]
    BY <1>1, <1>7 DEF MeshDeleteBegin, TypeOK
  <2>2. Marked' \subseteq Marked \union {k}
    BY <2>1 DEF Marked
  <2>3. CASE localTomb[k] # 0
    <3>1. Marked' \subseteq Marked
      BY <2>2, <2>3 DEF Marked
    <3> QED
      BY <1>3, <2>1, <3>1
  <2>4. CASE localTomb[k] = 0
    <3>1. Cardinality(Marked) < MaxTombstones
      BY <2>1, <2>4 DEF RoomForTombstone, Marked
    <3>2. Cardinality(Marked') <= Cardinality(Marked) + 1
      BY <1>1, <2>2, KeyAdd
    <3>3. DurablyMarked' = DurablyMarked
      BY <2>1 DEF DurablyMarked
    <3> QED
      BY <1>2, <2>1, <3>1, <3>2, <3>3 DEF TombstoneCap
  <2> QED
    BY <2>3, <2>4
<1>8. ASSUME NEW d \in Deleter, MeshDeleteTransaction(d)
      PROVE  TombstoneCap'
  <2>1. /\ del[d].pc = "reserved" /\ InFlight(d) /\ del[d].key \in Key
        /\ del[d].ver \in Nat
        /\ storedTomb' = [storedTomb EXCEPT ![del[d].key] = Max2(@, del[d].ver)]
        /\ delVer' = [delVer EXCEPT ![del[d].key] = Max2(@, del[d].ver)]
        /\ localTomb' = localTomb
    BY <1>1, <1>8 DEF MeshDeleteTransaction, InFlight, WellFormed, DelRefs, TypeOK,
                      DelState
  <2>2. \A k \in Key : storedTomb'[k] = delVer'[k]
    BY <1>1, <2>1 DEF TypeOK, TombstoneCap
  <2>3. Mesh /\ phase # "down"
    BY <2>1 DEF TombstoneInv, DeletionOrder
  <2>4. DurablyMarked \subseteq Marked
    BY <1>1, <2>3
       DEF TombstoneInv, TombstoneSurvives, TombstoneCap, DurablyMarked, Marked, TypeOK
  <2>5. del[d].key \in Marked
    <3>1. /\ del[d].previous < del[d].ver /\ del[d].ver <= localTomb[del[d].key]
          /\ del[d].previous \in Nat /\ localTomb[del[d].key] \in Nat
      BY <1>1, <2>1 DEF TombstoneInv, DeletionOrder, DeletionWindow, TypeOK, DelState
    <3> QED
      BY <2>1, <3>1 DEF Marked
  <2>6. DurablyMarked' \subseteq Marked
    BY <1>1, <2>1, <2>4, <2>5 DEF DurablyMarked, TypeOK
  <2>7. Cardinality(DurablyMarked') <= Cardinality(Marked) /\ Marked' = Marked
    BY <1>1, <2>1, <2>6, KeySubset DEF Marked
  <2> QED
    BY <1>2, <2>2, <2>3, <2>7 DEF TombstoneCap
<1>9. ASSUME NEW d \in Deleter,
             MeshDeleteTombstone(d) \/ MeshDeleteState(d) \/ MeshDeleteSyncFail(d)
      PROVE  FALSE
  BY <1>9 DEF MeshDeleteTombstone, MeshDeleteState, MeshDeleteSyncFail
<1>10. ASSUME NEW d \in Deleter, MeshDeleteFail(d)
       PROVE  TombstoneCap'
  <2>1. InFlight(d) /\ Rollback(d) /\ UNCHANGED <<storedTomb, delVer>>
    BY <1>10 DEF MeshDeleteFail, InFlight
  <2>2. Marked' \subseteq Marked
    BY <2>1, RollbackMarks DEF Marked
  <2> QED
    BY <1>3, <2>1, <2>2
<1>11. CASE Shutdown
  BY <1>3, <1>11 DEF Shutdown, Marked
<1>12. CASE ShutdownDone \/ Crash
  BY <1>3, <1>12 DEF ShutdownDone, Crash, Forget, Marked
<1>13. CASE Restart
  <2>1. CASE Mesh
    <3>1. Marked' = DurablyMarked /\ DurablyMarked' = DurablyMarked
          /\ UNCHANGED <<storedTomb, delVer>>
      BY <1>13, <2>1 DEF Restart, Marked, DurablyMarked
    <3> QED
      BY <3>1 DEF TombstoneCap
  <2>2. CASE ~Mesh
    BY <1>3, <1>13, <2>2 DEF Restart, Marked
  <2> QED
    BY <2>1, <2>2
<1> QED
  BY <1>4, <1>5, <1>6, <1>7, <1>8, <1>9, <1>10, <1>11, <1>12, <1>13,
     UntouchedSteps DEF Next

\* With the SQL backend, storage never holds more tombstones than
\* SKETCHLOG_MAX_LOCAL_TOMBSTONES, for any number of concurrent DELETE
\* requests, failures and crashes: restore_local_tombstones, which refuses
\* more than the cap, never keeps the server from starting.
THEOREM SqlTombstonesCapped ==
    Backend = "sqlalchemy" => (Spec => []DurableTombstonesBounded)
<1> SUFFICES ASSUME Backend = "sqlalchemy"
             PROVE  Spec => []DurableTombstonesBounded
  OBVIOUS
<1>1. Init => TombstoneInv /\ TombstoneCap
  <2> SUFFICES ASSUME Init PROVE TombstoneCap
    BY TombstoneInit
  <2>1. Marked = {} /\ DurablyMarked = {}
    BY DEF Init, Marked, DurablyMarked
  <2> QED
    BY <2>1, FS_EmptySet, RegistryAssumption DEF Init, TombstoneCap
<1>2. TombstoneInv /\ TombstoneCap /\ [Next]_vars => TombstoneInv' /\ TombstoneCap'
  BY TombstoneStep, TombstoneCapStep
<1>3. TombstoneCap => DurableTombstonesBounded
  BY DEF TombstoneCap, DurableTombstonesBounded, DurablyMarked
<1> QED
  BY <1>1, <1>2, <1>3, PTL DEF Spec

-----------------------------------------------------------------------------
(* Rolling back a failed deletion                                           *)

\* No two DELETE requests are between their reservation and their commit for
\* the same stream.  Without it RollbackUndoes is false: of two reservations
\* that both fail, the later one restores the version of the earlier.
SerialDeletions ==
    \A d, e \in Deleter :
        d # e /\ InFlight(d) /\ InFlight(e) => del[d].key # del[e].key

\* The node's tombstone of a key is committed, or it is the reservation of a
\* deletion that has not written anything yet; and what a deletion in flight
\* would restore was committed.
Undoable ==
    /\ \A k \in Key : \/ localTomb[k] <= storedTomb[k]
                      \/ \E d \in Deleter : /\ del[d].pc = "reserved"
                                            /\ del[d].key = k
                                            /\ localTomb[k] = del[d].ver
    /\ \A d \in Deleter : InFlight(d) => del[d].previous <= storedTomb[del[d].key]

\* Writing the tombstone of a deletion in flight commits its reservation.
LEMMA CommitKeepsUndoable ==
    ASSUME TombstoneInv, Undoable, NEW d \in Deleter, InFlight(d),
           storedTomb' = [storedTomb EXCEPT ![del[d].key] = Max2(@, del[d].ver)],
           NEW pc \in {"tombstoned", "committed"},
           del' = [del EXCEPT ![d].pc = pc],
           localTomb' = localTomb
    PROVE  Undoable'
<1>1. /\ del[d].key \in Key /\ storedTomb \in [Key -> Nat] /\ localTomb \in [Key -> Nat]
      /\ \A e \in Deleter : del[e] \in DelState
      /\ \A e \in Deleter : InFlight(e) => del[e].key \in Key
  BY DEF TombstoneInv, WellFormed, TypeOK, DelRefs, InFlight
<1>2. /\ \A e \in Deleter \ {d} : del'[e] = del[e]
      /\ del'[d].pc = pc /\ del'[d].key = del[d].key /\ del'[d].ver = del[d].ver
      /\ del'[d].previous = del[d].previous
  BY <1>1 DEF TombstoneInv, WellFormed, TypeOK, DelState
<1>3. /\ \A k \in Key : storedTomb[k] <= storedTomb'[k] /\ storedTomb'[k] \in Nat
      /\ del[d].ver <= storedTomb'[del[d].key]
  BY <1>1 DEF Max2, DelState
<1>4. ASSUME NEW k \in Key
      PROVE  \/ localTomb'[k] <= storedTomb'[k]
             \/ \E e \in Deleter : /\ del'[e].pc = "reserved"
                                   /\ del'[e].key = k /\ localTomb'[k] = del'[e].ver
  <2>1. CASE localTomb[k] <= storedTomb[k]
    BY <1>1, <1>3, <2>1
  <2>2. ASSUME NEW e \in Deleter, del[e].pc = "reserved", del[e].key = k,
               localTomb[k] = del[e].ver
        PROVE  \/ localTomb'[k] <= storedTomb'[k]
               \/ \E f \in Deleter : /\ del'[f].pc = "reserved"
                                     /\ del'[f].key = k /\ localTomb'[k] = del'[f].ver
    BY <1>2, <1>3, <2>2
  <2> QED
    BY <2>1, <2>2 DEF Undoable
<1>5. ASSUME NEW e \in Deleter, InFlight(e)'
      PROVE  del'[e].previous <= storedTomb'[del'[e].key]
  <2>1. InFlight(e) /\ del'[e].previous = del[e].previous /\ del'[e].key = del[e].key
    BY <1>2, <1>5 DEF InFlight
  <2>2. del[e].key \in Key /\ del[e].previous <= storedTomb[del[e].key]
        /\ del[e].previous \in Nat
    BY <1>1, <2>1 DEF Undoable, DelState
  <2> QED
    BY <1>1, <1>3, <2>1, <2>2
<1> QED
  BY <1>4, <1>5 DEF Undoable

\* A rollback restores a committed version.
LEMMA RollbackKeepsUndoable ==
    ASSUME TombstoneInv, Undoable, NEW d \in Deleter, InFlight(d), Rollback(d),
           del' = [del EXCEPT ![d] = IdleDel], storedTomb' = storedTomb
    PROVE  Undoable'
<1>1. /\ del[d].key \in Key /\ localTomb \in [Key -> Nat] /\ storedTomb \in [Key -> Nat]
      /\ del[d].previous <= storedTomb[del[d].key]
  BY DEF TombstoneInv, WellFormed, TypeOK, DelRefs, InFlight, Undoable
<1>2. /\ \A e \in Deleter \ {d} : del'[e] = del[e]
      /\ del'[d].pc = "idle"
  BY DEF TombstoneInv, WellFormed, TypeOK, IdleDel
<1>3. /\ \A k \in Key \ {del[d].key} : localTomb'[k] = localTomb[k]
      /\ localTomb'[del[d].key] = IF localTomb[del[d].key] = del[d].ver
                                  THEN del[d].previous ELSE localTomb[del[d].key]
  BY <1>1 DEF Rollback
<1>4. ASSUME NEW k \in Key
      PROVE  \/ localTomb'[k] <= storedTomb'[k]
             \/ \E e \in Deleter : /\ del'[e].pc = "reserved"
                                   /\ del'[e].key = k /\ localTomb'[k] = del'[e].ver
  <2>1. CASE k = del[d].key /\ localTomb[k] = del[d].ver
    BY <1>1, <1>3, <2>1
  <2>2. CASE ~(k = del[d].key /\ localTomb[k] = del[d].ver)
    <3>1. localTomb'[k] = localTomb[k]
      BY <1>3, <2>2
    <3>2. ASSUME NEW e \in Deleter, del[e].pc = "reserved", del[e].key = k,
                 localTomb[k] = del[e].ver
          PROVE  del'[e] = del[e]
      BY <1>2, <2>2, <3>2
    <3> QED
      BY <3>1, <3>2 DEF Undoable
  <2> QED
    BY <2>1, <2>2
<1>5. ASSUME NEW e \in Deleter, InFlight(e)'
      PROVE  del'[e].previous <= storedTomb'[del'[e].key]
  BY <1>2, <1>5 DEF InFlight, Undoable
<1> QED
  BY <1>4, <1>5 DEF Undoable

\* Every step that keeps deletions of a stream apart keeps Undoable.
LEMMA UndoableStep ==
    ASSUME TombstoneInv, Undoable, SerialDeletions', [Next]_vars
    PROVE  Undoable'
<1>1. /\ storedTomb \in [Key -> Nat] /\ localTomb \in [Key -> Nat]
      /\ clock \in Nat
      /\ del \in [Deleter -> DelState]
  BY DEF TombstoneInv, WellFormed, TypeOK
<1>2. CASE TombstonesUntouched
  BY <1>2 DEF TombstonesUntouched, Undoable, InFlight
<1>3. ASSUME NEW d \in Deleter, NEW k \in Key, DeleteRequest(d, k)
      PROVE  Undoable'
  BY <1>1, <1>3 DEF DeleteRequest, Undoable, InFlight, IdleDel
<1>4. ASSUME NEW d \in Deleter, DeleteCommit(d) \/ DeleteFail(d) \/ MeshDeleteUnlink(d)
      PROVE  Undoable'
  <2>1. /\ del' = [del EXCEPT ![d] = IdleDel] /\ del[d].pc # "reserved"
        /\ UNCHANGED <<localTomb, storedTomb>>
    BY <1>4 DEF DeleteCommit, DeleteFail, MeshDeleteUnlink, Unlink
  <2>2. \A e \in Deleter : e # d => del'[e] = del[e]
    BY <1>1, <2>1
  <2>3. del'[d].pc = "idle"
    BY <1>1, <2>1 DEF IdleDel
  <2> QED
    BY <2>1, <2>2, <2>3 DEF Undoable, InFlight
<1>5. ASSUME NEW d \in Deleter, NEW k \in Key, MeshDeleteBegin(d, k)
      PROVE  Undoable'
  <2> DEFINE version == Max2(clock + 1, localTomb[k] + 1)
  <2>1. /\ del[d].pc = "idle"
        /\ localTomb' = [localTomb EXCEPT ![k] = version]
        /\ del' = [del EXCEPT ![d] = [pc |-> "reserved", key |-> k, ver |-> version,
                                      previous |-> localTomb[k]]]
        /\ storedTomb' = storedTomb
    BY <1>5 DEF MeshDeleteBegin
  <2> HIDE DEF version
  <2>2. /\ \A e \in Deleter : e # d => del'[e] = del[e]
        /\ del'[d].pc = "reserved" /\ del'[d].key = k /\ del'[d].ver = version
        /\ del'[d].previous = localTomb[k]
        /\ localTomb'[k] = version
        /\ \A j \in Key : j # k => localTomb'[j] = localTomb[j]
    BY <1>1, <2>1
  <2>3. localTomb[k] <= storedTomb[k]
    <3> SUFFICES ASSUME NEW e \in Deleter, del[e].pc = "reserved", del[e].key = k
                 PROVE  FALSE
      BY DEF Undoable
    <3>1. e # d
      BY <2>1
    <3>2. del'[e].pc = "reserved" /\ del'[e].key = k
      BY <2>2, <3>1
    <3>3. InFlight(d)' /\ InFlight(e)'
      BY <2>2, <3>2 DEF InFlight
    <3> QED
      BY <2>2, <3>1, <3>2, <3>3 DEF SerialDeletions
  <2>4. ASSUME NEW j \in Key
        PROVE  \/ localTomb'[j] <= storedTomb'[j]
               \/ \E e \in Deleter : /\ del'[e].pc = "reserved"
                                     /\ del'[e].key = j /\ localTomb'[j] = del'[e].ver
    <3>1. CASE j = k
      BY <2>2, <3>1
    <3>2. CASE j # k
      <4>1. \A e \in Deleter : del[e].pc = "reserved" => del'[e] = del[e]
        BY <2>1, <2>2
      <4> QED
        BY <2>1, <2>2, <3>2, <4>1 DEF Undoable
    <3> QED
      BY <3>1, <3>2
  <2>5. ASSUME NEW e \in Deleter, InFlight(e)'
        PROVE  del'[e].previous <= storedTomb'[del'[e].key]
    <3>1. CASE e = d
      BY <2>1, <2>2, <2>3, <3>1
    <3>2. CASE e # d
      <4>1. del'[e] = del[e] /\ InFlight(e)
        BY <2>2, <2>5, <3>2 DEF InFlight
      <4> QED
        BY <2>1, <4>1 DEF Undoable
    <3> QED
      BY <3>1, <3>2
  <2> QED
    BY <2>4, <2>5 DEF Undoable
<1>6. ASSUME NEW d \in Deleter, MeshDeleteTransaction(d) \/ MeshDeleteTombstone(d)
      PROVE  Undoable'
  <2>1. InFlight(d)
    BY <1>6 DEF MeshDeleteTransaction, MeshDeleteTombstone, InFlight
  <2>2. /\ storedTomb' = [storedTomb EXCEPT ![del[d].key] = Max2(@, del[d].ver)]
        /\ localTomb' = localTomb
        /\ \/ del' = [del EXCEPT ![d].pc = "committed"]
           \/ del' = [del EXCEPT ![d].pc = "tombstoned"]
    BY <1>6 DEF MeshDeleteTransaction, MeshDeleteTombstone
  <2> QED
    BY <2>1, <2>2, CommitKeepsUndoable
<1>7. ASSUME NEW d \in Deleter, MeshDeleteState(d)
      PROVE  Undoable'
  <2>1. /\ del[d].pc = "tombstoned" /\ del' = [del EXCEPT ![d].pc = "committed"]
        /\ UNCHANGED <<localTomb, storedTomb>>
    BY <1>7 DEF MeshDeleteState
  <2>2. /\ \A e \in Deleter : e # d => del'[e] = del[e]
        /\ del'[d].pc = "committed"
    BY <1>1, <2>1
  <2> QED
    BY <2>1, <2>2 DEF Undoable, InFlight
<1>8. ASSUME NEW d \in Deleter, MeshDeleteFail(d) \/ MeshDeleteSyncFail(d)
      PROVE  Undoable'
  <2>1. InFlight(d) /\ Rollback(d) /\ del' = [del EXCEPT ![d] = IdleDel]
        /\ storedTomb' = storedTomb
    BY <1>8 DEF MeshDeleteFail, MeshDeleteSyncFail, InFlight
  <2> QED
    BY <2>1, RollbackKeepsUndoable
<1>9. CASE Shutdown
  BY <1>9 DEF Shutdown, Undoable, InFlight
<1>10. CASE ShutdownDone \/ Crash
  <2>1. /\ localTomb' = [k \in Key |-> 0] /\ del' = [d \in Deleter |-> IdleDel]
        /\ storedTomb' = storedTomb
    BY <1>10 DEF ShutdownDone, Crash, Forget
  <2> QED
    BY <1>1, <2>1 DEF Undoable, InFlight, IdleDel
<1>11. CASE Restart
  <2>1. /\ UNCHANGED <<storedTomb, del>>
        /\ localTomb' = storedTomb \/ localTomb' = localTomb
    BY <1>11 DEF Restart
  <2>2. CASE localTomb' = storedTomb
    BY <1>1, <2>1, <2>2 DEF Undoable, InFlight
  <2>3. CASE localTomb' = localTomb
    BY <2>1, <2>3 DEF Undoable, InFlight
  <2> QED
    BY <2>1, <2>2, <2>3
<1> QED
  BY <1>2, <1>3, <1>4, <1>5, <1>6, <1>7, <1>8, <1>9, <1>10, <1>11,
     UntouchedSteps DEF Next

\* rollback_deletion undoes a failed deletion, whichever step of it failed
\* and whatever crashed in between: while deletions of one stream do not
\* overlap, a stream with no deletion in progress has no tombstone on the
\* node that is newer than the one in storage.  For either backend and any
\* number of DELETE requests for different streams.
THEOREM FailedDeletionUndone == Spec /\ []SerialDeletions => []RollbackUndoes
<1>1. Init => TombstoneInv /\ Undoable
  <2>1. Init => Undoable
    BY DEF Init, Undoable, InFlight, IdleDel
  <2> QED
    BY <2>1, TombstoneInit
<1>2. TombstoneInv /\ Undoable /\ SerialDeletions' /\ [Next]_vars
        => TombstoneInv' /\ Undoable'
  BY TombstoneStep, UndoableStep
<1>3. Undoable => RollbackUndoes
  BY DEF Undoable, RollbackUndoes
<1> QED
  BY <1>1, <1>2, <1>3, PTL DEF Spec

=============================================================================
