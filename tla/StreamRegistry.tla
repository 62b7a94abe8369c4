--------------------------- MODULE StreamRegistry ---------------------------
(***************************************************************************)
(* The stream registry of the SketchLog server, its durable storage        *)
(* backend and the tasks that move stream state between the two.           *)
(*                                                                         *)
(* All request handlers are coroutines of one event loop: what runs        *)
(* between two awaits is one action here.  The awaits that matter are the  *)
(* storage calls and the registry's _operation_lock.  Concurrent actors:   *)
(*   - the one request that holds _operation_lock (variable op);           *)
(*   - the background flush loop, which holds no lock (flush, save);       *)
(*   - DELETE requests, which reserve a mesh tombstone and delete durable  *)
(*     state before they ask for _operation_lock (del);                    *)
(*   - crash, graceful shutdown and restart of the process (phase).        *)
(*                                                                         *)
(* Data is abstracted to the set of ingested batches a sketch contains; a  *)
(* batch is named by the clock value that stamped it, so a log's           *)
(* last_updated is comparable with the batches it holds.  The LRU order of *)
(* a namespace is abstracted: any of its resident streams may be the head. *)
(***************************************************************************)
EXTENDS Naturals, FiniteSets

CONSTANTS
    Key,              \* the (namespace, stream id) pairs in use
    Namespace,        \* the namespaces
    NamespaceOf,      \* the namespace of each key
    Deleter,          \* concurrent DELETE requests
    Backend,          \* "sqlalchemy" or "omnikv"
    Mesh,             \* TRUE when SKETCHLOG_PEERS or an address is configured
    MaxPerNamespace,  \* max_streams_per_ns
    MaxStreams,       \* max_streams
    MaxTombstones,    \* ClusterManager.max_local_tombstones
    MaxClock,         \* bound: stamped events of one behaviour
    NoLog,            \* None in place of a stream
    Live              \* a flush item that is still the registry's own object

\* A stream log: the batches it holds and its last_updated stamp.
Log == [data : SUBSET Nat, ver : Nat]

ASSUME RegistryAssumption ==
    /\ IsFiniteSet(Key)
    /\ NamespaceOf \in [Key -> Namespace]
    /\ Backend \in {"sqlalchemy", "omnikv"}
    /\ Mesh \in BOOLEAN
    /\ MaxPerNamespace \in Nat \ {0}
    /\ MaxStreams \in Nat \ {0}
    /\ MaxTombstones \in Nat
    /\ MaxClock \in Nat

ASSUME SentinelAssumption ==
    /\ NoLog \notin Log
    /\ Live \notin Log
    /\ Live # NoLog

VARIABLES
    phase,      \* "up", "drain" (shutdown flush), "down"
    resident,   \* registry._namespaces: the object of each key, or NoLog
    stored,     \* the durable row / envelope of each key, or NoLog
    storedTomb, \* the durable mesh tombstone version of each key, 0 = none
    localTomb,  \* ClusterManager.local_tombstones, 0 = none
    clock,      \* time.time() of the last stamped event
    op,         \* the coroutine inside _operation_lock
    save,       \* the storage.save calls in flight
    flush,      \* what the flush pass has still to save
    del,        \* the DELETE requests
    acked,      \* ghost: batches acknowledged and not deleted since
    deletedAt,  \* ghost: clock at the last acknowledged delete of a key
    delVer,     \* ghost: highest tombstone version whose state deletion ran
    unsaved     \* ghost: keys whose shutdown save failed

vars == <<phase, resident, stored, storedTomb, localTomb, clock, op, save,
          flush, del, acked, deletedAt, delVer, unsaved>>

Saver == {"evict", "flush"}

IdleOp == [pc |-> "idle", kind |-> "get", key |-> NoLog, loaded |-> NoLog,
           victim |-> NoLog]
IdleSave == [pc |-> "idle", key |-> NoLog, payload |-> {}, ver |-> 0]
IdleDel == [pc |-> "idle", key |-> NoLog, ver |-> 0, previous |-> 0]

Init ==
    /\ phase = "up"
    /\ resident = [k \in Key |-> NoLog]
    /\ stored = [k \in Key |-> NoLog]
    /\ storedTomb = [k \in Key |-> 0]
    /\ localTomb = [k \in Key |-> 0]
    /\ clock = 0
    /\ op = IdleOp
    /\ save = [s \in Saver |-> IdleSave]
    /\ flush = [k \in Key |-> NoLog]
    /\ del = [d \in Deleter |-> IdleDel]
    /\ acked = [k \in Key |-> {}]
    /\ deletedAt = [k \in Key |-> 0]
    /\ delVer = [k \in Key |-> 0]
    /\ unsaved = {}

-----------------------------------------------------------------------------
(* Helpers *)

Max2(a, b) == IF a >= b THEN a ELSE b

DataOf(log) == IF log = NoLog THEN {} ELSE log.data

\* _count_locked and len(namespace_streams).
Resident == {k \in Key : resident[k] # NoLog}
ResidentIn(ns) == {k \in Resident : NamespaceOf[k] = ns}

\* Mutant: the namespace limit is compared with > instead of >=.
VictimsOffByOne(ns) ==
    IF Cardinality(ResidentIn(ns)) > MaxPerNamespace THEN ResidentIn(ns)
    ELSE IF Cardinality(Resident) > MaxStreams THEN Resident
    ELSE {}

\* _evict_if_needed: the streams that may be the victim for an insertion
\* into ns.  A full namespace gives up one of its own streams; otherwise a
\* full registry gives up a stream of any namespace; else there is none.
Victims(ns) ==
    IF Cardinality(ResidentIn(ns)) >= MaxPerNamespace THEN ResidentIn(ns)
    ELSE IF Cardinality(Resident) >= MaxStreams THEN Resident
    ELSE {}

\* Removing k's object from the registry: a flush pass that listed the
\* object keeps its reference, and nobody can change the object any more.
Freeze(k) == IF flush[k] = Live THEN [flush EXCEPT ![k] = resident[k]]
             ELSE flush

\* The order in which the backend's save reads the log: SQLAlchemyStorage
\* serializes in a thread and reads last_updated afterwards,
\* OmniKVEmbeddedStorage reads last_updated first.
FirstRead == IF Backend = "sqlalchemy" THEN "serialize" ELSE "stamp"
AfterSerialize == IF Backend = "sqlalchemy" THEN "stamp" ELSE "write"
AfterStamp == IF Backend = "sqlalchemy" THEN "write" ELSE "serialize"

StartSave(s, k) == [save EXCEPT ![s] = [pc |-> FirstRead, key |-> k,
                                        payload |-> {}, ver |-> 0]]

\* The object a save in flight reads.
Source(s) == IF s = "flush" /\ flush[save[s].key] # Live
             THEN flush[save[s].key]
             ELSE resident[save[s].key]

\* Mutant: the save overwrites the row without comparing the stamps.
UpsertBlindly(s) ==
    [stored EXCEPT ![save[s].key] = [data |-> save[s].payload,
                                     ver |-> save[s].ver]]

\* Mutant: the save only inserts, an existing row is never replaced.
UpsertInsertOnly(s) ==
    IF stored[save[s].key] = NoLog
    THEN [stored EXCEPT ![save[s].key] = [data |-> save[s].payload,
                                          ver |-> save[s].ver]]
    ELSE stored

\* The write of storage.save, under the key's stripe lock: insert, or
\* replace only a row with an older stamp.
Upsert(s) ==
    LET k == save[s].key
    IN  IF stored[k] = NoLog \/ stored[k].ver < save[s].ver
        THEN [stored EXCEPT ![k] = [data |-> save[s].payload,
                                    ver |-> save[s].ver]]
        ELSE stored

\* Mutant: the stripe lock is kept until the resident object is unlinked.
StripeHeldTooLong(k) ==
    \A d \in Deleter : ~(del[d].pc \in {"tombstoned", "committed"}
                          /\ del[d].key = k)

\* delete_with_tombstone of the OmniKV backend keeps the stripe lock of the
\* key between its two steps; a save of the key waits for it.
StripeFree(k) == \A d \in Deleter : ~(del[d].pc = "tombstoned" /\ del[d].key = k)

\* The clock bound leaves the tick that the ingest inside the lock will use.
TickLeft == clock + (IF op.pc # "idle" /\ op.kind = "ingest" THEN 1 ELSE 0)
            < MaxClock

\* What get_or_create / get leave in the registry for the caller, given the
\* registry content res: the loaded or a fresh object; an ingest adds its
\* batch in the same turn of the event loop and is acknowledged.
Insert(res) ==
    LET k == op.key
        now == clock + 1
    IN  /\ op' = IdleOp
        /\ IF op.kind = "ingest"
           THEN /\ clock' = now
                /\ resident' = [res EXCEPT ![k] =
                        [data |-> DataOf(op.loaded) \union {now}, ver |-> now]]
                /\ acked' = [acked EXCEPT ![k] = @ \union {now}]
           ELSE /\ resident' = [res EXCEPT ![k] = op.loaded]
                /\ UNCHANGED <<clock, acked>>

-----------------------------------------------------------------------------
(* Requests that go through _operation_lock *)

\* ingest_events / merge_stream on a resident stream: get_or_create returns
\* it without an await, so lookup and mutation are one step.
IngestResident(k) ==
    /\ phase = "up" /\ op.pc = "idle"
    /\ resident[k] # NoLog
    /\ clock < MaxClock
    /\ clock' = clock + 1
    /\ resident' = [resident EXCEPT
            ![k] = [data |-> @.data \union {clock + 1}, ver |-> clock + 1]]
    /\ acked' = [acked EXCEPT ![k] = @ \union {clock + 1}]
    /\ UNCHANGED <<phase, stored, storedTomb, localTomb, op, save, flush, del,
                   deletedAt, delVer, unsaved>>

\* get_or_create (kind "ingest") or get (kind "get") of a stream that is not
\* resident takes the lock and calls storage.load.
OpStart(kind, k) ==
    /\ phase = "up" /\ op.pc = "idle"
    /\ resident[k] = NoLog
    /\ kind = "ingest" => clock < MaxClock
    /\ op' = [IdleOp EXCEPT !.pc = "load", !.kind = kind, !.key = k]
    /\ UNCHANGED <<phase, resident, stored, storedTomb, localTomb, clock, save,
                   flush, del, acked, deletedAt, delVer, unsaved>>

\* The row is read; get returns None when there is none.
OpLoad ==
    /\ op.pc = "load"
    /\ op' = IF op.kind = "get" /\ stored[op.key] = NoLog
             THEN IdleOp
             ELSE [op EXCEPT !.pc = "loaded", !.loaded = stored[op.key]]
    /\ UNCHANGED <<phase, resident, stored, storedTomb, localTomb, clock, save,
                   flush, del, acked, deletedAt, delVer, unsaved>>

\* The query raises: the request fails and the lock is released.
OpLoadFail ==
    /\ op.pc = "load"
    /\ op' = IdleOp
    /\ UNCHANGED <<phase, resident, stored, storedTomb, localTomb, clock, save,
                   flush, del, acked, deletedAt, delVer, unsaved>>

\* _evict_if_needed finds room: the stream is inserted at once.
OpInsert ==
    /\ op.pc = "loaded"
    /\ Victims(NamespaceOf[op.key]) = {}
    /\ Insert(resident)
    /\ UNCHANGED <<phase, stored, storedTomb, localTomb, save, flush, del,
                   deletedAt, delVer, unsaved>>

\* _evict_if_needed picks a victim and starts its durable save.
OpPickVictim ==
    /\ op.pc = "loaded"
    /\ \E v \in Victims(NamespaceOf[op.key]) :
          /\ op' = [op EXCEPT !.pc = "save", !.victim = v]
          /\ save' = StartSave("evict", v)
    /\ UNCHANGED <<phase, resident, stored, storedTomb, localTomb, clock,
                   flush, del, acked, deletedAt, delVer, unsaved>>

\* The save commits; in the same turn the victim is removed and the new
\* stream inserted.
OpEvict ==
    LET v == op.victim
    IN  /\ op.pc = "save" /\ save["evict"].pc = "write"
        /\ StripeFree(v)
        /\ stored' = Upsert("evict")
        /\ flush' = Freeze(v)
        /\ Insert([resident EXCEPT ![v] = NoLog])
        /\ save' = [save EXCEPT !["evict"] = IdleSave]
        /\ UNCHANGED <<phase, storedTomb, localTomb, del, deletedAt, delVer,
                       unsaved>>

\* The write raises: the request fails, the victim stays.
OpEvictFail ==
    /\ op.pc = "save" /\ save["evict"].pc = "write"
    /\ op' = IdleOp
    /\ save' = [save EXCEPT !["evict"] = IdleSave]
    /\ UNCHANGED <<phase, resident, stored, storedTomb, localTomb, clock,
                   flush, del, acked, deletedAt, delVer, unsaved>>

-----------------------------------------------------------------------------
(* The reads of a storage.save in flight *)

\* The worker thread serializes the log under the log's own lock.
Serialize(s) ==
    /\ save[s].pc = "serialize"
    /\ save' = [save EXCEPT ![s].pc = AfterSerialize,
                            ![s].payload = Source(s).data]
    /\ UNCHANGED <<phase, resident, stored, storedTomb, localTomb, clock, op,
                   flush, del, acked, deletedAt, delVer, unsaved>>

\* The coroutine reads log.last_updated.
Stamp(s) ==
    /\ save[s].pc = "stamp"
    /\ save' = [save EXCEPT ![s].pc = AfterStamp, ![s].ver = Source(s).ver]
    /\ UNCHANGED <<phase, resident, stored, storedTomb, localTomb, clock, op,
                   flush, del, acked, deletedAt, delVer, unsaved>>

-----------------------------------------------------------------------------
(* The flush loop and the flush at shutdown *)

AllLive == [k \in Key |-> IF resident[k] = NoLog THEN NoLog ELSE Live]

\* The loop wakes up and takes registry.snapshot_items().
FlushStart ==
    /\ phase = "up"
    /\ save["flush"].pc = "idle"
    /\ \A k \in Key : flush[k] = NoLog
    /\ Resident # {}
    /\ flush' = AllLive
    /\ UNCHANGED <<phase, resident, stored, storedTomb, localTomb, clock, op,
                   save, del, acked, deletedAt, delVer, unsaved>>

\* The next listed stream is handed to storage.save.
FlushNext(k) ==
    /\ save["flush"].pc = "idle"
    /\ flush[k] # NoLog
    /\ save' = StartSave("flush", k)
    /\ UNCHANGED <<phase, resident, stored, storedTomb, localTomb, clock, op,
                   flush, del, acked, deletedAt, delVer, unsaved>>

FlushWrite ==
    LET k == save["flush"].key
    IN  /\ save["flush"].pc = "write"
        /\ StripeFree(k)
        /\ stored' = Upsert("flush")
        /\ flush' = [flush EXCEPT ![k] = NoLog]
        /\ save' = [save EXCEPT !["flush"] = IdleSave]
        /\ UNCHANGED <<phase, resident, storedTomb, localTomb, clock, op, del,
                       acked, deletedAt, delVer, unsaved>>

\* A write that raises is logged and the pass goes on.
FlushFail ==
    LET k == save["flush"].key
    IN  /\ save["flush"].pc = "write"
        /\ flush' = [flush EXCEPT ![k] = NoLog]
        /\ save' = [save EXCEPT !["flush"] = IdleSave]
        /\ unsaved' = IF phase = "drain" THEN unsaved \union {k} ELSE unsaved
        /\ UNCHANGED <<phase, resident, stored, storedTomb, localTomb, clock,
                       op, del, acked, deletedAt, delVer>>

-----------------------------------------------------------------------------
(* DELETE requests: reset_stream *)

\* Without a mesh: registry.get found the stream; registry.delete waits for
\* _operation_lock.
DeleteRequest(d, k) ==
    /\ ~Mesh /\ phase = "up"
    /\ del[d].pc = "idle"
    /\ resident[k] # NoLog
    /\ del' = [del EXCEPT ![d] = [IdleDel EXCEPT !.pc = "waiting", !.key = k]]
    /\ UNCHANGED <<phase, resident, stored, storedTomb, localTomb, clock, op,
                   save, flush, acked, deletedAt, delVer, unsaved>>

\* The effect of an acknowledged delete on the registry.
Unlink(d, k) ==
    /\ resident' = [resident EXCEPT ![k] = NoLog]
    /\ flush' = Freeze(k)
    /\ del' = [del EXCEPT ![d] = IdleDel]
    /\ acked' = [acked EXCEPT ![k] = {}]
    /\ deletedAt' = [deletedAt EXCEPT ![k] = clock]

\* registry.delete under the lock: storage.delete commits and the resident
\* object is removed in the turn that follows.
DeleteCommit(d) ==
    LET k == del[d].key
    IN  /\ del[d].pc = "waiting" /\ op.pc = "idle"
        /\ stored' = [stored EXCEPT ![k] = NoLog]
        /\ Unlink(d, k)
        /\ UNCHANGED <<phase, storedTomb, localTomb, clock, op, save, delVer,
                       unsaved>>

\* storage.delete raises: nothing is removed.
DeleteFail(d) ==
    /\ del[d].pc = "waiting" /\ op.pc = "idle"
    /\ del' = [del EXCEPT ![d] = IdleDel]
    /\ UNCHANGED <<phase, resident, stored, storedTomb, localTomb, clock, op,
                   save, flush, acked, deletedAt, delVer, unsaved>>

\* Mutant: the capacity is checked off by one.
RoomForOneMore(k) ==
    localTomb[k] # 0 \/ Cardinality({j \in Key : localTomb[j] # 0}) <= MaxTombstones

\* A new tombstone must not exceed the capacity.
RoomForTombstone(k) ==
    localTomb[k] # 0 \/ Cardinality({j \in Key : localTomb[j] # 0}) < MaxTombstones

\* With a mesh: begin_deletion reserves a tombstone version; it raises (503)
\* when there is no room for it.
MeshDeleteBegin(d, k) ==
    LET version == Max2(clock + 1, localTomb[k] + 1)
    IN  /\ Mesh /\ phase = "up"
        /\ del[d].pc = "idle"
        /\ resident[k] # NoLog
        /\ RoomForTombstone(k)
        /\ TickLeft
        /\ clock' = clock + 1
        /\ localTomb' = [localTomb EXCEPT ![k] = version]
        /\ del' = [del EXCEPT ![d] = [pc |-> "reserved", key |-> k,
                                      ver |-> version,
                                      previous |-> localTomb[k]]]
        /\ UNCHANGED <<phase, resident, stored, storedTomb, op, save, flush,
                       acked, deletedAt, delVer, unsaved>>

\* SQLAlchemyStorage.delete_with_tombstone: one transaction.
MeshDeleteTransaction(d) ==
    LET k == del[d].key
    IN  /\ Backend = "sqlalchemy" /\ del[d].pc = "reserved"
        /\ stored' = [stored EXCEPT ![k] = NoLog]
        /\ storedTomb' = [storedTomb EXCEPT ![k] = Max2(@, del[d].ver)]
        /\ delVer' = [delVer EXCEPT ![k] = Max2(@, del[d].ver)]
        /\ del' = [del EXCEPT ![d].pc = "committed"]
        /\ UNCHANGED <<phase, resident, localTomb, clock, op, save, flush,
                       acked, deletedAt, unsaved>>

\* OmniKVEmbeddedStorage.delete_with_tombstone, first step: the tombstone is
\* put and synced under the lock pair.
MeshDeleteTombstone(d) ==
    LET k == del[d].key
    IN  /\ Backend = "omnikv" /\ del[d].pc = "reserved"
        /\ StripeFree(k)
        /\ storedTomb' = [storedTomb EXCEPT ![k] = Max2(@, del[d].ver)]
        /\ del' = [del EXCEPT ![d].pc = "tombstoned"]
        /\ UNCHANGED <<phase, resident, stored, localTomb, clock, op, save,
                       flush, acked, deletedAt, delVer, unsaved>>

\* Second step: the state is deleted and synced.
MeshDeleteState(d) ==
    LET k == del[d].key
    IN  /\ Backend = "omnikv" /\ del[d].pc = "tombstoned"
        /\ stored' = [stored EXCEPT ![k] = NoLog]
        /\ delVer' = [delVer EXCEPT ![k] = Max2(@, del[d].ver)]
        /\ del' = [del EXCEPT ![d].pc = "committed"]
        /\ UNCHANGED <<phase, resident, storedTomb, localTomb, clock, op, save,
                       flush, acked, deletedAt, unsaved>>

\* Mutant: rollback does not check that the reservation is still current.
RollbackAlways(d) ==
    localTomb' = [localTomb EXCEPT ![del[d].key] = del[d].previous]

\* Mutant: rollback of a first tombstone stores None instead of popping.
RollbackStoresNone(d) ==
    LET k == del[d].key
    IN  localTomb' = IF localTomb[k] = del[d].ver
                     THEN [localTomb EXCEPT ![k] =
                            IF del[d].previous = 0 THEN NoLog
                            ELSE del[d].previous]
                     ELSE localTomb

\* Mutant: a failed deletion leaves its reservation in place.
RollbackMissing(d) == UNCHANGED localTomb

\* rollback_deletion: only the reservation that is still current is undone.
Rollback(d) ==
    LET k == del[d].key
    IN  localTomb' = IF localTomb[k] = del[d].ver
                     THEN [localTomb EXCEPT ![k] = del[d].previous]
                     ELSE localTomb

\* delete_with_tombstone raises before the state is deleted.
MeshDeleteFail(d) ==
    /\ del[d].pc \in {"reserved", "tombstoned"}
    /\ Rollback(d)
    /\ del' = [del EXCEPT ![d] = IdleDel]
    /\ UNCHANGED <<phase, resident, stored, storedTomb, clock, op, save, flush,
                   acked, deletedAt, delVer, unsaved>>

\* The last sync of the OmniKV backend raises after the state was deleted:
\* the request fails with unknown outcome for what only storage held.
MeshDeleteSyncFail(d) ==
    LET k == del[d].key
    IN  /\ Backend = "omnikv" /\ del[d].pc = "tombstoned"
        /\ stored' = [stored EXCEPT ![k] = NoLog]
        /\ Rollback(d)
        /\ del' = [del EXCEPT ![d] = IdleDel]
        /\ acked' = [acked EXCEPT ![k] = @ \intersect DataOf(resident[k])]
        /\ UNCHANGED <<phase, resident, storedTomb, clock, op, save, flush,
                       deletedAt, delVer, unsaved>>

\* registry.delete(delete_storage=False) under _operation_lock; 204.
MeshDeleteUnlink(d) ==
    /\ del[d].pc = "committed" /\ op.pc = "idle"
    /\ Unlink(d, del[d].key)
    /\ UNCHANGED <<phase, stored, storedTomb, localTomb, clock, op, save,
                   delVer, unsaved>>

-----------------------------------------------------------------------------
(* Process lifecycle: lifespan *)

NoRequests == op.pc = "idle" /\ \A d \in Deleter : del[d].pc = "idle"

\* Requests are finished, the flush task is cancelled, the shutdown flush
\* starts over with all resident streams.
Shutdown ==
    /\ phase = "up" /\ NoRequests
    /\ phase' = "drain"
    /\ save' = [save EXCEPT !["flush"] = IdleSave]
    /\ flush' = AllLive
    /\ UNCHANGED <<resident, stored, storedTomb, localTomb, clock, op, del,
                   acked, deletedAt, delVer, unsaved>>

\* Memory is gone, storage stays.
Forget ==
    /\ phase' = "down"
    /\ resident' = [k \in Key |-> NoLog]
    /\ localTomb' = [k \in Key |-> 0]
    /\ op' = IdleOp
    /\ save' = [s \in Saver |-> IdleSave]
    /\ flush' = [k \in Key |-> NoLog]
    /\ del' = [d \in Deleter |-> IdleDel]
    /\ unsaved' = {}
    /\ UNCHANGED <<stored, storedTomb, clock, deletedAt, delVer>>

\* The shutdown flush is complete; a stream whose save failed is lost.
ShutdownDone ==
    /\ phase = "drain"
    /\ save["flush"].pc = "idle"
    /\ \A k \in Key : flush[k] = NoLog
    /\ Forget
    /\ acked' = [k \in Key |-> IF k \in unsaved
                               THEN acked[k] \intersect DataOf(stored[k])
                               ELSE acked[k]]

\* A crash loses what was not durable.
Crash ==
    /\ phase # "down"
    /\ Forget
    /\ acked' = [k \in Key |-> acked[k] \intersect DataOf(stored[k])]

\* Start-up restores the local tombstones; restore_local_tombstones raises,
\* and the server does not start, when there are more than the capacity.
Restart ==
    /\ phase = "down"
    /\ Mesh => Cardinality({k \in Key : storedTomb[k] # 0}) <= MaxTombstones
    /\ phase' = "up"
    /\ localTomb' = IF Mesh THEN storedTomb ELSE localTomb
    /\ UNCHANGED <<resident, stored, storedTomb, clock, op, save, flush, del,
                   acked, deletedAt, delVer, unsaved>>

-----------------------------------------------------------------------------
OpStep == OpLoad \/ OpInsert \/ OpPickVictim \/ OpEvict

SaveStep(s) == Serialize(s) \/ Stamp(s)

MeshDeleteStep(d) ==
    \/ MeshDeleteTransaction(d)
    \/ MeshDeleteTombstone(d)
    \/ MeshDeleteState(d)
    \/ MeshDeleteUnlink(d)

Next ==
    \/ \E k \in Key : IngestResident(k)
    \/ \E kind \in {"ingest", "get"}, k \in Key : OpStart(kind, k)
    \/ OpLoad
    \/ OpLoadFail
    \/ OpInsert
    \/ OpPickVictim
    \/ OpEvict
    \/ OpEvictFail
    \/ \E s \in Saver : Serialize(s)
    \/ \E s \in Saver : Stamp(s)
    \/ FlushStart
    \/ \E k \in Key : FlushNext(k)
    \/ FlushWrite
    \/ FlushFail
    \/ \E d \in Deleter, k \in Key : DeleteRequest(d, k)
    \/ \E d \in Deleter : DeleteCommit(d)
    \/ \E d \in Deleter : DeleteFail(d)
    \/ \E d \in Deleter, k \in Key : MeshDeleteBegin(d, k)
    \/ \E d \in Deleter : MeshDeleteTransaction(d)
    \/ \E d \in Deleter : MeshDeleteTombstone(d)
    \/ \E d \in Deleter : MeshDeleteState(d)
    \/ \E d \in Deleter : MeshDeleteFail(d)
    \/ \E d \in Deleter : MeshDeleteSyncFail(d)
    \/ \E d \in Deleter : MeshDeleteUnlink(d)
    \/ Shutdown
    \/ ShutdownDone
    \/ Crash
    \/ Restart

Spec == Init /\ [][Next]_vars

\* The event loop keeps running every started coroutine, the flush loop
\* wakes up every 60 seconds, asyncio.Lock serves its waiters in FIFO order
\* (strong fairness of the deletes), and the database does not fail for ever
\* for one key (strong fairness of the flush write).
Fairness ==
    /\ WF_vars(OpStep)
    /\ \A s \in Saver : WF_vars(SaveStep(s))
    /\ WF_vars(FlushStart)
    /\ WF_vars(ShutdownDone)
    /\ \A k \in Key : WF_vars(FlushNext(k))
    /\ \A k \in Key : SF_vars(FlushWrite /\ save["flush"].key = k)
    /\ \A d \in Deleter : SF_vars(MeshDeleteStep(d)) /\ SF_vars(DeleteCommit(d))

FairSpec == Spec /\ Fairness

-----------------------------------------------------------------------------
(* Properties *)

OpState == [pc : {"idle", "load", "loaded", "save"}, kind : {"ingest", "get"},
            key : Key \union {NoLog}, loaded : Log \union {NoLog},
            victim : Key \union {NoLog}]
SaveState == [pc : {"idle", "serialize", "stamp", "write"},
              key : Key \union {NoLog}, payload : SUBSET Nat, ver : Nat]
DelState == [pc : {"idle", "waiting", "reserved", "tombstoned", "committed"},
             key : Key \union {NoLog}, ver : Nat, previous : Nat]

\* The type invariant of the registry, storage and request state.
TypeOK ==
    /\ phase \in {"up", "drain", "down"}
    /\ resident \in [Key -> Log \union {NoLog}]
    /\ stored \in [Key -> Log \union {NoLog}]
    /\ storedTomb \in [Key -> Nat]
    /\ localTomb \in [Key -> Nat]
    /\ clock \in Nat
    /\ op \in OpState
    /\ save \in [Saver -> SaveState]
    /\ flush \in [Key -> Log \union {NoLog, Live}]
    /\ del \in [Deleter -> DelState]
    /\ acked \in [Key -> SUBSET Nat]
    /\ deletedAt \in [Key -> Nat]
    /\ delVer \in [Key -> Nat]
    /\ unsaved \in SUBSET Key

\* _evict_if_needed keeps both limits at every moment, whatever other
\* requests do between its victim choice and the insertion.
CapacityRespected ==
    /\ \A ns \in Namespace : Cardinality(ResidentIn(ns)) <= MaxPerNamespace
    /\ Cardinality(Resident) <= MaxStreams

\* An acknowledged batch stays readable across eviction, reload, failed
\* saves and graceful shutdown: it is in the resident stream, or in the
\* durable row when the stream is not resident ("no state is removed until
\* the durable save commits").  Only a delete that has passed its durable
\* commit, and a crash, may take it away.
NoAckedLoss ==
    \A k \in Key :
        \/ \E d \in Deleter : del[d].pc = "committed" /\ del[d].key = k
        \/ acked[k] \subseteq DataOf(IF resident[k] # NoLog THEN resident[k]
                                     ELSE stored[k])

\* A mesh deletion that removed durable state left a durable tombstone of
\* its version, whatever crashes and whichever concurrent deletion is
\* rolled back, and a running node knows it.
TombstoneSurvives ==
    \A k \in Key :
        /\ delVer[k] <= storedTomb[k]
        /\ phase # "down" => delVer[k] <= localTomb[k]

\* rollback_deletion: "Undo a reserved tombstone when durable deletion did
\* not commit".  With no deletion of the key in flight, the node's tombstone
\* is one that was committed.
RollbackUndoes ==
    \A k \in Key :
        (\A d \in Deleter : del[d].pc # "idle" => del[d].key # k)
            => localTomb[k] <= storedTomb[k]

\* SKETCHLOG_MAX_LOCAL_TOMBSTONES is a "durable deletion-marker cap": storage
\* never holds more tombstones than start-up accepts, however deletions fail
\* or crash, so the server can always be started again.
DurableTombstonesBounded ==
    Mesh => Cardinality({k \in Key : storedTomb[k] # 0}) <= MaxTombstones

\* Deleted state does not resurrect: no acknowledged delete is followed by
\* a state, in memory or in storage, that holds a batch it deleted.
NoResurrection ==
    \A k \in Key :
        \A b \in DataOf(resident[k]) \union DataOf(stored[k]) : b > deletedAt[k]

\* The flush loop makes every acknowledged batch durable, unless a delete or
\* a crash takes it away first.
FlushPersists ==
    \A k \in Key : \A b \in 1..MaxClock :
        (b \in acked[k]) ~> (b \in DataOf(stored[k]) \/ b \notin acked[k])

\* The request inside _operation_lock always leaves it: no wait for a stripe
\* lock or for another request closes a cycle.
LockReleased == (op.pc # "idle") ~> (op.pc = "idle")

=============================================================================
