---------------------------- MODULE StreamReads ----------------------------
(***************************************************************************)
(* The read endpoints of the server (server.py) report one stream, compare *)
(* two, or sum a stream over namespaces.  Each fetches its streams one     *)
(* after the other through registry.get, which may wait for the registry's *)
(* lock and for storage, while batches are added and streams are evicted   *)
(* and deleted.                                                            *)
(* A stream object is a cell of srHeap, so that a handler can hold one the *)
(* registry no longer knows; its content is the number of events in it.    *)
(***************************************************************************)
EXTENDS Integers, Sequences, FiniteSets

CONSTANTS
    SRStreams,    \* streams
    SRReaders,    \* requests
    SRPairs,      \* the <<stream, baseline>> the requests ask for
    SRPeers,      \* events of each stream known from mesh peers, 0 if none
    SRRoom,       \* streams that fit into memory
    SRObjects,    \* bound on the objects created
    SRAdds        \* bound on the events of a stream

ASSUME SRAssumption ==
    /\ SRRoom \in Nat \ {0}
    /\ SRPeers \in [SRStreams -> Nat]
    /\ SRPairs \subseteq SRStreams \X SRStreams
    /\ "free" \notin SRReaders

VARIABLES
    srResident,   \* stream -> its object in the registry, 0 if not resident
    srDisk,       \* stream -> stored events, SRAbsent if there is no row
    srHeap,       \* sequence of object contents
    srLock,       \* holder of the _operation_lock
    srRq          \* the requests

srVars == <<srResident, srDisk, srHeap, srLock, srRq>>

SRAbsent == -1
SRFree == "free"
SRIdle == [pc |-> "idle", q |-> "none", held |-> <<>>, taken |-> <<>>, low |-> <<>>,
           high |-> <<>>, deleted |-> {}, status |-> 0]

(* The events a stream really has. *)
SRHolds(s, resident, heap, disk) == IF resident[s] # 0 THEN heap[resident[s]] ELSE disk[s]
SRStored(s) == SRHolds(s, srResident, srHeap, srDisk)

SRInit ==
    /\ srResident = [s \in SRStreams |-> 0]
    /\ srDisk \in [SRStreams -> {SRAbsent, 1}]
    /\ srHeap = <<>>
    /\ srLock = SRFree
    /\ srRq = [r \in SRReaders |-> SRIdle]

SRResidents == {s \in SRStreams : srResident[s] # 0}

-----------------------------------------------------------------------------
(* Insert an object with n events for s, evicting first when memory is     *)
(* full: the victim is stored before it leaves the registry.               *)
SRInsertUnsaved(s, n) ==    \* the victim is dropped
    /\ Len(srHeap) < SRObjects
    /\ srHeap' = Append(srHeap, n)
    /\ \/ /\ Cardinality(SRResidents) < SRRoom
          /\ srResident' = [srResident EXCEPT ![s] = Len(srHeap) + 1]
          /\ UNCHANGED srDisk
       \/ /\ Cardinality(SRResidents) >= SRRoom
          /\ \E v \in SRResidents :
               /\ UNCHANGED srDisk
               /\ srResident' = [srResident EXCEPT ![v] = 0, ![s] = Len(srHeap) + 1]
SRInsert(s, n) ==
    /\ Len(srHeap) < SRObjects
    /\ srHeap' = Append(srHeap, n)
    /\ \/ /\ Cardinality(SRResidents) < SRRoom
          /\ srResident' = [srResident EXCEPT ![s] = Len(srHeap) + 1]
          /\ UNCHANGED srDisk
       \/ /\ Cardinality(SRResidents) >= SRRoom
          /\ \E v \in SRResidents :
               /\ srDisk' = [srDisk EXCEPT ![v] = srHeap[srResident[v]]]
               /\ srResident' = [srResident EXCEPT ![v] = 0, ![s] = Len(srHeap) + 1]

SRIngest(s) ==
    /\ srLock = SRFree /\ SRStored(s) < SRAdds
    /\ IF srResident[s] # 0
       THEN /\ srHeap' = [srHeap EXCEPT ![srResident[s]] = @ + 1]
            /\ UNCHANGED <<srResident, srDisk>>
       ELSE SRInsert(s, IF srDisk[s] = SRAbsent THEN 1 ELSE srDisk[s] + 1)
    /\ UNCHANGED <<srLock, srRq>>

SRDelete(s) ==
    /\ srLock = SRFree /\ SRStored(s) # SRAbsent
    /\ srResident' = [srResident EXCEPT ![s] = 0]
    /\ srDisk' = [srDisk EXCEPT ![s] = SRAbsent]
    /\ srRq' = [r \in SRReaders |-> [srRq[r] EXCEPT !.deleted = @ \cup {s}]]
    /\ UNCHANGED <<srHeap, srLock>>

-----------------------------------------------------------------------------
(* The endpoints: the streams they fetch, in order, whether a stream known *)
(* from mesh peers alone will do, and which of them must exist: "each",    *)
(* tested as it is fetched, "all", tested at the end, or "some".  A tick   *)
(* of the websocket counts as a request, its error message as a 404.       *)
Query(of, peers, need) == [of |-> of, peers |-> peers, need |-> need]
get_metrics(s) == Query(<<s>>, TRUE, "each")
stream_ws(s) == Query(<<s>>, TRUE, "each")
get_event_count(s) == Query(<<s>>, FALSE, "each")
recommend_slo(s) == Query(<<s>>, FALSE, "each")
query_stream(s) == Query(<<s>>, FALSE, "each")
diff_streams(s, b) == Query(<<s, b>>, TRUE, "each")
analyze_canary(s, b) == Query(<<s, b>>, TRUE, "each")
evaluate_slo(s, b) == Query(<<s, b>>, TRUE, "each")
detect_anomaly(s, b) == Query(<<s, b>>, FALSE, "all")
aggregate_streams(all) == Query(all, TRUE, "some")
SRQueries ==
    UNION {{get_metrics(p[1]), stream_ws(p[1]), get_event_count(p[1]), recommend_slo(p[2]),
            query_stream(p[1]), diff_streams(p[1], p[2]), analyze_canary(p[1], p[2]),
            evaluate_slo(p[1], p[2]), detect_anomaly(p[1], p[2]), aggregate_streams(p)}
             : p \in SRPairs}

SRAsked(rq) == rq.q.of[Len(rq.held) + 1]

(* What the node's own object o says; the peers' share is left out.        *)
SRReport(o, heap) == IF o = 0 THEN 0 ELSE heap[o]

FoundIn(q, held, i) == held[i] # 0 \/ (q.peers /\ SRPeers[q.of[i]] > 0)

(* The handler gives up: a stream it needs was not found.                  *)
Lost(q, held) ==
    LET last == Len(held) = Len(q.of)
    IN  CASE q.need = "each" -> ~FoundIn(q, held, Len(held))
          [] q.need = "all" -> last /\ \E i \in 1..Len(held) : ~FoundIn(q, held, i)
          [] q.need = "some" -> last /\ \A i \in 1..Len(held) : ~FoundIn(q, held, i)

(* The handler after registry.get gave it the object o (0 for None).  The  *)
(* snapshots are taken together at the end, except that aggregate merges   *)
(* as it goes.                                                             *)
Got(r, o, heap) ==
    LET rq    == srRq[r]
        q     == rq.q
        held  == Append(rq.held, o)
        taken == Append(rq.taken, SRReport(o, heap))
        end   == [rq EXCEPT !.pc = "done", !.held = held,
                    !.status = IF Lost(q, held) THEN 404 ELSE 200,
                    !.taken = IF q.need = "some" THEN taken
                              ELSE [i \in 1..Len(held) |-> SRReport(held[i], heap)],
                    !.high = [i \in 1..Len(q.of) |->
                                SRHolds(q.of[i], srResident', srHeap', srDisk')]]
    IN srRq' = [srRq EXCEPT ![r] =
                  IF Lost(q, held) \/ Len(held) = Len(q.of) THEN end
                  ELSE [rq EXCEPT !.pc = "fetch", !.held = held, !.taken = taken]]

SRArrive(r, q) ==
    /\ srRq[r].pc = "idle"
    /\ srRq' = [srRq EXCEPT ![r] =
                  [SRIdle EXCEPT !.pc = "fetch", !.q = q,
                     !.low = [i \in 1..Len(q.of) |-> SRStored(q.of[i])]]]
    /\ UNCHANGED <<srResident, srDisk, srHeap, srLock>>

(* registry.get of a resident stream does not wait. *)
get(r) ==
    /\ srRq[r].pc = "fetch"
    /\ LET s == SRAsked(srRq[r])
       IN IF srResident[s] # 0
          THEN /\ UNCHANGED <<srResident, srDisk, srHeap, srLock>>
               /\ Got(r, srResident[s], srHeap)
          ELSE /\ srRq' = [srRq EXCEPT ![r].pc = "queue"]
               /\ UNCHANGED <<srResident, srDisk, srHeap, srLock>>

(* Under the lock it looks again before it goes to storage. *)
get_locked(r) ==
    /\ srRq[r].pc = "queue" /\ srLock = SRFree
    /\ LET s == SRAsked(srRq[r])
       IN IF srResident[s] # 0
          THEN /\ UNCHANGED <<srResident, srDisk, srHeap, srLock>>
               /\ Got(r, srResident[s], srHeap)
          ELSE /\ srLock' = r
               /\ srRq' = [srRq EXCEPT ![r].pc = "load"]
               /\ UNCHANGED <<srResident, srDisk, srHeap>>

get_loaded(r) ==
    /\ srRq[r].pc = "load"
    /\ srLock' = SRFree
    /\ LET s == SRAsked(srRq[r])
       IN IF srDisk[s] = SRAbsent
          THEN /\ UNCHANGED <<srResident, srDisk, srHeap>>
               /\ Got(r, 0, srHeap)
          ELSE /\ SRInsert(s, srDisk[s])
               /\ Got(r, Len(srHeap) + 1, srHeap')

SRNext ==
    \/ \E s \in SRStreams : SRIngest(s) \/ SRDelete(s)
    \/ \E r \in SRReaders :
         \/ \E q \in SRQueries : SRArrive(r, q)
         \/ get(r)
         \/ get_locked(r)
         \/ get_loaded(r)

-----------------------------------------------------------------------------
(* What a read endpoint answers of a stream nobody deleted meanwhile lies  *)
(* between what the stream held when the request came and what it held     *)
(* when the answer left, although the streams are fetched at different     *)
(* times and the object read may have been evicted in between.             *)
SRFresh ==
    \A r \in SRReaders :
        LET rq == srRq[r]
        IN rq.pc = "done" /\ rq.status = 200 =>
             \A i \in 1..Len(rq.q.of) :
                rq.q.of[i] \notin rq.deleted /\ rq.low[i] # SRAbsent =>
                    rq.low[i] <= rq.taken[i] /\ rq.taken[i] <= rq.high[i]

(* A 404 is given only for a stream that was absent when the request came  *)
(* or that was deleted while it ran; for the endpoints that merge the mesh *)
(* a stream known only from peers exists.                                  *)
SRTrue404 ==
    \A r \in SRReaders :
        LET rq == srRq[r]
            gone == {i \in 1..Len(rq.q.of) :
                        /\ rq.low[i] = SRAbsent \/ rq.q.of[i] \in rq.deleted
                        /\ rq.q.peers => SRPeers[rq.q.of[i]] = 0}
        IN rq.pc = "done" /\ rq.status = 404 =>
             IF rq.q.need # "some" THEN gone # {} ELSE gone = 1..Len(rq.q.of)

(* What the read endpoints promise: answers that were true at some moment  *)
(* of the request, and 404 only for a stream that does not exist.          *)
SRSafe == SRFresh /\ SRTrue404

=============================================================================
