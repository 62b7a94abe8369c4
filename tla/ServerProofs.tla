---------------------------- MODULE ServerProofs ----------------------------
(***************************************************************************)
(* Proofs about five components of the server's data path, each on its     *)
(* own: the file of saved queries (QueryStore), the audit log of the       *)
(* access control (Rbac), the read endpoints (StreamReads), the rate       *)
(* limiter (RateLimit) and the write endpoints (ServerApi); and about the  *)
(* tools with an exit code (ExitCodes).                                    *)
(***************************************************************************)
EXTENDS QueryStore, Rbac, StreamReads, RateLimit, ServerApi, ExitCodes, FiniteSetTheorems,
        NaturalsInduction, WellFoundedInduction, TLAPS

-----------------------------------------------------------------------------
(* QueryStore: the file of saved queries.                                   *)

QSSpec == QSInit /\ [][QSNext]_qsVars

\* What is known of a process.
QSProcShape ==
    /\ qsProc = [p \in QSProcess |-> [pc |-> qsProc[p].pc, data |-> qsProc[p].data]]
    /\ qsSerial \in BOOLEAN

\* Only one process is at work, and the temporary file that it is about to
\* publish is complete and holds its copy.
TakeTurns ==
    /\ \A p, q \in QSProcess : p # q /\ Working(p) => ~Working(q)
    /\ \A p \in QSProcess : qsProc[p].pc = "publish" => qsTmp = Whole(qsProc[p].data)

QSInv == QSProcShape /\ (qsSerial => TakeTurns) /\ QSDurable

\* A step of process p that is at work, or dies, changes no other process.
LEMMA ProcessStep ==
    ASSUME QSProcShape, NEW p \in QSProcess, NEW pc, NEW data,
           \/ qsProc' = [qsProc EXCEPT ![p].pc = pc, ![p].data = data]
           \/ qsProc' = [qsProc EXCEPT ![p].pc = pc] /\ data = qsProc[p].data
           \/ qsProc' = [qsProc EXCEPT ![p] = [pc |-> pc, data |-> data]],
           qsSerial' \in BOOLEAN
    PROVE  /\ QSProcShape'
           /\ qsProc'[p].pc = pc /\ qsProc'[p].data = data
           /\ \A q \in QSProcess \ {p} : qsProc'[q] = qsProc[q]
<1>1. qsProc[p] = [pc |-> qsProc[p].pc, data |-> qsProc[p].data]
  BY DEF QSProcShape
<1>2. DOMAIN qsProc = QSProcess
  BY DEF QSProcShape
<1>3. qsProc' = [qsProc EXCEPT ![p] = [pc |-> pc, data |-> data]]
  BY <1>1
<1> QED
  BY <1>2, <1>3 DEF QSProcShape

\* Every step keeps the file durable while processes take turns.
LEMMA QueryStoreStep ==
    ASSUME QSInv, [QSNext]_qsVars
    PROVE  QSInv'
<1>1. QSProcShape /\ qsSerial \in BOOLEAN
  BY DEF QSInv, QSProcShape
<1>2. ASSUME NEW p \in QSProcess, _load(p)
      PROVE  QSInv'
  <2> DEFINE copy == IF qsFile.state = "whole" THEN qsFile.data ELSE QSEmpty
  <2>1. /\ qsProc' = [qsProc EXCEPT ![p] = [pc |-> "ready", data |-> copy]]
        /\ qsSerial' = (qsSerial /\ \A q \in QSProcess : ~Working(q))
        /\ UNCHANGED <<qsFile, qsTmp, qsTrue>>
    BY <1>2 DEF _load
  <2> HIDE DEF copy
  <2>2. qsSerial' \in BOOLEAN
    BY <2>1
  <2>3. /\ QSProcShape'
        /\ qsProc'[p].pc = "ready"
        /\ \A q \in QSProcess \ {p} : qsProc'[q] = qsProc[q]
    BY <1>1, <2>1, <2>2, ProcessStep
  <2>4. ASSUME qsSerial' PROVE TakeTurns' /\ qsSerial
    BY <2>1, <2>3, <2>4 DEF TakeTurns, Working
  <2> QED
    BY <2>1, <2>3, <2>4 DEF QSInv, QSDurable
<1>3. ASSUME NEW p \in QSProcess, NEW d, Op(p, d)
      PROVE  QSInv'
  <2>1. /\ qsProc[p].pc = "ready"
        /\ qsProc' = [qsProc EXCEPT ![p].pc = "open", ![p].data = d]
        /\ UNCHANGED <<qsFile, qsTmp, qsTrue, qsSerial>>
    BY <1>3 DEF Op
  <2>2. /\ QSProcShape'
        /\ qsProc'[p].pc = "open"
        /\ \A q \in QSProcess \ {p} : qsProc'[q] = qsProc[q]
    BY <1>1, <2>1, ProcessStep
  <2>3. TakeTurns => TakeTurns'
    BY <2>1, <2>2 DEF TakeTurns, Working
  <2> QED
    BY <2>1, <2>2, <2>3 DEF QSInv, QSDurable
<1>4. ASSUME NEW p \in QSProcess, Truncate(p)
      PROVE  QSInv'
  <2>1. /\ qsProc[p].pc = "open"
        /\ qsProc' = [qsProc EXCEPT ![p].pc = "dump"]
        /\ UNCHANGED <<qsFile, qsTrue, qsSerial>>
    BY <1>4 DEF Truncate
  <2>2. /\ QSProcShape'
        /\ qsProc'[p].pc = "dump"
        /\ \A q \in QSProcess \ {p} : qsProc'[q] = qsProc[q]
    BY <1>1, <2>1, ProcessStep
  <2>3. TakeTurns => TakeTurns'
    BY <2>1, <2>2 DEF TakeTurns, Working
  <2> QED
    BY <2>1, <2>2, <2>3 DEF QSInv, QSDurable
<1>5. ASSUME NEW p \in QSProcess, Dump(p)
      PROVE  QSInv'
  <2>1. /\ qsProc[p].pc = "dump"
        /\ qsProc' = [qsProc EXCEPT ![p].pc = "publish"]
        /\ qsTmp' = Whole(qsProc[p].data)
        /\ UNCHANGED <<qsFile, qsTrue, qsSerial>>
    BY <1>5 DEF Dump
  <2>2. /\ QSProcShape'
        /\ qsProc'[p].pc = "publish" /\ qsProc'[p].data = qsProc[p].data
        /\ \A q \in QSProcess \ {p} : qsProc'[q] = qsProc[q]
    BY <1>1, <2>1, ProcessStep
  <2>3. TakeTurns => TakeTurns'
    BY <2>1, <2>2 DEF TakeTurns, Working
  <2> QED
    BY <2>1, <2>2, <2>3 DEF QSInv, QSDurable
<1>6. ASSUME NEW p \in QSProcess, Publish(p)
      PROVE  QSInv'
  <2>1. /\ qsProc[p].pc = "publish"
        /\ qsProc' = [qsProc EXCEPT ![p].pc = "ready"]
        /\ qsTrue' = qsProc[p].data /\ qsSerial' = qsSerial
        /\ qsTmp # QSNone => qsFile' = qsTmp
    BY <1>6 DEF Publish, Returns
  <2>2. /\ QSProcShape'
        /\ qsProc'[p].pc = "ready"
        /\ \A q \in QSProcess \ {p} : qsProc'[q] = qsProc[q]
    BY <1>1, <2>1, ProcessStep
  <2>3. ASSUME qsSerial PROVE TakeTurns' /\ qsFile'.state # "torn" /\ qsFile'.data = qsTrue'
    <3>1. TakeTurns /\ qsTmp = Whole(qsProc[p].data)
      BY <2>1, <2>3 DEF QSInv, TakeTurns
    <3>2. qsFile' = Whole(qsProc[p].data)
      BY <2>1, <3>1 DEF QSNone, Whole
    <3>3. qsFile'.state # "torn" /\ qsFile'.data = qsTrue'
      BY <2>1, <3>2 DEF Whole
    <3>4. TakeTurns'
      BY <2>1, <2>2, <3>1 DEF TakeTurns, Working
    <3> QED
      BY <3>3, <3>4
  <2> QED
    BY <2>1, <2>2, <2>3 DEF QSInv, QSDurable
<1>7. ASSUME NEW p \in QSProcess, PersistFails(p)
      PROVE  QSInv'
  <2>1. /\ qsProc[p].pc # "gone"
        /\ qsProc' = [qsProc EXCEPT ![p].pc = "ready"]
        /\ UNCHANGED <<qsFile, qsTmp, qsTrue, qsSerial>>
    BY <1>7 DEF PersistFails
  <2>2. /\ QSProcShape'
        /\ qsProc'[p].pc = "ready"
        /\ \A q \in QSProcess \ {p} : qsProc'[q] = qsProc[q]
    BY <1>1, <2>1, ProcessStep
  <2>3. TakeTurns => TakeTurns'
    BY <2>1, <2>2 DEF TakeTurns, Working
  <2> QED
    BY <2>1, <2>2, <2>3 DEF QSInv, QSDurable
<1>8. ASSUME NEW p \in QSProcess, Dies(p)
      PROVE  QSInv'
  <2>1. /\ qsProc' = [qsProc EXCEPT ![p] = [pc |-> "gone", data |-> QSEmpty]]
        /\ UNCHANGED <<qsFile, qsTmp, qsTrue, qsSerial>>
    BY <1>8 DEF Dies, QSGone
  <2>2. /\ QSProcShape'
        /\ qsProc'[p].pc = "gone"
        /\ \A q \in QSProcess \ {p} : qsProc'[q] = qsProc[q]
    BY <1>1, <2>1, ProcessStep
  <2>3. TakeTurns => TakeTurns'
    BY <2>1, <2>2 DEF TakeTurns, Working
  <2> QED
    BY <2>1, <2>2, <2>3 DEF QSInv, QSDurable
<1>9. CASE UNCHANGED qsVars
  BY <1>9 DEF qsVars, QSInv, QSProcShape, TakeTurns, Working, QSDurable
<1> QED
  BY <1>2, <1>3, <1>4, <1>5, <1>6, <1>7, <1>8, <1>9
     DEF QSNext, save, delete, push_history, clear_history

\* As long as the processes that use it take turns, the file of saved
\* queries survives whatever dies or fails between two steps of _persist: it
\* is complete and holds what the last written operation left.  For any
\* number of processes, names and operations.
THEOREM SavedQueriesDurable == QSSpec => []QSDurable
<1>1. QSInit => QSInv
  BY DEF QSInit, QSInv, QSProcShape, TakeTurns, Working, QSDurable, QSGone, QSNone
<1>2. QSInv /\ [QSNext]_qsVars => QSInv'
  BY QueryStoreStep
<1>3. QSInv => QSDurable
  BY DEF QSInv
<1> QED
  BY <1>1, <1>2, <1>3, PTL DEF QSSpec

-----------------------------------------------------------------------------
(* Rbac: the audit log and the first grant of a token.                      *)

\* A non-empty set of natural numbers has a least one.
LEMMA LeastNatural ==
    ASSUME NEW S \in SUBSET Nat, S # {}
    PROVE  \E m \in S : \A y \in S : m <= y
<1>1. IsWellFoundedOn(OpToRel(<, Nat), Nat)
  BY NatLessThanWellFounded
<1>2. PICK m \in S : \A y \in S : ~(<<y, m>> \in OpToRel(<, Nat))
  BY <1>1, WFMin
<1>3. \A y \in S : <<y, m>> \in OpToRel(<, Nat) <=> y < m
  BY DEF OpToRel
<1>4. \A y \in S : ~(y < m)
  BY <1>2, <1>3
<1> QED BY <1>4

\* The operator Min finds it.
LEMMA MinNatural ==
    ASSUME NEW S \in SUBSET Nat, S # {}
    PROVE  Min(S) \in S /\ \A y \in S : Min(S) <= y
<1>1. \E m \in S : \A y \in S : m <= y
  BY LeastNatural
<1>2. Min(S) = CHOOSE x \in S : \A y \in S : x <= y
  BY DEF Min
<1> QED BY <1>1, <1>2, Zenon

\* A grant appended to a configuration does not change the first grant of a
\* token that already has one.
LEMMA FirstGrantStays ==
    ASSUME NEW grants \in Seq(RBGrants), NEW g \in RBGrants, NEW token,
           GrantsOf(grants, token) # {}
    PROVE  /\ GrantsOf(Append(grants, g), token) # {}
           /\ token_grant(Append(grants, g), token) = token_grant(grants, token)
<1> DEFINE old == GrantsOf(grants, token)
           new == GrantsOf(Append(grants, g), token)
<1>1. /\ Len(grants) \in Nat
      /\ DOMAIN grants = 1 .. Len(grants)
      /\ DOMAIN Append(grants, g) = 1 .. Len(grants) + 1
      /\ \A i \in 1 .. Len(grants) : Append(grants, g)[i] = grants[i]
  OBVIOUS
<1>2. old \subseteq 1 .. Len(grants) /\ old # {}
  BY <1>1 DEF GrantsOf
<1>3. new \subseteq 1 .. Len(grants) + 1 /\ old \subseteq new
      /\ new \subseteq old \cup {Len(grants) + 1}
  BY <1>1 DEF GrantsOf
<1> HIDE DEF old, new
<1>0. /\ \A i \in 1 .. Len(grants) : i \in Nat /\ i < Len(grants) + 1
      /\ \A i \in 1 .. Len(grants) + 1 : i \in Nat
  BY <1>1
<1>4. old \in SUBSET Nat /\ new \in SUBSET Nat /\ new # {}
  BY <1>0, <1>2, <1>3, Zenon
<1>5. Min(old) \in old /\ \A y \in old : Min(old) <= y
  BY <1>2, <1>4, MinNatural
<1>6. Min(new) \in new /\ \A y \in new : Min(new) <= y
  BY <1>4, MinNatural
<1>7. Min(new) = Min(old)
  <2>1. Min(old) \in new /\ Min(old) \in Nat /\ Min(old) < Len(grants) + 1
    BY <1>0, <1>2, <1>3, <1>5, Zenon
  <2>2. Min(new) \in Nat /\ Min(new) <= Min(old)
    BY <1>4, <1>6, <2>1, Zenon
  <2>3. Min(new) # Len(grants) + 1
    BY <1>1, <2>1, <2>2
  <2>4. Min(new) \in old
    BY <1>3, <1>6, <2>3, Zenon
  <2>5. Min(old) <= Min(new)
    BY <1>5, <2>4, Zenon
  <2> QED BY <2>1, <2>2, <2>5
<1>8. Append(grants, g)[Min(new)] = grants[Min(old)]
  BY <1>1, <1>2, <1>5, <1>7
<1> QED BY <1>4, <1>8 DEF token_grant, old, new

\* A set of positions of a sequence is finite.
LEMMA PositionsFinite ==
    ASSUME NEW n \in Nat, NEW S \in SUBSET (1 .. n)
    PROVE  IsFiniteSet(S) /\ Cardinality(S) \in Nat
<1>1. IsFiniteSet(1 .. n)
  BY FS_Interval
<1>2. IsFiniteSet(S)
  BY <1>1, FS_Subset, Zenon
<1> QED BY <1>2, FS_CardinalityType, Zenon

\* An entry that is appended counts once, for its own request and verdict.
LEMMA HitsAppend ==
    ASSUME NEW R, NEW s \in Seq(R), NEW e \in R, NEW req, NEW v
    PROVE  /\ IsFiniteSet(Hits(s, req, v)) /\ Cardinality(Hits(s, req, v)) \in Nat
           /\ Cardinality(Hits(Append(s, e), req, v)) =
                Cardinality(Hits(s, req, v)) + IF e.req = req /\ e.verdict = v THEN 1 ELSE 0
<1>1. /\ Len(s) \in Nat
      /\ DOMAIN s = 1 .. Len(s)
      /\ DOMAIN Append(s, e) = 1 .. Len(s) + 1
      /\ \A i \in 1 .. Len(s) : Append(s, e)[i] = s[i]
      /\ Append(s, e)[Len(s) + 1] = e
  OBVIOUS
<1>2. Hits(s, req, v) \subseteq 1 .. Len(s)
  BY <1>1 DEF Hits
<1>3. Hits(Append(s, e), req, v) =
        Hits(s, req, v) \cup IF e.req = req /\ e.verdict = v THEN {Len(s) + 1} ELSE {}
  BY <1>1 DEF Hits
<1>4. IsFiniteSet(Hits(s, req, v)) /\ Cardinality(Hits(s, req, v)) \in Nat
  BY <1>1, <1>2, PositionsFinite, Zenon
<1>6. CASE e.req = req /\ e.verdict = v
  <2>1. Len(s) + 1 \notin Hits(s, req, v)
    BY <1>1, <1>2
  <2>2. Hits(Append(s, e), req, v) = Hits(s, req, v) \cup {Len(s) + 1}
    BY <1>3, <1>6
  <2>3. Cardinality(Hits(s, req, v) \cup {Len(s) + 1}) = Cardinality(Hits(s, req, v)) + 1
    BY <1>4, <2>1, FS_AddElement
  <2> QED BY <1>4, <1>6, <2>2, <2>3
<1>7. CASE ~(e.req = req /\ e.verdict = v)
  <2>1. Hits(Append(s, e), req, v) = Hits(s, req, v)
    BY <1>3, <1>7
  <2> QED BY <1>4, <1>7, <2>1
<1> QED BY <1>6, <1>7

RBSpec == RBInit /\ [][RBNext]_rbVars

RBRequest == RBRequests \cup {RBNoRequest}
RBVerdict == {"ALLOW", "DENY", ""}
RBCall == [pc : {"idle", "log", "write", "return", "raise"}, req : RBRequest, verdict : RBVerdict]
RBLine == [to : {"file", "stdout"}, req : RBRequest, verdict : RBVerdict]
RBReply == [req : RBRequest, verdict : RBVerdict]

\* The types of the audit log's state.
RBTypes ==
    /\ rbConfig.grants \in Seq(RBGrants)
    /\ rbT \in [RBThread -> RBCall]
    /\ rbOut \in Seq(RBLine)
    /\ rbDone \in Seq(RBReply)

\* Every line stands for an answer, given or on its way.
Balance(req, v) ==
    Cardinality(Hits(rbOut, req, v)) =
        Cardinality(Hits(rbDone, req, v)) + Cardinality(Pending(req, v))

RBInv == RBTypes /\ \A req, v : Balance(req, v)

\* The calls on their way are finitely many.
LEMMA PendingFinite ==
    \A req, v : IsFiniteSet(Pending(req, v)) /\ Cardinality(Pending(req, v)) \in Nat
<1>1. \A req, v : Pending(req, v) \subseteq RBThread
  BY DEF Pending
<1> QED BY <1>1, RBAssumption, FS_Subset, FS_CardinalityType

\* So are the lines and the answers.
LEMMA HitsFinite ==
    ASSUME RBTypes
    PROVE  \A req, v : /\ Cardinality(Hits(rbOut, req, v)) \in Nat
                       /\ Cardinality(Hits(rbDone, req, v)) \in Nat
<1>1. /\ Len(rbOut) \in Nat /\ DOMAIN rbOut = 1 .. Len(rbOut)
      /\ Len(rbDone) \in Nat /\ DOMAIN rbDone = 1 .. Len(rbDone)
  BY DEF RBTypes
<1>2. \A req, v : /\ Hits(rbOut, req, v) \subseteq 1 .. Len(rbOut)
                  /\ Hits(rbDone, req, v) \subseteq 1 .. Len(rbDone)
  BY <1>1 DEF Hits
<1> QED BY <1>1, <1>2, PositionsFinite, Zenon

\* The verdict of a check.
LEMMA DecideType ==
    ASSUME NEW grants, NEW e, NEW req
    PROVE  Decide(grants, e, req) \in {"ALLOW", "DENY"}
BY DEF Decide

\* A step that leaves the log and the answers alone, and the calls that have
\* written their line, keeps the balance.
LEMMA SamePending ==
    ASSUME RBInv, UNCHANGED <<rbConfig, rbOut, rbDone>>, rbT' \in [RBThread -> RBCall],
           \A t \in RBThread : rbT'[t] = rbT[t] \/ (rbT[t].pc # "return" /\ rbT'[t].pc # "return")
    PROVE  RBInv'
<1>1. RBTypes'
  BY DEF RBInv, RBTypes
<1>2. \A req, v : Pending(req, v)' = Pending(req, v)
  BY DEF Pending
<1>3. \A req, v : /\ Hits(rbOut', req, v) = Hits(rbOut, req, v)
                  /\ Hits(rbDone', req, v) = Hits(rbDone, req, v)
  OBVIOUS
<1>4. \A req, v : Balance(req, v)'
  BY <1>2, <1>3 DEF RBInv, Balance
<1> QED BY <1>1, <1>4 DEF RBInv

\* A thread that writes its line becomes pending; the line balances it.
LEMMA WriteStep ==
    ASSUME RBInv, NEW t \in RBThread, LogWrite(t)
    PROVE  RBInv'
<1>1. rbT' \in [RBThread -> RBCall] /\ \A u \in RBThread \ {t} : rbT'[u] = rbT[u]
  BY DEF RBInv, RBTypes, RBCall, LogWrite
<1>2. CASE rbFile = "closing"
  <2>1. rbT[t].pc = "write" /\ rbT'[t].pc = "raise"
    BY <1>2 DEF RBInv, RBTypes, RBCall, LogWrite
  <2> QED BY <1>1, <1>2, <2>1, SamePending DEF LogWrite
<1>3. CASE rbFile # "closing"
  <2> DEFINE to == IF rbFile = "open" THEN "file" ELSE "stdout"
             e == Line(t, to)
  <2>1. rbOut' = Append(rbOut, e) /\ UNCHANGED <<rbConfig, rbDone>>
    BY <1>3 DEF LogWrite
  <2>2. e \in RBLine /\ e.req = rbT[t].req /\ e.verdict = rbT[t].verdict
    BY DEF Line, RBInv, RBTypes, RBLine, RBCall
  <2> HIDE DEF e
  <2>3. RBTypes'
    BY <1>1, <2>1, <2>2 DEF RBInv, RBTypes
  <2>4. /\ rbT[t].pc = "write" /\ rbT'[t].pc = "return"
        /\ rbT'[t].req = rbT[t].req /\ rbT'[t].verdict = rbT[t].verdict
    BY <1>3 DEF RBInv, RBTypes, RBCall, LogWrite
  <2>5. ASSUME NEW req, NEW v
        PROVE  Balance(req, v)'
    <3> DEFINE k == IF e.req = req /\ e.verdict = v THEN 1 ELSE 0
    <3>1. Cardinality(Hits(rbOut', req, v)) = Cardinality(Hits(rbOut, req, v)) + k
      BY <2>1, <2>2, HitsAppend DEF RBInv, RBTypes
    <3>2. Pending(req, v)' = Pending(req, v) \cup IF e.req = req /\ e.verdict = v THEN {t} ELSE {}
      BY <1>1, <2>2, <2>4 DEF Pending
    <3>3. t \notin Pending(req, v)
      BY <2>4 DEF Pending
    <3>4. IsFiniteSet(Pending(req, v)) /\ Cardinality(Pending(req, v)) \in Nat
      BY PendingFinite
    <3>5. Cardinality(Pending(req, v)') = Cardinality(Pending(req, v)) + k
      <4>1. CASE e.req = req /\ e.verdict = v
        <5>1. Cardinality(Pending(req, v) \cup {t}) = Cardinality(Pending(req, v)) + 1
          BY <3>3, <3>4, FS_AddElement
        <5> QED BY <3>2, <4>1, <5>1
      <4>2. CASE ~(e.req = req /\ e.verdict = v)
        <5>1. Pending(req, v)' = Pending(req, v)
          BY <3>2, <4>2
        <5> QED BY <3>4, <4>2, <5>1
      <4> QED BY <4>1, <4>2
    <3>6. /\ Cardinality(Hits(rbOut, req, v)) \in Nat
          /\ Cardinality(Hits(rbDone, req, v)) \in Nat
      BY HitsFinite DEF RBInv
    <3>7. Cardinality(Hits(rbOut, req, v)) =
            Cardinality(Hits(rbDone, req, v)) + Cardinality(Pending(req, v))
      BY DEF RBInv, Balance
    <3>8. rbDone' = rbDone
      BY <2>1
    <3>9. k \in {0, 1}
      OBVIOUS
    <3> HIDE DEF k
    <3> QED BY <3>1, <3>4, <3>5, <3>6, <3>7, <3>8, <3>9 DEF Balance
  <2> QED BY <2>3, <2>5 DEF RBInv
<1> QED BY <1>2, <1>3

\* A thread that returns is pending no more; its answer balances the line.
LEMMA AnswerStep ==
    ASSUME RBInv, NEW t \in RBThread, Answer(t)
    PROVE  RBInv'
<1>1. /\ rbT' \in [RBThread -> RBCall]
      /\ \A u \in RBThread \ {t} : rbT'[u] = rbT[u]
      /\ rbT'[t].pc = "idle"
  <2>1. RBFree \in RBCall /\ RBFree.pc = "idle"
    BY DEF RBCall, RBFree, RBRequest, RBVerdict
  <2> QED BY <2>1 DEF RBInv, RBTypes, Answer
<1>4. \A u \in RBThread : u = t \/ rbT'[u] = rbT[u]
  BY <1>1
<1>5. "idle" # "return"
  OBVIOUS
<1>2. CASE rbT[t].pc = "raise"
  <2>1. \A u \in RBThread : rbT'[u] = rbT[u] \/ (rbT[u].pc # "return" /\ rbT'[u].pc # "return")
    BY <1>1, <1>2, <1>4
  <2>2. UNCHANGED <<rbConfig, rbOut, rbDone>>
    BY <1>2 DEF Answer
  <2> QED BY <1>1, <2>1, <2>2, SamePending
<1>3. CASE rbT[t].pc # "raise"
  <2> DEFINE e == [req |-> rbT[t].req, verdict |-> rbT[t].verdict]
  <2>1. rbDone' = Append(rbDone, e) /\ UNCHANGED <<rbConfig, rbOut>> /\ rbT[t].pc = "return"
    BY <1>3 DEF Answer
  <2>2. e \in RBReply /\ e.req = rbT[t].req /\ e.verdict = rbT[t].verdict
    BY DEF RBInv, RBTypes, RBReply, RBCall
  <2> HIDE DEF e
  <2>3. RBTypes'
    BY <1>1, <2>1, <2>2 DEF RBInv, RBTypes
  <2>5. ASSUME NEW req, NEW v
        PROVE  Balance(req, v)'
    <3> DEFINE k == IF e.req = req /\ e.verdict = v THEN 1 ELSE 0
    <3>1. Cardinality(Hits(rbDone', req, v)) = Cardinality(Hits(rbDone, req, v)) + k
      BY <2>1, <2>2, HitsAppend DEF RBInv, RBTypes
    <3>2. Pending(req, v)' = Pending(req, v) \ {t}
      <4>1. \A u \in RBThread \ {t} : u \in Pending(req, v)' <=> u \in Pending(req, v)
        BY <1>1 DEF Pending
      <4>2. t \notin Pending(req, v)'
        BY <1>1, <1>5 DEF Pending
      <4>3. Pending(req, v)' \subseteq RBThread /\ Pending(req, v) \subseteq RBThread
        BY DEF Pending
      <4> QED BY <4>1, <4>2, <4>3, Zenon
    <3>3. t \in Pending(req, v) <=> e.req = req /\ e.verdict = v
      BY <2>1, <2>2 DEF Pending
    <3>4. IsFiniteSet(Pending(req, v)) /\ Cardinality(Pending(req, v)) \in Nat
      BY PendingFinite
    <3>5. Cardinality(Pending(req, v)') = Cardinality(Pending(req, v)) - k
      <4>1. Cardinality(Pending(req, v) \ {t}) =
              IF t \in Pending(req, v) THEN Cardinality(Pending(req, v)) - 1
                                       ELSE Cardinality(Pending(req, v))
        BY <3>4, FS_RemoveElement
      <4> QED BY <3>2, <3>3, <3>4, <4>1
    <3>6. /\ Cardinality(Hits(rbOut, req, v)) \in Nat
          /\ Cardinality(Hits(rbDone, req, v)) \in Nat
      BY HitsFinite DEF RBInv
    <3>7. Cardinality(Hits(rbOut, req, v)) =
            Cardinality(Hits(rbDone, req, v)) + Cardinality(Pending(req, v))
      BY DEF RBInv, Balance
    <3>8. rbOut' = rbOut
      BY <2>1
    <3>9. k \in {0, 1}
      OBVIOUS
    <3> HIDE DEF k
    <3> QED BY <3>1, <3>4, <3>5, <3>6, <3>7, <3>8, <3>9 DEF Balance
  <2> QED BY <2>3, <2>5 DEF RBInv
<1> QED BY <1>2, <1>3

\* Every step keeps the balance of lines and answers.
LEMMA AuditStep ==
    ASSUME RBInv, [RBNext]_rbVars
    PROVE  RBInv'
<1>1. ASSUME NEW t \in RBThread, NEW req \in RBRequests, check(t, req)
      PROVE  RBInv'
  <2>1. Decide(rbConfig.grants, rbConfig.enabled, req) \in {"ALLOW", "DENY"}
    BY DecideType
  <2>2. /\ rbT' \in [RBThread -> RBCall]
        /\ \A u \in RBThread \ {t} : rbT'[u] = rbT[u]
        /\ rbT'[t].pc = "log"
    BY <1>1, <2>1 DEF RBInv, RBTypes, RBCall, RBRequest, RBVerdict, check
  <2> QED BY <1>1, <2>2, SamePending DEF check
<1>2. ASSUME NEW t \in RBThread, LogAcquire(t)
      PROVE  RBInv'
  <2>2. /\ rbT' \in [RBThread -> RBCall]
        /\ \A u \in RBThread \ {t} : rbT'[u] = rbT[u]
        /\ rbT'[t].pc = "write"
    BY <1>2 DEF RBInv, RBTypes, RBCall, LogAcquire
  <2> QED BY <1>2, <2>2, SamePending DEF LogAcquire
<1>3. CASE CloseFile \/ ClearFile \/ UNCHANGED rbVars
  <2>1. UNCHANGED <<rbConfig, rbT, rbOut, rbDone>>
    BY <1>3 DEF CloseFile, ClearFile, rbVars
  <2>2. rbT' \in [RBThread -> RBCall]
    BY <2>1 DEF RBInv, RBTypes
  <2> QED BY <2>1, <2>2, SamePending
<1> QED BY <1>1, <1>2, <1>3, WriteStep, AnswerStep DEF RBNext

\* Initially nothing is written and nothing answered.
LEMMA AuditInit ==
    ASSUME RBInit
    PROVE  RBInv
<1>1. rbConfig.grants \in Seq(RBGrants)
  <2>1. PICK n \in 0 .. RBMaxGrants : rbConfig.grants \in [1 .. n -> RBGrants]
    BY DEF RBInit
  <2>2. n \in Nat
    BY RBAssumption
  <2> QED BY <2>1, <2>2
<1>0. RBFree \in RBCall /\ RBFree.pc = "idle"
  BY DEF RBCall, RBFree, RBRequest, RBVerdict
<1>5. rbT = [t \in RBThread |-> RBFree] /\ rbOut = <<>> /\ rbDone = <<>>
  BY DEF RBInit
<1>2. RBTypes
  BY <1>0, <1>1, <1>5 DEF RBTypes
<1>3. \A req, v : Hits(rbOut, req, v) = {} /\ Hits(rbDone, req, v) = {} /\ Pending(req, v) = {}
  BY <1>0, <1>5 DEF Hits, Pending
<1>4. Cardinality({}) = 0
  BY FS_EmptySet
<1> QED BY <1>2, <1>3, <1>4 DEF RBInv, Balance

\* Every verdict that check() gave has an audit line of its own, whatever the
\* threads and close() interleave, and a token is judged by its first grant
\* alone.  For any number of threads, tokens, grants and calls.
THEOREM AccessAudited == RBSpec => []RBSafe
<1>1. RBInit => RBInv
  BY AuditInit
<1>2. RBInv /\ [RBNext]_rbVars => RBInv'
  BY AuditStep
<1>3. RBInv => RBSafe
  <2>1. ASSUME RBInv
        PROVE  RBAudited
    <3>1. \A req, v : Balance(req, v)
      BY <2>1 DEF RBInv
    <3> QED BY <3>1 DEF Balance, RBAudited
  <2>2. ASSUME RBInv, NEW g \in RBGrants, NEW req \in RBRequests,
               GrantsOf(rbConfig.grants, req.token) # {}
        PROVE  Decide(Append(rbConfig.grants, g), TRUE, req) = Decide(rbConfig.grants, TRUE, req)
    <3>1. /\ GrantsOf(Append(rbConfig.grants, g), req.token) # {}
          /\ token_grant(Append(rbConfig.grants, g), req.token) = token_grant(rbConfig.grants, req.token)
      BY <2>2, FirstGrantStays DEF RBInv, RBTypes
    <3> QED BY <2>2, <3>1 DEF Decide
  <2> QED BY <2>1, <2>2 DEF RBSafe, RBFirstGrantRules
<1> QED
  BY <1>1, <1>2, <1>3, PTL DEF RBSpec

-----------------------------------------------------------------------------
(* StreamReads: what a read endpoint answers.                               *)

SRSpec == SRInit /\ [][SRNext]_srVars

SRCount == Nat \cup {SRAbsent}
SRQuery == [of : Seq(SRStreams), peers : BOOLEAN, need : {"each", "all", "some"}]
SRRequest == [pc : {"idle", "fetch", "queue", "load", "done"}, q : SRQuery \cup {"none"},
              held : Seq(Nat), taken : Seq(Nat), low : Seq(SRCount), high : Seq(SRCount),
              deleted : SUBSET SRStreams, status : Nat]

\* The registry R, the objects H and the rows D: every object belongs to one
\* stream at most.
World(R, H, D) ==
    /\ R \in [SRStreams -> Nat] /\ H \in Seq(Nat) /\ D \in [SRStreams -> SRCount]
    /\ \A s \in SRStreams : R[s] <= Len(H)
    /\ \A s, t \in SRStreams : R[s] # 0 /\ R[s] = R[t] => s = t

\* The i-th stream of a request existed when it came and was not deleted since.
Lasting(rq, i) == rq.q.of[i] \notin rq.deleted /\ rq.low[i] # SRAbsent

\* Such a stream still has what it had then.
NotLess(rq, i, R, H, D) == Lasting(rq, i) => rq.low[i] <= SRHolds(rq.q.of[i], R, H, D)

\* The object fetched for the i-th stream is its own or nobody's, and both it
\* and what was read of it lie between what the stream had and what it has.
Between(rq, i, R, H, D) ==
    /\ rq.held[i] <= Len(H)
    /\ \A u \in SRStreams : rq.held[i] # 0 /\ R[u] = rq.held[i] => u = rq.q.of[i]
    /\ Lasting(rq, i) =>
         /\ rq.held[i] # 0
         /\ rq.low[i] <= H[rq.held[i]] /\ H[rq.held[i]] <= SRHolds(rq.q.of[i], R, H, D)
         /\ rq.low[i] <= rq.taken[i] /\ rq.taken[i] <= SRHolds(rq.q.of[i], R, H, D)

\* A request under way.
Running(rq, R, H, D) ==
    /\ rq.q \in SRQuery /\ Len(rq.low) = Len(rq.q.of)
    /\ Len(rq.held) < Len(rq.q.of) /\ Len(rq.taken) = Len(rq.held)
    /\ \A i \in 1 .. Len(rq.q.of) : NotLess(rq, i, R, H, D)
    /\ \A i \in 1 .. Len(rq.held) : Between(rq, i, R, H, D)

\* A request that was answered: what SRFresh and SRTrue404 say of it.
Answered(rq) ==
    /\ rq.q \in SRQuery
    /\ rq.status = 200 => \A i \in 1 .. Len(rq.q.of) :
                             Lasting(rq, i) => rq.low[i] <= rq.taken[i] /\ rq.taken[i] <= rq.high[i]
    /\ rq.status = 404 =>
         IF rq.q.need # "some"
         THEN \E i \in 1 .. Len(rq.q.of) :
                 ~Lasting(rq, i) /\ (rq.q.peers => SRPeers[rq.q.of[i]] = 0)
         ELSE \A i \in 1 .. Len(rq.q.of) :
                 ~Lasting(rq, i) /\ (rq.q.peers => SRPeers[rq.q.of[i]] = 0)

RequestOK(rq, R, H, D) ==
    /\ rq \in SRRequest
    /\ rq.pc \in {"fetch", "queue", "load"} => Running(rq, R, H, D)
    /\ rq.pc = "done" => Answered(rq)

\* Whoever reads from storage holds the lock, and nobody has loaded the
\* stream meanwhile.
Loading ==
    \A r \in SRReaders : srRq[r].pc = "load" =>
        srLock = r /\ srResident[SRAsked(srRq[r])] = 0

SRInv ==
    /\ World(srResident, srHeap, srDisk)
    /\ DOMAIN srRq = SRReaders
    /\ \A r \in SRReaders : RequestOK(srRq[r], srResident, srHeap, srDisk)
    /\ Loading

\* How the registry, the objects and the rows may move while requests run: no
\* stream outside d loses events, an object only grows and then it is the
\* resident one of its stream, and the residents that are new have new objects.
Moves(R, H, D, R2, H2, D2, d) ==
    /\ World(R2, H2, D2)
    /\ \A s \in SRStreams \ d : SRHolds(s, R, H, D) <= SRHolds(s, R2, H2, D2)
    /\ Len(H) <= Len(H2)
    /\ \A o \in 1 .. Len(H) : H[o] <= H2[o]
    /\ \A o \in 1 .. Len(H) : H2[o] # H[o] =>
          \E u \in SRStreams : R[u] = o /\ SRHolds(u, R2, H2, D2) = H2[o]
    /\ \A u \in SRStreams : R2[u] # 0 /\ R2[u] <= Len(H) => R2[u] = R[u]

\* What a stream holds is a count.
LEMMA HoldsCount ==
    ASSUME NEW R, NEW H, NEW D, World(R, H, D), NEW s \in SRStreams
    PROVE  /\ SRHolds(s, R, H, D) \in SRCount
           /\ R[s] # 0 => R[s] \in 1 .. Len(H) /\ SRHolds(s, R, H, D) = H[R[s]]
<1>1. CASE R[s] = 0
  BY <1>1 DEF World, SRHolds
<1>2. CASE R[s] # 0
  <2>1. R[s] \in 1 .. Len(H)
    BY <1>2 DEF World
  <2>2. H[R[s]] \in Nat
    BY <2>1 DEF World
  <2> QED BY <1>2, <2>1, <2>2 DEF SRHolds, SRCount
<1> QED BY <1>1, <1>2

\* A request under way outlives such a move.
LEMMA RunningMoves ==
    ASSUME NEW R, NEW H, NEW D, NEW R2, NEW H2, NEW D2, NEW d, World(R, H, D),
           Moves(R, H, D, R2, H2, D2, d),
           NEW rq \in SRRequest, NEW rq2 \in SRRequest, Running(rq, R, H, D),
           rq2.q = rq.q, rq2.held = rq.held, rq2.taken = rq.taken, rq2.low = rq.low,
           rq2.deleted = rq.deleted \cup d
    PROVE  Running(rq2, R2, H2, D2)
<1>1. ASSUME NEW i \in 1 .. Len(rq.q.of)
      PROVE  rq.q.of[i] \in SRStreams /\ rq.low[i] \in SRCount /\ rq.low[i] \in Int
  <2>1. rq.q.of \in Seq(SRStreams) /\ rq.low \in Seq(SRCount) /\ Len(rq.low) = Len(rq.q.of)
    BY DEF Running, SRQuery, SRRequest
  <2>2. rq.q.of[i] \in SRStreams /\ rq.low[i] \in SRCount
    BY <1>1, <2>1
  <2> QED BY <2>2 DEF SRCount, SRAbsent
<1>2. ASSUME NEW i \in 1 .. Len(rq.q.of), Lasting(rq2, i)
      PROVE  /\ Lasting(rq, i)
             /\ SRHolds(rq.q.of[i], R, H, D) \in Int
             /\ SRHolds(rq.q.of[i], R2, H2, D2) \in Int
             /\ SRHolds(rq.q.of[i], R, H, D) <= SRHolds(rq.q.of[i], R2, H2, D2)
  <2>1. rq.q.of[i] \notin rq.deleted /\ rq.q.of[i] \notin d /\ rq.low[i] # SRAbsent
    BY <1>2 DEF Lasting
  <2>2. SRHolds(rq.q.of[i], R, H, D) \in SRCount /\ SRHolds(rq.q.of[i], R2, H2, D2) \in SRCount
    BY <1>1, HoldsCount DEF Moves
  <2>3. SRHolds(rq.q.of[i], R, H, D) <= SRHolds(rq.q.of[i], R2, H2, D2)
    BY <1>1, <2>1 DEF Moves
  <2> QED BY <2>1, <2>2, <2>3 DEF Lasting, SRCount, SRAbsent
<1>3. ASSUME NEW i \in 1 .. Len(rq.q.of)
      PROVE  NotLess(rq2, i, R2, H2, D2)
  <2> SUFFICES ASSUME Lasting(rq2, i)
               PROVE  rq.low[i] <= SRHolds(rq.q.of[i], R2, H2, D2)
    BY DEF NotLess
  <2>1. rq.low[i] <= SRHolds(rq.q.of[i], R, H, D)
    BY <1>2 DEF Running, NotLess
  <2> QED BY <1>1, <1>2, <2>1
<1>4. ASSUME NEW i \in 1 .. Len(rq.held)
      PROVE  Between(rq2, i, R2, H2, D2)
  <2> DEFINE o == rq.held[i]
             s == rq.q.of[i]
  <2>1. i \in 1 .. Len(rq.q.of) /\ i \in 1 .. Len(rq.taken)
    BY DEF Running, SRQuery, SRRequest
  <2>2. o \in Nat /\ rq.taken[i] \in Nat /\ s \in SRStreams
    BY <1>1, <2>1, SMTT(60) DEF SRRequest
  <2>3. /\ o <= Len(H) /\ Len(H) <= Len(H2) /\ Len(H) \in Nat /\ Len(H2) \in Nat
        /\ \A u \in SRStreams : o # 0 /\ R[u] = o => u = s
    <3>1. Between(rq, i, R, H, D)
      BY DEF Running
    <3>2. Len(H) <= Len(H2) /\ Len(H) \in Nat /\ Len(H2) \in Nat
      BY DEF Moves, World
    <3> QED BY <3>1, <3>2 DEF Between
  <2>4. o <= Len(H2)
    BY <2>2, <2>3
  <2>5. \A u \in SRStreams : o # 0 /\ R2[u] = o => u = s
    BY <2>3 DEF Moves
  <2>6. ASSUME Lasting(rq2, i)
        PROVE  /\ o # 0
               /\ rq.low[i] <= H2[o] /\ H2[o] <= SRHolds(s, R2, H2, D2)
               /\ rq.low[i] <= rq.taken[i] /\ rq.taken[i] <= SRHolds(s, R2, H2, D2)
    <3>1. /\ o # 0
          /\ rq.low[i] <= H[o] /\ H[o] <= SRHolds(s, R, H, D)
          /\ rq.low[i] <= rq.taken[i] /\ rq.taken[i] <= SRHolds(s, R, H, D)
      BY <1>2, <2>1, <2>6 DEF Running, Between
    <3>2. o \in 1 .. Len(H) /\ o \in 1 .. Len(H2)
      BY <2>2, <2>3, <3>1
    <3>0. H \in Seq(Nat) /\ H2 \in Seq(Nat) /\ H[o] <= H2[o]
      BY <3>2 DEF World, Moves
    <3>3. H[o] \in Nat /\ H2[o] \in Nat /\ H[o] <= H2[o]
      BY <3>0, <3>2
    <3>4. H2[o] = H[o] \/ SRHolds(s, R2, H2, D2) = H2[o]
      BY <2>3, <3>1, <3>2 DEF Moves
    <3>5. /\ SRHolds(s, R, H, D) \in Int /\ SRHolds(s, R2, H2, D2) \in Int
          /\ SRHolds(s, R, H, D) <= SRHolds(s, R2, H2, D2)
      BY <1>2, <2>1, <2>6
    <3>6. rq.low[i] \in Int
      BY <1>1, <2>1
    <3> HIDE DEF o, s
    <3> QED BY <2>2, <3>1, <3>3, <3>4, <3>5, <3>6
  <2> QED BY <2>4, <2>5, <2>6 DEF Between
<1> QED BY <1>3, <1>4 DEF Running

\* An answer stays true of its request when more is deleted.
LEMMA AnsweredStays ==
    ASSUME NEW rq, NEW rq2, Answered(rq), rq2.q = rq.q, rq2.low = rq.low, rq2.taken = rq.taken,
           rq2.high = rq.high, rq2.status = rq.status, rq.deleted \subseteq rq2.deleted
    PROVE  Answered(rq2)
<1>1. \A i : Lasting(rq2, i) => Lasting(rq, i)
  BY DEF Lasting
<1> QED BY <1>1 DEF Answered

\* So a request that no step of its own touches stays as it should be.
LEMMA RequestMoves ==
    ASSUME NEW R, NEW H, NEW D, NEW R2, NEW H2, NEW D2, NEW d \in SUBSET SRStreams,
           World(R, H, D), Moves(R, H, D, R2, H2, D2, d), NEW rq, RequestOK(rq, R, H, D)
    PROVE  RequestOK([rq EXCEPT !.deleted = @ \cup d], R2, H2, D2)
<1> DEFINE rq2 == [rq EXCEPT !.deleted = @ \cup d]
<1>1. rq \in SRRequest
  BY DEF RequestOK
<1>2. /\ rq2 \in SRRequest /\ rq2.pc = rq.pc /\ rq2.q = rq.q /\ rq2.held = rq.held
      /\ rq2.taken = rq.taken /\ rq2.low = rq.low /\ rq2.high = rq.high
      /\ rq2.status = rq.status /\ rq2.deleted = rq.deleted \cup d
  BY <1>1 DEF SRRequest
<1> HIDE DEF rq2
<1>3. rq2.pc \in {"fetch", "queue", "load"} => Running(rq2, R2, H2, D2)
  BY <1>1, <1>2, RunningMoves DEF RequestOK
<1>4. rq2.pc = "done" => Answered(rq2)
  BY <1>2, AnsweredStays DEF RequestOK
<1> QED BY <1>2, <1>3, <1>4 DEF RequestOK, rq2

\* The same with nothing deleted.
LEMMA RequestStays ==
    ASSUME NEW R, NEW H, NEW D, NEW R2, NEW H2, NEW D2, World(R, H, D),
           Moves(R, H, D, R2, H2, D2, {}), NEW rq, RequestOK(rq, R, H, D)
    PROVE  RequestOK(rq, R2, H2, D2)
<1>1. rq \in SRRequest
  BY DEF RequestOK
<1>2. [rq EXCEPT !.deleted = @ \cup {}] = rq
  BY <1>1 DEF SRRequest
<1> QED BY <1>2, RequestMoves

\* Nothing moves when the registry, the objects and the rows stay.
LEMMA MovesNothing ==
    ASSUME NEW R, NEW H, NEW D, World(R, H, D)
    PROVE  Moves(R, H, D, R, H, D, {})
<1>1. \A s \in SRStreams : SRHolds(s, R, H, D) \in Int
  BY HoldsCount DEF SRCount, SRAbsent
<1>2. Len(H) \in Nat /\ \A o \in 1 .. Len(H) : H[o] \in Nat
  BY DEF World
<1> QED BY <1>1, <1>2 DEF Moves

\* The next object o of a request under way: the resident object of the
\* stream that is asked for, or none when there is no such stream.
Delivers(rq, o, R, H, D) ==
    LET s == rq.q.of[Len(rq.held) + 1]
    IN  IF o = 0 THEN SRHolds(s, R, H, D) = SRAbsent ELSE o = R[s]

\* With it the request is as it should be up to one stream more.
LEMMA BetweenNext ==
    ASSUME NEW R, NEW H, NEW D, World(R, H, D), NEW rq \in SRRequest, Running(rq, R, H, D),
           NEW o \in Nat, Delivers(rq, o, R, H, D), NEW rq2,
           rq2.q = rq.q, rq2.low = rq.low, rq2.deleted = rq.deleted,
           rq2.held = Append(rq.held, o), rq2.taken = Append(rq.taken, SRReport(o, H))
    PROVE  /\ SRReport(o, H) \in Nat
           /\ \A i \in 1 .. Len(rq2.held) : Between(rq2, i, R, H, D)
<1> DEFINE k == Len(rq.held) + 1
           s == rq.q.of[k]
<1>1. /\ rq.held \in Seq(Nat) /\ rq.taken \in Seq(Nat) /\ Len(rq.taken) = Len(rq.held)
      /\ Len(rq.held) \in Nat /\ rq.q.of \in Seq(SRStreams) /\ k \in 1 .. Len(rq.q.of)
      /\ Len(rq.low) = Len(rq.q.of) /\ rq.low \in Seq(SRCount)
  BY DEF SRRequest, Running, SRQuery
<1>2. s \in SRStreams /\ rq.low[k] \in SRCount
  BY <1>1
<1>3. SRHolds(s, R, H, D) \in SRCount /\ H \in Seq(Nat)
  BY <1>2, HoldsCount DEF World
<1>4. o # 0 => o = R[s] /\ o \in 1 .. Len(H) /\ SRHolds(s, R, H, D) = H[o] /\ H[o] \in Nat
  <2>1. o # 0 => o = R[s]
    BY DEF Delivers
  <2> HIDE DEF s
  <2>2. o # 0 => o \in 1 .. Len(H) /\ SRHolds(s, R, H, D) = H[o]
    BY <1>2, <2>1, HoldsCount
  <2> QED BY <1>3, <2>1, <2>2
<1>5. SRReport(o, H) \in Nat
  BY <1>4 DEF SRReport
<1>6. Len(rq2.held) = k /\ rq2.held[k] = o /\ rq2.taken[k] = SRReport(o, H)
  BY <1>1, <1>5
<1>7. \A i \in 1 .. k - 1 : rq2.held[i] = rq.held[i] /\ rq2.taken[i] = rq.taken[i]
  BY <1>1, <1>5
<1>8. ASSUME NEW i \in 1 .. k - 1
      PROVE  Between(rq2, i, R, H, D)
  <2>1. Between(rq, i, R, H, D)
    BY <1>1 DEF Running
  <2> QED BY <1>7, <2>1 DEF Between, Lasting
<1>9. Between(rq2, k, R, H, D)
  <2>1. o <= Len(H)
    BY <1>3, <1>4
  <2>2. \A u \in SRStreams : o # 0 /\ R[u] = o => u = s
    BY <1>2, <1>4 DEF World
  <2>3. ASSUME Lasting(rq2, k)
        PROVE  /\ o # 0
               /\ rq.low[k] <= H[o] /\ H[o] <= SRHolds(s, R, H, D)
               /\ rq.low[k] <= SRReport(o, H) /\ SRReport(o, H) <= SRHolds(s, R, H, D)
    <3>1. rq.low[k] <= SRHolds(s, R, H, D) /\ rq.low[k] # SRAbsent
      BY <1>1, <2>3 DEF Running, NotLess, Lasting
    <3>2. o # 0
      BY <1>2, <1>3, <3>1 DEF Delivers, SRCount, SRAbsent
    <3> QED BY <1>4, <3>1, <3>2 DEF SRReport
  <2> QED BY <1>6, <2>1, <2>2, <2>3 DEF Between
<1>10. \A i \in 1 .. k : i = k \/ i \in 1 .. k - 1
  BY <1>1
<1> QED BY <1>5, <1>6, <1>8, <1>9, <1>10

\* The record of a request that goes on, and of one that is answered.
GoesOn(rq, o, H) ==
    [rq EXCEPT !.pc = "fetch", !.held = Append(rq.held, o),
               !.taken = Append(rq.taken, SRReport(o, H))]
Ends(rq, o, R, H, D) ==
    LET held == Append(rq.held, o)
    IN  [rq EXCEPT !.pc = "done", !.held = held,
           !.status = IF Lost(rq.q, held) THEN 404 ELSE 200,
           !.taken = IF rq.q.need = "some" THEN Append(rq.taken, SRReport(o, H))
                     ELSE [i \in 1 .. Len(held) |-> SRReport(held[i], H)],
           !.high = [i \in 1 .. Len(rq.q.of) |-> SRHolds(rq.q.of[i], R, H, D)]]

\* A request that goes on is under way.
LEMMA GoesOnOK ==
    ASSUME NEW R, NEW H, NEW D, World(R, H, D), NEW rq \in SRRequest, Running(rq, R, H, D),
           NEW o \in Nat, Delivers(rq, o, R, H, D), Len(Append(rq.held, o)) # Len(rq.q.of)
    PROVE  RequestOK(GoesOn(rq, o, H), R, H, D)
<1> DEFINE rq2 == [rq EXCEPT !.pc = "fetch", !.held = Append(rq.held, o),
                             !.taken = Append(rq.taken, SRReport(o, H))]
<1>1. /\ rq2.q = rq.q /\ rq2.low = rq.low /\ rq2.deleted = rq.deleted /\ rq2.pc = "fetch"
      /\ rq2.held = Append(rq.held, o) /\ rq2.taken = Append(rq.taken, SRReport(o, H))
  BY DEF SRRequest
<1>2. /\ SRReport(o, H) \in Nat
      /\ \A i \in 1 .. Len(rq2.held) : Between(rq2, i, R, H, D)
  <2> HIDE DEF rq2
  <2> QED BY <1>1, BetweenNext
<1>0. Append(rq.held, o) \in Seq(Nat) /\ Append(rq.taken, SRReport(o, H)) \in Seq(Nat)
  BY <1>2 DEF SRRequest
<1>3. rq2 \in SRRequest
  BY <1>0 DEF SRRequest
<1> HIDE DEF rq2
<1>4. /\ rq.held \in Seq(Nat) /\ rq.taken \in Seq(Nat) /\ Len(rq.taken) = Len(rq.held)
      /\ rq.q.of \in Seq(SRStreams) /\ Len(rq.held) < Len(rq.q.of)
  BY DEF SRRequest, Running, SRQuery
<1>5. Len(rq2.held) < Len(rq.q.of) /\ Len(rq2.taken) = Len(rq2.held)
  <2>1. Len(rq2.held) = Len(rq.held) + 1 /\ Len(rq2.taken) = Len(rq.taken) + 1
    BY <1>1, <1>2, <1>4
  <2>2. Len(rq2.held) # Len(rq.q.of) /\ Len(rq.held) \in Nat /\ Len(rq.q.of) \in Nat
    BY <1>1, <1>4
  <2> QED BY <1>4, <2>1, <2>2
<1>6. \A i \in 1 .. Len(rq.q.of) : NotLess(rq2, i, R, H, D)
  BY <1>1 DEF Running, NotLess, Lasting
<1>7. Running(rq2, R, H, D)
  BY <1>1, <1>2, <1>5, <1>6 DEF Running
<1>8. rq2.pc # "done"
  BY <1>1
<1> QED BY <1>3, <1>7, <1>8 DEF RequestOK, GoesOn, rq2

\* What a request that gives up did not find.
LEMMA LostMeans ==
    ASSUME NEW q \in SRQuery, NEW held \in Seq(Nat), Lost(q, held),
           Len(held) \in 1 .. Len(q.of)
    PROVE  /\ q.need # "some" => \E i \in 1 .. Len(held) : ~FoundIn(q, held, i)
           /\ q.need = "some" => /\ Len(held) = Len(q.of)
                                 /\ \A i \in 1 .. Len(held) : ~FoundIn(q, held, i)
<1>1. q.need \in {"each", "all", "some"}
  BY DEF SRQuery
<1>2. CASE q.need = "each"
  <2>1. ~FoundIn(q, held, Len(held))
    BY <1>2 DEF Lost
  <2>2. Len(held) \in 1 .. Len(held)
    OBVIOUS
  <2> QED BY <1>2, <2>1, <2>2
<1>3. CASE q.need = "all"
  BY <1>3 DEF Lost
<1>4. CASE q.need = "some"
  BY <1>4 DEF Lost
<1> QED BY <1>1, <1>2, <1>3, <1>4

\* The last answer of a request keeps what SRFresh and SRTrue404 promise.
LEMMA EndsOK ==
    ASSUME NEW R, NEW H, NEW D, World(R, H, D), NEW rq \in SRRequest, Running(rq, R, H, D),
           NEW o \in Nat, Delivers(rq, o, R, H, D),
           Lost(rq.q, Append(rq.held, o)) \/ Len(Append(rq.held, o)) = Len(rq.q.of)
    PROVE  RequestOK(Ends(rq, o, R, H, D), R, H, D)
<1> DEFINE held == Append(rq.held, o)
           taken == Append(rq.taken, SRReport(o, H))
           n == Len(rq.q.of)
           rq1 == [rq EXCEPT !.held = held, !.taken = taken]
           said == IF rq.q.need = "some" THEN taken
                   ELSE [i \in 1 .. Len(held) |-> SRReport(held[i], H)]
           high == [i \in 1 .. n |-> SRHolds(rq.q.of[i], R, H, D)]
           status == IF Lost(rq.q, held) THEN 404 ELSE 200
           rq2 == [rq EXCEPT !.pc = "done", !.held = held, !.status = status, !.taken = said,
                             !.high = high]
<1>1. /\ rq1.q = rq.q /\ rq1.low = rq.low /\ rq1.deleted = rq.deleted
      /\ rq1.held = held /\ rq1.taken = taken
  BY DEF SRRequest
<1>2. /\ rq2.q = rq.q /\ rq2.low = rq.low /\ rq2.deleted = rq.deleted /\ rq2.pc = "done"
      /\ rq2.held = held /\ rq2.taken = said /\ rq2.high = high /\ rq2.status = status
  BY DEF SRRequest
<1>3. /\ rq.held \in Seq(Nat) /\ rq.taken \in Seq(Nat) /\ Len(rq.taken) = Len(rq.held)
      /\ rq.q.of \in Seq(SRStreams) /\ Len(rq.held) < Len(rq.q.of)
      /\ rq.q \in SRQuery /\ n \in Nat /\ H \in Seq(Nat)
  BY DEF SRRequest, Running, SRQuery, World
<1>4. /\ SRReport(o, H) \in Nat
      /\ \A i \in 1 .. Len(held) : Between(rq1, i, R, H, D)
  <2> HIDE DEF rq1
  <2> QED BY <1>1, BetweenNext
<1>5. held \in Seq(Nat) /\ taken \in Seq(Nat) /\ Len(held) \in 1 .. n
  BY <1>3, <1>4
<1>6. \A i \in 1 .. Len(held) : held[i] <= Len(H) /\ SRReport(held[i], H) \in Nat
  <2>1. \A i \in 1 .. Len(held) : held[i] <= Len(H) /\ held[i] \in Nat
    BY <1>1, <1>4, <1>5 DEF Between
  <2> HIDE DEF held
  <2> SUFFICES ASSUME NEW i \in 1 .. Len(held) PROVE SRReport(held[i], H) \in Nat
    BY <2>1
  <2> DEFINE k == held[i]
  <2>2. k <= Len(H) /\ k \in Nat
    BY <2>1
  <2> HIDE DEF k
  <2>3. SRReport(k, H) \in Nat
    BY <1>3, <2>2 DEF SRReport
  <2> QED BY <2>3 DEF k
<1>7. said \in Seq(Nat)
  BY <1>5, <1>6
<1>8. high \in Seq(SRCount)
  <2>1. \A i \in 1 .. n : SRHolds(rq.q.of[i], R, H, D) \in SRCount
    BY <1>3, HoldsCount
  <2> QED BY <1>3, <2>1
<1>9. rq2 \in SRRequest
  <2>1. status \in Nat
    OBVIOUS
  <2> HIDE DEF held, said, high, status
  <2> QED BY <1>5, <1>7, <1>8, <2>1 DEF SRRequest
<1>10. \A i : Lasting(rq2, i) <=> Lasting(rq1, i)
  BY <1>1, <1>2 DEF Lasting
<1>11. ASSUME status = 200, NEW i \in 1 .. n, Lasting(rq2, i)
       PROVE  rq.low[i] <= said[i] /\ said[i] <= high[i]
  <2>1. Len(held) = n
    BY <1>11
  <2>2. /\ held[i] # 0
        /\ rq.low[i] <= H[held[i]] /\ H[held[i]] <= SRHolds(rq.q.of[i], R, H, D)
        /\ rq.low[i] <= taken[i] /\ taken[i] <= SRHolds(rq.q.of[i], R, H, D)
    <3> HIDE DEF rq1, rq2
    <3> QED BY <1>1, <1>4, <1>10, <1>11, <2>1 DEF Between
  <2>3. high[i] = SRHolds(rq.q.of[i], R, H, D)
    OBVIOUS
  <2>4. said[i] = taken[i] \/ said[i] = H[held[i]]
    BY <2>1, <2>2 DEF SRReport
  <2> QED BY <2>2, <2>3, <2>4
<1>12. ASSUME NEW i \in 1 .. Len(held), ~FoundIn(rq.q, held, i)
       PROVE  i \in 1 .. n /\ ~Lasting(rq2, i) /\ (rq.q.peers => SRPeers[rq.q.of[i]] = 0)
  <2>1. i \in 1 .. n
    BY <1>5
  <2>2. ~Lasting(rq2, i)
    <3> HIDE DEF rq1, rq2
    <3> QED BY <1>1, <1>4, <1>10, <1>12 DEF Between, FoundIn
  <2>3. rq.q.of[i] \in SRStreams
    BY <1>3, <2>1
  <2>4. SRPeers[rq.q.of[i]] \in Nat
    BY <2>3, SRAssumption
  <2>5. rq.q.peers => ~(SRPeers[rq.q.of[i]] > 0)
    BY <1>12 DEF FoundIn
  <2>6. rq.q.peers => SRPeers[rq.q.of[i]] = 0
    BY <2>4, <2>5
  <2> QED BY <2>1, <2>2, <2>6
<1>13. ASSUME status = 404
       PROVE  IF rq.q.need # "some"
              THEN \E i \in 1 .. n : ~Lasting(rq2, i) /\ (rq.q.peers => SRPeers[rq.q.of[i]] = 0)
              ELSE \A i \in 1 .. n : ~Lasting(rq2, i) /\ (rq.q.peers => SRPeers[rq.q.of[i]] = 0)
  <2>1. Lost(rq.q, held)
    BY <1>13
  <2>2. /\ rq.q.need # "some" => \E i \in 1 .. Len(held) : ~FoundIn(rq.q, held, i)
        /\ rq.q.need = "some" => /\ Len(held) = n
                                 /\ \A i \in 1 .. Len(held) : ~FoundIn(rq.q, held, i)
    BY <1>3, <1>5, <2>1, LostMeans
  <2> HIDE DEF held, rq2, n
  <2> QED BY <1>12, <2>2
<1> HIDE DEF rq2, said, high, status
<1>14. Answered(rq2)
  BY <1>2, <1>3, <1>11, <1>13 DEF Answered
<1>15. rq2.pc \notin {"fetch", "queue", "load"}
  BY <1>2
<1> QED BY <1>9, <1>14, <1>15 DEF RequestOK, Ends, rq2, said, high, status

\* registry.get gives a request its next object, after the world has moved.
LEMMA GotStep ==
    ASSUME SRInv, NEW r \in SRReaders, NEW o \in Nat,
           srRq[r].pc \in {"fetch", "queue", "load"},
           Moves(srResident, srHeap, srDisk, srResident', srHeap', srDisk', {}),
           Delivers(srRq[r], o, srResident', srHeap', srDisk'), Got(r, o, srHeap')
    PROVE  /\ DOMAIN srRq' = SRReaders
           /\ \A u \in SRReaders : RequestOK(srRq'[u], srResident', srHeap', srDisk')
           /\ srRq'[r].pc # "load"
           /\ \A u \in SRReaders \ {r} : srRq'[u] = srRq[u]
<1> DEFINE rq == srRq[r]
           R == srResident'
           H == srHeap'
           D == srDisk'
<1>1. World(srResident, srHeap, srDisk) /\ World(R, H, D)
  BY DEF SRInv, Moves
<1>2. \A u \in SRReaders : RequestOK(srRq[u], R, H, D)
  BY <1>1, RequestStays DEF SRInv
<1>3. rq \in SRRequest /\ Running(rq, R, H, D)
  BY <1>2 DEF RequestOK
<1>4. srRq' = [srRq EXCEPT ![r] = IF \/ Lost(rq.q, Append(rq.held, o))
                                     \/ Len(Append(rq.held, o)) = Len(rq.q.of)
                                  THEN Ends(rq, o, R, H, D) ELSE GoesOn(rq, o, H)]
  BY Zenon DEF Got, Ends, GoesOn
<1>5. /\ DOMAIN srRq' = SRReaders
      /\ \A u \in SRReaders \ {r} : srRq'[u] = srRq[u]
      /\ srRq'[r] = IF \/ Lost(rq.q, Append(rq.held, o))
                       \/ Len(Append(rq.held, o)) = Len(rq.q.of)
                    THEN Ends(rq, o, R, H, D) ELSE GoesOn(rq, o, H)
  BY <1>4 DEF SRInv
<1>6. RequestOK(srRq'[r], R, H, D)
  <2> HIDE DEF rq, R, H, D
  <2> QED BY <1>1, <1>3, <1>5, EndsOK, GoesOnOK DEF rq, R, H, D
<1>7. Ends(rq, o, R, H, D).pc = "done" /\ GoesOn(rq, o, H).pc = "fetch"
  BY <1>3 DEF Ends, GoesOn, SRRequest
<1>8. srRq'[r].pc # "load"
  BY <1>5, <1>7
<1> QED BY <1>2, <1>5, <1>6, <1>8

\* An object inserted for a stream that is not resident, with at least what
\* its row holds, moves the world as requests can bear; the streams that
\* become resident are no others.
LEMMA InsertMoves ==
    ASSUME World(srResident, srHeap, srDisk), NEW s \in SRStreams, NEW n \in Nat,
           srResident[s] = 0, srDisk[s] <= n, SRInsert(s, n)
    PROVE  /\ Moves(srResident, srHeap, srDisk, srResident', srHeap', srDisk', {})
           /\ srResident'[s] = Len(srHeap) + 1
           /\ SRHolds(s, srResident', srHeap', srDisk') = n
           /\ \A u \in SRStreams \ {s} : srResident'[u] = 0 \/ srResident'[u] = srResident[u]
<1> DEFINE R == srResident
           H == srHeap
           D == srDisk
           R2 == srResident'
           H2 == srHeap'
           D2 == srDisk'
<1>1. /\ R \in [SRStreams -> Nat] /\ H \in Seq(Nat) /\ D \in [SRStreams -> SRCount]
      /\ \A u \in SRStreams : R[u] <= Len(H)
      /\ \A u, v \in SRStreams : R[u] # 0 /\ R[u] = R[v] => u = v
  BY DEF World
<1>2. /\ H2 = Append(H, n) /\ H2 \in Seq(Nat) /\ Len(H) \in Nat /\ Len(H2) = Len(H) + 1
      /\ H2[Len(H) + 1] = n
      /\ \A o \in 1 .. Len(H) : H2[o] = H[o] /\ H[o] \in Nat
  BY <1>1 DEF SRInsert
<1>3. /\ R2[s] = Len(H) + 1
      /\ R2 \in [SRStreams -> Nat] /\ D2 \in [SRStreams -> SRCount]
      /\ \A u \in SRStreams \ {s} :
            \/ R2[u] = R[u] /\ D2[u] = D[u]
            \/ R[u] # 0 /\ R2[u] = 0 /\ D2[u] = H[R[u]]
  <2>1. CASE /\ srResident' = [srResident EXCEPT ![s] = Len(srHeap) + 1]
             /\ UNCHANGED srDisk
    BY <1>1, <1>2, <2>1
  <2>2. ASSUME NEW v \in SRResidents,
               srDisk' = [srDisk EXCEPT ![v] = srHeap[srResident[v]]],
               srResident' = [srResident EXCEPT ![v] = 0, ![s] = Len(srHeap) + 1]
        PROVE  /\ R2[s] = Len(H) + 1
               /\ R2 \in [SRStreams -> Nat] /\ D2 \in [SRStreams -> SRCount]
               /\ \A u \in SRStreams \ {s} :
                     \/ R2[u] = R[u] /\ D2[u] = D[u]
                     \/ R[u] # 0 /\ R2[u] = 0 /\ D2[u] = H[R[u]]
    <3>1. v \in SRStreams /\ R[v] # 0 /\ v # s
      BY DEF SRResidents
    <3>2. R[v] \in 1 .. Len(H)
      BY <1>1, <1>2, <3>1
    <3>3. H[R[v]] \in SRCount
      BY <1>2, <3>2 DEF SRCount
    <3>4. D2 \in [SRStreams -> SRCount] /\ D2[v] = H[R[v]] /\ \A u \in SRStreams \ {v} : D2[u] = D[u]
      BY <1>1, <2>2, <3>1, <3>3
    <3>5. /\ R2 \in [SRStreams -> Nat] /\ R2[v] = 0 /\ R2[s] = Len(H) + 1
          /\ \A u \in SRStreams \ {s, v} : R2[u] = R[u]
      BY <1>1, <1>2, <2>2, <3>1
    <3> QED BY <3>1, <3>4, <3>5
  <2> QED BY <2>1, <2>2 DEF SRInsert
<1>4. \A u \in SRStreams : R[u] # 0 => R[u] \in 1 .. Len(H)
  BY <1>1, <1>2
<1>5. World(R2, H2, D2)
  <2>1. ASSUME NEW u \in SRStreams
        PROVE  R2[u] <= Len(H2)
    <3>1. R[u] \in Nat /\ R[u] <= Len(H)
      BY <1>1
    <3>2. R2[u] = R[u] \/ R2[u] = 0 \/ R2[u] = Len(H) + 1
      BY <1>3
    <3> HIDE DEF R, R2, H, H2
    <3> QED BY <1>2, <3>1, <3>2
  <2>2. \A u, v \in SRStreams : R2[u] # 0 /\ R2[u] = R2[v] => u = v
    BY <1>1, <1>2, <1>3
  <2> QED BY <1>2, <1>3, <2>1, <2>2 DEF World
<1>6. SRHolds(s, R2, H2, D2) = n
  BY <1>2, <1>3 DEF SRHolds
<1>7. \A u \in SRStreams \ {s} : SRHolds(u, R2, H2, D2) = SRHolds(u, R, H, D)
  BY <1>2, <1>3, <1>4 DEF SRHolds
<1>8. \A u \in SRStreams : SRHolds(u, R, H, D) \in Int
  BY HoldsCount DEF SRCount, SRAbsent
<1>9. SRHolds(s, R, H, D) <= n
  BY DEF SRHolds
<1>10. \A u \in SRStreams : SRHolds(u, R, H, D) <= SRHolds(u, R2, H2, D2)
  BY <1>6, <1>7, <1>8, <1>9
<1>11. \A u \in SRStreams : R2[u] # 0 /\ R2[u] <= Len(H) => R2[u] = R[u]
  BY <1>2, <1>3
<1>12. Moves(R, H, D, R2, H2, D2, {})
  <2> HIDE DEF R, H, D, R2, H2, D2
  <2> QED BY <1>2, <1>5, <1>10, <1>11 DEF Moves
<1> QED BY <1>3, <1>6, <1>12

\* A batch added to a resident stream.
LEMMA AddMoves ==
    ASSUME World(srResident, srHeap, srDisk), NEW s \in SRStreams, srResident[s] # 0,
           srHeap' = [srHeap EXCEPT ![srResident[s]] = @ + 1], UNCHANGED <<srResident, srDisk>>
    PROVE  Moves(srResident, srHeap, srDisk, srResident', srHeap', srDisk', {})
<1> DEFINE R == srResident
           H == srHeap
           D == srDisk
           H2 == srHeap'
<1>1. /\ R \in [SRStreams -> Nat] /\ H \in Seq(Nat) /\ D \in [SRStreams -> SRCount]
      /\ \A u \in SRStreams : R[u] <= Len(H)
      /\ \A u, v \in SRStreams : R[u] # 0 /\ R[u] = R[v] => u = v
  BY DEF World
<1>2. R[s] \in 1 .. Len(H) /\ \A o \in 1 .. Len(H) : H[o] \in Nat
  BY <1>1
<1>3. /\ H2 \in Seq(Nat) /\ Len(H2) = Len(H) /\ H2[R[s]] = H[R[s]] + 1
      /\ \A o \in 1 .. Len(H) : o # R[s] => H2[o] = H[o]
  BY <1>1, <1>2
<1>4. World(R, H2, D)
  BY <1>1, <1>3 DEF World
<1>5. \A o \in 1 .. Len(H) : H[o] <= H2[o]
  BY <1>2, <1>3
<1>6. \A u \in SRStreams : SRHolds(u, R, H, D) <= SRHolds(u, R, H2, D)
  <2>1. \A u \in SRStreams : R[u] # 0 => R[u] \in 1 .. Len(H)
    BY <1>1
  <2>2. \A u \in SRStreams : R[u] = 0 => D[u] \in Int
    BY <1>1 DEF SRCount, SRAbsent
  <2> QED BY <1>5, <2>1, <2>2 DEF SRHolds
<1>7. SRHolds(s, R, H2, D) = H2[R[s]]
  BY DEF SRHolds
<1>8. Len(H) \in Nat
  BY <1>1
<1>9. Moves(R, H, D, R, H2, D, {})
  <2> HIDE DEF R, H, D, H2
  <2> QED BY <1>3, <1>4, <1>5, <1>6, <1>7, <1>8 DEF Moves
<1> QED BY <1>9

\* A deletion.
LEMMA DeleteMoves ==
    ASSUME World(srResident, srHeap, srDisk), NEW s \in SRStreams, SRDelete(s)
    PROVE  Moves(srResident, srHeap, srDisk, srResident', srHeap', srDisk', {s})
<1> DEFINE R == srResident
           H == srHeap
           D == srDisk
           R2 == srResident'
           D2 == srDisk'
<1>1. /\ R \in [SRStreams -> Nat] /\ H \in Seq(Nat) /\ D \in [SRStreams -> SRCount]
      /\ \A u \in SRStreams : R[u] <= Len(H)
      /\ \A u, v \in SRStreams : R[u] # 0 /\ R[u] = R[v] => u = v
  BY DEF World
<1>2. /\ R2 \in [SRStreams -> Nat] /\ D2 \in [SRStreams -> SRCount] /\ srHeap' = H
      /\ R2[s] = 0 /\ \A u \in SRStreams \ {s} : R2[u] = R[u] /\ D2[u] = D[u]
  BY <1>1 DEF SRDelete, SRCount
<1>3. Len(H) \in Nat /\ \A o \in 1 .. Len(H) : H[o] \in Nat
  BY <1>1
<1>4. World(R2, H, D2)
  BY <1>1, <1>2, <1>3, SMTT(60) DEF World
<1>5. \A u \in SRStreams : SRHolds(u, R, H, D) \in Int
  BY HoldsCount DEF SRCount, SRAbsent
<1>6. \A u \in SRStreams \ {s} : SRHolds(u, R2, H, D2) = SRHolds(u, R, H, D)
  BY <1>2 DEF SRHolds
<1>7. Moves(R, H, D, R2, H, D2, {s})
  <2> HIDE DEF R, H, D, R2, D2
  <2> QED BY <1>2, <1>3, <1>4, <1>5, <1>6 DEF Moves
<1> QED BY <1>2, <1>7

\* A request that starts to wait is under way as before.
LEMMA WaitsOK ==
    ASSUME NEW R, NEW H, NEW D, NEW rq, RequestOK(rq, R, H, D), NEW pc \in {"queue", "load"},
           rq.pc \in {"fetch", "queue", "load"}
    PROVE  RequestOK([rq EXCEPT !.pc = pc], R, H, D)
<1> DEFINE rq2 == [rq EXCEPT !.pc = pc]
<1>1. rq \in SRRequest /\ Running(rq, R, H, D)
  BY DEF RequestOK
<1>2. /\ rq2 \in SRRequest /\ rq2.pc = pc /\ rq2.q = rq.q /\ rq2.held = rq.held
      /\ rq2.taken = rq.taken /\ rq2.low = rq.low /\ rq2.deleted = rq.deleted
  BY <1>1 DEF SRRequest
<1> HIDE DEF rq2
<1>3. \A i : Lasting(rq2, i) <=> Lasting(rq, i)
  BY <1>2 DEF Lasting
<1>4. Running(rq2, R, H, D)
  BY <1>1, <1>2, <1>3 DEF Running, NotLess, Between
<1>5. RequestOK(rq2, R, H, D)
  BY <1>2, <1>4 DEF RequestOK
<1> QED BY <1>5 DEF rq2

\* The queries the endpoints make.
LEMMA QueriesTyped ==
    ASSUME NEW q \in SRQueries
    PROVE  q \in SRQuery /\ Len(q.of) \in Nat /\ Len(q.of) > 0
<1>1. PICK p \in SRPairs :
        q \in {get_metrics(p[1]), stream_ws(p[1]), get_event_count(p[1]), recommend_slo(p[2]),
               query_stream(p[1]), diff_streams(p[1], p[2]), analyze_canary(p[1], p[2]),
               evaluate_slo(p[1], p[2]), detect_anomaly(p[1], p[2]), aggregate_streams(p)}
  BY DEF SRQueries
<1>2. p \in SRStreams \X SRStreams
  BY SRAssumption
<1>3. p = <<p[1], p[2]>> /\ p[1] \in SRStreams /\ p[2] \in SRStreams
  BY <1>2
<1>4. q.of \in {<<p[1]>>, <<p[2]>>, <<p[1], p[2]>>}
  BY <1>1, <1>3 DEF Query, get_metrics, stream_ws, get_event_count, recommend_slo, query_stream,
                    diff_streams, analyze_canary, evaluate_slo, detect_anomaly, aggregate_streams
<1>5. \E of, peers, need : /\ q = [of |-> of, peers |-> peers, need |-> need]
                           /\ peers \in BOOLEAN /\ need \in {"each", "all", "some"}
  BY <1>1 DEF Query, get_metrics, stream_ws, get_event_count, recommend_slo, query_stream,
              diff_streams, analyze_canary, evaluate_slo, detect_anomaly, aggregate_streams
<1>6. q.of \in Seq(SRStreams) /\ Len(q.of) > 0 /\ Len(q.of) \in Nat
  <2>1. CASE q.of = <<p[1]>>
    BY <1>3, <2>1
  <2>2. CASE q.of = <<p[2]>>
    BY <1>3, <2>2
  <2>3. CASE q.of = <<p[1], p[2]>>
    BY <1>3, <2>3
  <2> QED BY <1>4, <2>1, <2>2, <2>3
<1> QED BY <1>5, <1>6 DEF SRQuery

\* A request that has just come.
LEMMA ArrivesOK ==
    ASSUME World(srResident, srHeap, srDisk), NEW q \in SRQueries
    PROVE  RequestOK([SRIdle EXCEPT !.pc = "fetch", !.q = q,
                        !.low = [i \in 1..Len(q.of) |-> SRStored(q.of[i])]],
                     srResident, srHeap, srDisk)
<1> DEFINE low == [i \in 1..Len(q.of) |-> SRStored(q.of[i])]
           rq == [SRIdle EXCEPT !.pc = "fetch", !.q = q, !.low = low]
<1>1. q \in SRQuery /\ Len(q.of) \in Nat /\ Len(q.of) > 0 /\ q.of \in Seq(SRStreams)
  BY QueriesTyped DEF SRQuery
<1>2. \A i \in 1..Len(q.of) : SRHolds(q.of[i], srResident, srHeap, srDisk) \in SRCount
  BY <1>1, HoldsCount
<1>3. low \in Seq(SRCount) /\ Len(low) = Len(q.of)
  BY <1>1, <1>2 DEF SRStored
<1>4. \A i \in 1..Len(q.of) : low[i] = SRHolds(q.of[i], srResident, srHeap, srDisk)
  BY DEF SRStored
<1> HIDE DEF low
<1>5. SRIdle \in SRRequest /\ SRIdle.held = <<>> /\ SRIdle.taken = <<>>
  BY DEF SRIdle, SRRequest
<1>6. rq \in SRRequest
  BY <1>1, <1>3, <1>5 DEF SRRequest
<1>7. /\ rq.q = q /\ rq.low = low /\ rq.held = <<>> /\ rq.taken = <<>> /\ rq.pc = "fetch"
  BY <1>5 DEF SRRequest
<1> HIDE DEF rq
<1>8. \A i \in 1..Len(q.of) : NotLess(rq, i, srResident, srHeap, srDisk)
  BY <1>2, <1>4, <1>7 DEF NotLess, SRCount, SRAbsent
<1>9. Running(rq, srResident, srHeap, srDisk)
  BY <1>1, <1>3, <1>7, <1>8 DEF Running
<1> QED BY <1>6, <1>7, <1>9 DEF RequestOK, rq, low

\* Nobody reads from storage while the lock is free.
LEMMA FreeMeansIdle ==
    ASSUME Loading, srLock = SRFree, NEW r \in SRReaders
    PROVE  srRq[r].pc # "load"
BY SRAssumption DEF Loading, SRFree

\* Every step keeps the requests, the world and the lock as they should be.
LEMMA ReadsStep ==
    ASSUME SRInv, [SRNext]_srVars
    PROVE  SRInv'
<1> DEFINE W == World(srResident, srHeap, srDisk)
           All == \A u \in SRReaders : RequestOK(srRq[u], srResident, srHeap, srDisk)
<1>1. W /\ All /\ Loading /\ DOMAIN srRq = SRReaders
  BY DEF SRInv
<1>2. \A d : Moves(srResident, srHeap, srDisk, srResident', srHeap', srDisk', d) => W'
  BY DEF Moves
<1>3. Moves(srResident, srHeap, srDisk, srResident, srHeap, srDisk, {})
  BY <1>1, MovesNothing
<1> HIDE DEF W, All
<1>4. ASSUME NEW s \in SRStreams, SRIngest(s)
      PROVE  SRInv'
  <2>1. Moves(srResident, srHeap, srDisk, srResident', srHeap', srDisk', {})
    <3>1. CASE srResident[s] # 0
      BY <1>1, <1>4, <3>1, AddMoves DEF SRIngest, W
    <3>2. CASE srResident[s] = 0
      <4> DEFINE n == IF srDisk[s] = SRAbsent THEN 1 ELSE srDisk[s] + 1
      <4>1. n \in Nat /\ srDisk[s] <= n
        BY <1>1 DEF W, World, SRCount, SRAbsent
      <4>2. SRInsert(s, n)
        BY <1>4, <3>2 DEF SRIngest
      <4> HIDE DEF n
      <4> QED BY <1>1, <3>2, <4>1, <4>2, InsertMoves DEF W
    <3> QED BY <3>1, <3>2
  <2>2. UNCHANGED srRq /\ srLock = SRFree
    BY <1>4 DEF SRIngest
  <2>3. All'
    BY <1>1, <2>1, <2>2, RequestStays DEF All, W
  <2>4. Loading'
    BY <1>1, <2>2, FreeMeansIdle DEF Loading
  <2> QED BY <1>1, <1>2, <2>1, <2>2, <2>3, <2>4 DEF SRInv, W, All
<1>5. ASSUME NEW s \in SRStreams, SRDelete(s)
      PROVE  SRInv'
  <2>1. Moves(srResident, srHeap, srDisk, srResident', srHeap', srDisk', {s})
    BY <1>1, <1>5, DeleteMoves DEF W
  <2>2. /\ srRq' = [r \in SRReaders |-> [srRq[r] EXCEPT !.deleted = @ \cup {s}]]
        /\ srLock = SRFree
    BY <1>5 DEF SRDelete
  <2>3. \A r \in SRReaders : srRq'[r] = [srRq[r] EXCEPT !.deleted = @ \cup {s}]
    BY <2>2
  <2>4. ASSUME NEW r \in SRReaders
        PROVE  RequestOK(srRq'[r], srResident', srHeap', srDisk')
    <3>1. RequestOK([srRq[r] EXCEPT !.deleted = @ \cup {s}], srResident', srHeap', srDisk')
      BY <1>1, <2>1, RequestMoves DEF All, W
    <3> QED BY <2>3, <3>1
  <2>5. \A r \in SRReaders : srRq'[r].pc = srRq[r].pc
    BY <1>1, <2>3 DEF All, RequestOK, SRRequest
  <2>6. Loading'
    BY <1>1, <2>2, <2>5, FreeMeansIdle DEF Loading
  <2> QED BY <1>2, <2>1, <2>2, <2>4, <2>6 DEF SRInv, W, All
<1>6. ASSUME NEW r \in SRReaders, UNCHANGED <<srResident, srDisk, srHeap>>,
             UNCHANGED srLock,
             NEW rq, srRq' = [srRq EXCEPT ![r] = rq], rq.pc # "load",
             RequestOK(rq, srResident, srHeap, srDisk)
      PROVE  SRInv'
  <2>1. /\ DOMAIN srRq' = SRReaders /\ srRq'[r] = rq
        /\ \A u \in SRReaders \ {r} : srRq'[u] = srRq[u]
    BY <1>1, <1>6
  <2>2. W' /\ All'
    BY <1>1, <1>6, <2>1 DEF W, All
  <2>3. Loading'
    BY <1>1, <1>6, <2>1 DEF Loading, SRAsked
  <2> QED BY <2>1, <2>2, <2>3 DEF SRInv, W, All
<1>7. ASSUME NEW r \in SRReaders, NEW q \in SRQueries, SRArrive(r, q)
      PROVE  SRInv'
  <2> DEFINE rq == [SRIdle EXCEPT !.pc = "fetch", !.q = q,
                      !.low = [i \in 1..Len(q.of) |-> SRStored(q.of[i])]]
  <2>1. RequestOK(rq, srResident, srHeap, srDisk)
    BY <1>1, ArrivesOK DEF W
  <2>2. rq.pc # "load"
    BY DEF SRIdle
  <2>3. srRq' = [srRq EXCEPT ![r] = rq] /\ UNCHANGED <<srResident, srDisk, srHeap, srLock>>
    BY <1>7 DEF SRArrive
  <2> HIDE DEF rq
  <2> QED BY <1>6, <2>1, <2>2, <2>3
\* What the world is after registry.get gave r an object.
<1>8. ASSUME NEW r \in SRReaders, NEW o \in Nat, srRq[r].pc \in {"fetch", "queue", "load"},
             Moves(srResident, srHeap, srDisk, srResident', srHeap', srDisk', {}),
             Delivers(srRq[r], o, srResident', srHeap', srDisk'), Got(r, o, srHeap'),
             \A u \in SRReaders \ {r} : srRq[u].pc = "load" =>
                srLock' = u /\ srResident'[SRAsked(srRq[u])] = 0
      PROVE  SRInv'
  <2>1. /\ DOMAIN srRq' = SRReaders
        /\ \A u \in SRReaders : RequestOK(srRq'[u], srResident', srHeap', srDisk')
        /\ srRq'[r].pc # "load"
        /\ \A u \in SRReaders \ {r} : srRq'[u] = srRq[u]
    BY <1>8, GotStep
  <2>2. Loading'
    BY <1>8, <2>1 DEF Loading, SRAsked
  <2> QED BY <1>2, <1>8, <2>1, <2>2 DEF SRInv, W
\* A resident stream is handed out at once.
<1>9. ASSUME NEW r \in SRReaders, srRq[r].pc \in {"fetch", "queue"},
             srResident[SRAsked(srRq[r])] # 0, UNCHANGED <<srResident, srDisk, srHeap, srLock>>,
             Got(r, srResident[SRAsked(srRq[r])], srHeap)
      PROVE  SRInv'
  <2> DEFINE s == SRAsked(srRq[r])
  <2>1. s \in SRStreams
    <3>1. Running(srRq[r], srResident, srHeap, srDisk) /\ srRq[r] \in SRRequest
      BY <1>1, <1>9 DEF All, RequestOK
    <3>2. /\ srRq[r].q.of \in Seq(SRStreams) /\ Len(srRq[r].held) \in Nat
          /\ Len(srRq[r].held) < Len(srRq[r].q.of)
      BY <3>1 DEF Running, SRQuery, SRRequest
    <3> QED BY <3>2 DEF SRAsked
  <2>2. srResident[s] \in Nat
    BY <1>1, <2>1 DEF W, World
  <2>3. Delivers(srRq[r], srResident[s], srResident', srHeap', srDisk')
    BY <1>9 DEF Delivers, SRAsked
  <2>4. Moves(srResident, srHeap, srDisk, srResident', srHeap', srDisk', {})
    BY <1>3, <1>9
  <2>5. Got(r, srResident[s], srHeap')
    BY <1>9
  <2>6. \A u \in SRReaders \ {r} : srRq[u].pc = "load" =>
                srLock' = u /\ srResident'[SRAsked(srRq[u])] = 0
    BY <1>1, <1>9 DEF Loading
  <2> HIDE DEF s
  <2> QED BY <1>8, <1>9, <2>2, <2>3, <2>4, <2>5, <2>6
<1>10. ASSUME NEW r \in SRReaders, get(r)
       PROVE  SRInv'
  <2>1. CASE srResident[SRAsked(srRq[r])] # 0
    BY <1>9, <1>10, <2>1 DEF get
  <2>2. CASE srResident[SRAsked(srRq[r])] = 0
    <3>1. /\ srRq' = [srRq EXCEPT ![r].pc = "queue"] /\ srRq[r].pc = "fetch"
          /\ UNCHANGED <<srResident, srDisk, srHeap, srLock>>
      BY <1>10, <2>2 DEF get
    <3>2. RequestOK(srRq[r], srResident, srHeap, srDisk) /\ srRq[r] \in SRRequest
      BY <1>1 DEF All, RequestOK
    <3>3. RequestOK([srRq[r] EXCEPT !.pc = "queue"], srResident, srHeap, srDisk)
      BY <3>1, <3>2, WaitsOK
    <3>4. [srRq[r] EXCEPT !.pc = "queue"].pc # "load"
      BY <3>2 DEF SRRequest
    <3>5. srRq' = [srRq EXCEPT ![r] = [srRq[r] EXCEPT !.pc = "queue"]]
      BY <3>1, Zenon
    <3> QED BY <1>6, <3>1, <3>3, <3>4, <3>5
  <2> QED BY <2>1, <2>2
<1>11. ASSUME NEW r \in SRReaders, get_locked(r)
       PROVE  SRInv'
  <2>1. CASE srResident[SRAsked(srRq[r])] # 0
    BY <1>9, <1>11, <2>1 DEF get_locked
  <2>2. CASE srResident[SRAsked(srRq[r])] = 0
    <3> DEFINE rq == [srRq[r] EXCEPT !.pc = "load"]
    <3>1. /\ srRq' = [srRq EXCEPT ![r].pc = "load"] /\ srRq[r].pc = "queue"
          /\ UNCHANGED <<srResident, srDisk, srHeap>> /\ srLock' = r /\ srLock = SRFree
      BY <1>11, <2>2 DEF get_locked
    <3>2. RequestOK(srRq[r], srResident, srHeap, srDisk)
      BY <1>1 DEF All
    <3>3. RequestOK(rq, srResident, srHeap, srDisk) /\ SRAsked(rq) = SRAsked(srRq[r])
      <4>1. RequestOK([srRq[r] EXCEPT !.pc = "load"], srResident, srHeap, srDisk)
        BY <3>1, <3>2, WaitsOK
      <4>2. SRAsked([srRq[r] EXCEPT !.pc = "load"]) = SRAsked(srRq[r])
        BY <3>2 DEF SRAsked, RequestOK, SRRequest
      <4> QED BY <4>1, <4>2
    <3>4. srRq' = [srRq EXCEPT ![r] = rq]
      BY <3>1, Zenon
    <3> HIDE DEF rq
    <3>5. /\ DOMAIN srRq' = SRReaders /\ srRq'[r] = rq
          /\ \A u \in SRReaders \ {r} : srRq'[u] = srRq[u]
      BY <1>1, <3>4
    <3>6. W' /\ All'
      BY <1>1, <3>1, <3>3, <3>5 DEF W, All
    <3>7. \A u \in SRReaders : srRq[u].pc # "load"
      BY <1>1, <3>1, FreeMeansIdle
    <3>8. Loading'
      BY <2>2, <3>1, <3>3, <3>5, <3>7 DEF Loading
    <3> QED BY <3>5, <3>6, <3>8 DEF SRInv, W, All
  <2> QED BY <2>1, <2>2
<1>12. ASSUME NEW r \in SRReaders, get_loaded(r)
       PROVE  SRInv'
  <2> DEFINE s == SRAsked(srRq[r])
  <2>1. srRq[r].pc = "load" /\ srLock = r /\ srResident[s] = 0
    BY <1>1, <1>12 DEF get_loaded, Loading
  <2>2. s \in SRStreams
    <3>1. Running(srRq[r], srResident, srHeap, srDisk) /\ srRq[r] \in SRRequest
      BY <1>1, <2>1 DEF All, RequestOK
    <3>2. /\ srRq[r].q.of \in Seq(SRStreams) /\ Len(srRq[r].held) \in Nat
          /\ Len(srRq[r].held) < Len(srRq[r].q.of)
      BY <3>1 DEF Running, SRQuery, SRRequest
    <3> QED BY <3>2 DEF SRAsked
  <2>3. \A u \in SRReaders \ {r} : srRq[u].pc # "load"
    BY <1>1, <2>1 DEF Loading
  <2>4. CASE srDisk[s] = SRAbsent
    <3>1. UNCHANGED <<srResident, srDisk, srHeap>> /\ Got(r, 0, srHeap)
      BY <1>12, <2>4 DEF get_loaded
    <3>2. Delivers(srRq[r], 0, srResident', srHeap', srDisk')
      BY <2>1, <2>4, <3>1 DEF Delivers, SRHolds, SRAsked
    <3>3. Moves(srResident, srHeap, srDisk, srResident', srHeap', srDisk', {})
      BY <1>3, <3>1
    <3>4. Got(r, 0, srHeap')
      BY <3>1
    <3> QED BY <1>8, <2>1, <2>3, <3>2, <3>3, <3>4
  <2>5. CASE srDisk[s] # SRAbsent
    <3>1. SRInsert(s, srDisk[s]) /\ Got(r, Len(srHeap) + 1, srHeap')
      BY <1>12, <2>5 DEF get_loaded
    <3>2. srDisk[s] \in Nat /\ srDisk[s] <= srDisk[s] /\ Len(srHeap) + 1 \in Nat \ {0}
      BY <1>1, <2>2, <2>5 DEF W, World, SRCount
    <3>3. /\ Moves(srResident, srHeap, srDisk, srResident', srHeap', srDisk', {})
          /\ srResident'[s] = Len(srHeap) + 1
      BY <1>1, <2>1, <2>2, <3>1, <3>2, InsertMoves DEF W
    <3>4. Delivers(srRq[r], Len(srHeap) + 1, srResident', srHeap', srDisk')
      BY <3>2, <3>3 DEF Delivers, SRAsked
    <3> QED BY <1>8, <2>1, <2>3, <3>1, <3>2, <3>3, <3>4
  <2> QED BY <2>4, <2>5
<1>13. CASE UNCHANGED srVars
  BY <1>13 DEF srVars, SRInv, Loading, SRAsked
<1> QED
  BY <1>4, <1>5, <1>7, <1>10, <1>11, <1>12, <1>13 DEF SRNext

\* Initially nothing is resident and nobody asks.
LEMMA ReadsInit ==
    ASSUME SRInit
    PROVE  SRInv
<1>1. World(srResident, srHeap, srDisk)
  BY DEF SRInit, World, SRCount
<1>2. SRIdle \in SRRequest /\ SRIdle.pc = "idle"
  BY DEF SRIdle, SRRequest
<1>3. RequestOK(SRIdle, srResident, srHeap, srDisk)
  BY <1>2 DEF RequestOK
<1>4. DOMAIN srRq = SRReaders /\ \A r \in SRReaders : srRq[r] = SRIdle
  BY DEF SRInit
<1> QED BY <1>1, <1>2, <1>3, <1>4 DEF SRInv, Loading

\* Whatever is added, evicted, loaded and deleted while a read endpoint
\* collects its streams, its answer lies between what they held when the
\* request came and when it left, and a 404 names a stream that was absent.
\* For any number of streams, requests and events, and any memory limit.
THEOREM ReadsHonest == SRSpec => []SRSafe
<1>1. SRInit => SRInv
  BY ReadsInit
<1>2. SRInv /\ [SRNext]_srVars => SRInv'
  BY ReadsStep
<1>3. SRInv => SRSafe
  <2> SUFFICES ASSUME SRInv, NEW r \in SRReaders, srRq[r].pc = "done"
               PROVE  /\ srRq[r].status = 200 =>
                           \A i \in 1..Len(srRq[r].q.of) :
                              srRq[r].q.of[i] \notin srRq[r].deleted /\ srRq[r].low[i] # SRAbsent =>
                                 /\ srRq[r].low[i] <= srRq[r].taken[i]
                                 /\ srRq[r].taken[i] <= srRq[r].high[i]
                      /\ LET gone == {i \in 1..Len(srRq[r].q.of) :
                                        /\ srRq[r].low[i] = SRAbsent \/ srRq[r].q.of[i] \in srRq[r].deleted
                                        /\ srRq[r].q.peers => SRPeers[srRq[r].q.of[i]] = 0}
                         IN  srRq[r].status = 404 =>
                               IF srRq[r].q.need # "some" THEN gone # {}
                                                          ELSE gone = 1..Len(srRq[r].q.of)
    BY DEF SRSafe, SRFresh, SRTrue404
  <2>1. Answered(srRq[r])
    BY DEF SRInv, RequestOK
  <2> QED BY <2>1 DEF Answered, Lasting
<1> QED
  BY <1>1, <1>2, <1>3, PTL DEF SRSpec

-----------------------------------------------------------------------------
(* RateLimit: the quota in force, quotas, slots and tokens.                 *)

RLSpecification == RLInit /\ [][RLNext]_rlVars

\* What the scan in get_quota computes, as an equation.
Scans(qs, n, f) ==
    f = [i \in 0 .. n |-> IF i = 0 THEN [exact |-> 0, wildcard |-> 0]
                          ELSE QuotaStep(qs, f[i - 1], i)]

\* The equation has a solution for every length of the list: a solution for
\* n - 1 extends to one for n.
LEMMA ScanExists ==
    ASSUME NEW qs, NEW n \in Nat
    PROVE  \E f : Scans(qs, n, f)
<1> DEFINE Bad == {m \in Nat : ~\E f : Scans(qs, m, f)}
<1>1. SUFFICES ASSUME Bad # {} PROVE FALSE
  OBVIOUS
<1>2. PICK m \in Bad : \A y \in Bad : m <= y
  BY <1>1, LeastNatural
<1>3. CASE m = 0
  <2> DEFINE f == [i \in 0 .. m |-> [exact |-> 0, wildcard |-> 0]]
  <2>1. Scans(qs, m, f)
    BY <1>3 DEF Scans
  <2> QED BY <1>2, <2>1
<1>4. CASE m # 0
  <2>1. m \in Nat /\ m - 1 \in Nat /\ ~(m <= m - 1)
    BY <1>2, <1>4
  <2>2. m - 1 \notin Bad
    BY <1>2, <2>1
  <2>3. PICK f : Scans(qs, m - 1, f)
    BY <2>1, <2>2
  <2> DEFINE g == [i \in 0 .. m |-> IF i = m THEN QuotaStep(qs, f[m - 1], m) ELSE f[i]]
  <2>4. \A i \in 0 .. m : g[i] = IF i = 0 THEN [exact |-> 0, wildcard |-> 0]
                                 ELSE QuotaStep(qs, g[i - 1], i)
    <3> SUFFICES ASSUME NEW i \in 0 .. m
                 PROVE  g[i] = IF i = 0 THEN [exact |-> 0, wildcard |-> 0]
                               ELSE QuotaStep(qs, g[i - 1], i)
      OBVIOUS
    <3>1. CASE i = m
      BY <2>1, <3>1, <1>4
    <3>2. CASE i # m
      <4>1. i \in 0 .. m - 1 /\ g[i] = f[i] /\ (i # 0 => i - 1 \in 0 .. m /\ i - 1 # m)
        BY <2>1, <3>2
      <4>2. f[i] = IF i = 0 THEN [exact |-> 0, wildcard |-> 0] ELSE QuotaStep(qs, f[i - 1], i)
        BY <2>3, <4>1 DEF Scans
      <4>3. i # 0 => g[i - 1] = f[i - 1]
        BY <4>1
      <4> QED BY <4>1, <4>2, <4>3
    <3> QED BY <3>1, <3>2
  <2>5. Scans(qs, m, g)
    BY <2>4 DEF Scans
  <2> QED BY <1>2, <2>5
<1> QED BY <1>3, <1>4

\* After i entries the scan holds the first exact one, if there is one, and
\* otherwise the last wildcard.
ScanOK(qs, i, a) ==
    /\ a.exact \in 0 .. i /\ a.wildcard \in 0 .. i
    /\ IF a.exact = 0
       THEN /\ \A j \in 1 .. i : qs[j].namespace # RLSpace
            /\ \A j \in 1 .. i : qs[j].namespace = "*" => j <= a.wildcard
            /\ a.wildcard # 0 => qs[a.wildcard].namespace = "*"
       ELSE /\ qs[a.exact].namespace = RLSpace
            /\ \A j \in 1 .. i : qs[j].namespace = RLSpace => a.exact <= j

\* That is what the scan of get_quota returns.
LEMMA ScanResult ==
    ASSUME NEW qs, Len(qs) \in Nat
    PROVE  ScanOK(qs, Len(qs), QuotaScan(qs))
<1> DEFINE n == Len(qs)
<1>1. PICK f : Scans(qs, n, f) /\ QuotaScan(qs) = f[n]
  <2>1. \E g : g = [i \in 0 .. Len(qs) |-> IF i = 0 THEN [exact |-> 0, wildcard |-> 0]
                                           ELSE QuotaStep(qs, g[i - 1], i)]
    BY ScanExists DEF Scans
  <2> QED BY <2>1, Zenon DEF QuotaScan, Scans
<1> HIDE DEF n
<1>2. /\ n \in Nat /\ f[0] = [exact |-> 0, wildcard |-> 0]
      /\ \A i \in 1 .. n : f[i] = QuotaStep(qs, f[i - 1], i)
  <2>1. \A i \in 0 .. n : f[i] = IF i = 0 THEN [exact |-> 0, wildcard |-> 0]
                                 ELSE QuotaStep(qs, f[i - 1], i)
    BY <1>1 DEF Scans
  <2> QED BY <2>1 DEF n
<1> DEFINE Bad == {i \in 0 .. n : ~ScanOK(qs, i, f[i])}
<1>3. SUFFICES ASSUME Bad # {} PROVE FALSE
  BY <1>1, <1>2 DEF n
<1>4. PICK m \in Bad : \A y \in Bad : m <= y
  <2>1. Bad \in SUBSET Nat
    BY <1>2
  <2> QED BY <1>3, <2>1, LeastNatural
<1>5. m # 0
  BY <1>2, <1>4 DEF ScanOK
<1>6. m \in 1 .. n /\ m - 1 \in 0 .. n /\ ~(m <= m - 1)
  BY <1>2, <1>4, <1>5
<1>7. ScanOK(qs, m - 1, f[m - 1])
  BY <1>4, <1>6
<1> DEFINE a == f[m - 1]
<1>8. f[m] = QuotaStep(qs, a, m)
  BY <1>2, <1>6
<1> HIDE DEF a, Bad
<1>9. \A j \in 1 .. m : j \in 1 .. m - 1 \/ j = m
  BY <1>6
<1>10. ScanOK(qs, m, f[m])
  <2>1. a.exact \in 0 .. m - 1 /\ a.wildcard \in 0 .. m - 1 /\ m \in Nat
    BY <1>6, <1>7 DEF ScanOK, a
  <2>2. CASE a.exact # 0
    <3>1. f[m] = a
      BY <1>8, <2>2 DEF QuotaStep
    <3> QED BY <1>7, <1>9, <2>1, <2>2, <3>1 DEF ScanOK, a
  <2>3. CASE a.exact = 0 /\ qs[m].namespace = RLSpace
    <3>1. f[m].exact = m /\ f[m].wildcard = a.wildcard
      BY <1>8, <2>3 DEF QuotaStep
    <3> QED BY <1>5, <1>7, <1>9, <2>1, <2>3, <3>1 DEF ScanOK, a
  <2>4. CASE a.exact = 0 /\ qs[m].namespace # RLSpace /\ qs[m].namespace = "*"
    <3>1. f[m].exact = 0 /\ f[m].wildcard = m
      BY <1>8, <2>4 DEF QuotaStep
    <3> QED BY <1>7, <1>9, <2>1, <2>4, <3>1 DEF ScanOK, a
  <2>5. CASE a.exact = 0 /\ qs[m].namespace # RLSpace /\ qs[m].namespace # "*"
    <3>1. f[m] = a
      BY <1>8, <2>5 DEF QuotaStep
    <3> QED BY <1>7, <1>9, <2>1, <2>5, <3>1 DEF ScanOK, a
  <2> QED BY <2>2, <2>3, <2>4, <2>5
<1> QED BY <1>4, <1>10 DEF Bad

\* The quota in force is the most specific one, and a valid one.
LEMMA QuotaInForce ==
    ASSUME rlConfig \in RLConfig, Accepted(rlConfig)
    PROVE  RLMostSpecific /\ ValidDefault(RLQuota) /\ Numbers(RLQuota)
<1> DEFINE qs == rlConfig.quotas
           s == QuotaScan(qs)
<1>1. /\ qs \in Seq(ToSet(qs)) /\ Numbers(rlConfig.default) /\ ValidDefault(rlConfig.default)
      /\ \A q \in ToSet(qs) : Numbers(q) /\ ValidDefault(q)
  BY RLAssumption DEF Accepted, ValidQuota
<1>2. /\ Len(qs) \in Nat /\ DOMAIN qs = 1 .. Len(qs)
      /\ \A i \in 1 .. Len(qs) : qs[i] \in ToSet(qs)
  BY <1>1
<1>3. ScanOK(qs, Len(qs), s)
  BY <1>2, ScanResult
<1>4. RLQuota = IF s.exact # 0 THEN qs[s.exact]
                ELSE IF s.wildcard # 0 THEN qs[s.wildcard] ELSE rlConfig.default
  BY DEF RLQuota, get_quota
<1> HIDE DEF qs, s
<1>5. CASE s.exact # 0
  <2>1. s.exact \in 1 .. Len(qs)
    BY <1>2, <1>3, <1>5 DEF ScanOK
  <2> DEFINE exact == {i \in DOMAIN qs : qs[i].namespace = RLSpace}
  <2>2. s.exact \in exact /\ \A j \in exact : s.exact <= j
    BY <1>2, <1>3, <1>5, <2>1 DEF ScanOK
  <2>3. \A i \in exact : (\A j \in exact : i <= j) => i = s.exact
    BY <1>2, <2>1, <2>2
  <2>4. (CHOOSE i \in exact : \A j \in exact : i <= j) = s.exact
    BY <2>2, <2>3, Zenon
  <2> QED BY <1>1, <1>2, <1>4, <1>5, <2>1, <2>2, <2>4 DEF RLMostSpecific, qs
<1>6. CASE s.exact = 0 /\ s.wildcard # 0
  <2>1. s.wildcard \in 1 .. Len(qs)
    BY <1>2, <1>3, <1>6 DEF ScanOK
  <2> DEFINE exact == {i \in DOMAIN qs : qs[i].namespace = RLSpace}
             wild == {i \in DOMAIN qs : qs[i].namespace = "*"}
  <2>2. exact = {} /\ s.wildcard \in wild /\ \A j \in wild : s.wildcard >= j
    BY <1>2, <1>3, <1>6, <2>1 DEF ScanOK
  <2>3. \A i \in wild : (\A j \in wild : i >= j) => i = s.wildcard
    BY <1>2, <2>1, <2>2
  <2>4. (CHOOSE i \in wild : \A j \in wild : i >= j) = s.wildcard
    BY <2>2, <2>3, Zenon
  <2> QED BY <1>1, <1>2, <1>4, <1>6, <2>1, <2>2, <2>4 DEF RLMostSpecific, qs
<1>7. CASE s.exact = 0 /\ s.wildcard = 0
  <2>1. /\ {i \in DOMAIN qs : qs[i].namespace = RLSpace} = {}
        /\ {i \in DOMAIN qs : qs[i].namespace = "*"} = {}
    BY <1>2, <1>3, <1>7 DEF ScanOK
  <2> QED BY <1>1, <1>4, <1>7, <2>1 DEF RLMostSpecific, qs
<1> QED BY <1>5, <1>6, <1>7

\* The validator finds nothing that fails in what the constructors accept.
LEMMA ValidatorAgrees ==
    ASSUME rlConfig \in RLConfig, Accepted(rlConfig)
    PROVE  RLValidatorAgrees
<1>1. /\ Numbers(rlConfig.default) /\ ValidDefault(rlConfig.default)
      /\ \A q \in ToSet(rlConfig.quotas) : Numbers(q) /\ ValidDefault(q)
  BY RLAssumption DEF Accepted, ValidQuota
<1>2. "FAIL" \notin DefaultIssues(rlConfig.default)
  BY <1>1 DEF DefaultIssues, Numbers, ValidDefault
<1>3. \A q \in ToSet(rlConfig.quotas) : "FAIL" \notin SpaceIssues(q)
  BY <1>1 DEF SpaceIssues, Numbers, ValidDefault
<1>4. "FAIL" \notin UNION {SpaceIssues(q) : q \in ToSet(rlConfig.quotas)}
  BY <1>3
<1> QED BY <1>2, <1>4 DEF RLValidatorAgrees, check_rate_limit_config

RLBucketT == [start : Nat, tokens : Nat, last : Nat]
RLCounterT == [start : Nat, hour : Nat, hourStart : Nat, day : Nat, dayStart : Nat]
RLCallT == [pc : {"idle", "quota", "bucket", "rollback", "report"}, tokens : Nat,
            hour : Nat, day : Nat]

RLTypes ==
    /\ rlConfig \in RLConfig /\ Accepted(rlConfig)
    /\ rlBucket \in RLBucketT \cup {RLNone} /\ rlCounter \in RLCounterT \cup {RLNone}
    /\ rlCall \in [RLThread -> RLCallT]
    /\ rlNow \in Nat /\ rlTaken \in Nat /\ rlCrossed \in Nat
    /\ rlGranted \in [hour : Nat, day : Nat]
    /\ \A t \in RLThread : rlCall[t].pc # "idle" => rlBucket # RLNone /\ rlCounter # RLNone

\* What is in the bucket and what was taken is what was added.
TokensOK(b, taken, now) ==
    /\ b.start <= b.last /\ b.last <= now /\ b.tokens <= 2 * RLQuota.burst
    /\ b.tokens + taken <= 2 * RLQuota.burst + RLQuota.rate * (b.last - b.start)

BucketOK == IF rlBucket = RLNone THEN rlTaken = 0 ELSE TokensOK(rlBucket, rlTaken, rlNow)

\* The calls that hold a slot of the hour (the day) that began at `at`.
Holds(call, t) == call[t].pc \in {"bucket", "rollback"}
HourSlots(call, at) == {t \in RLThread : Holds(call, t) /\ call[t].hour = at}
DaySlots(call, at) == {t \in RLThread : Holds(call, t) /\ call[t].day = at}

\* A counter n of a window in which s calls hold slots and g were granted,
\* when x slots were given back late.
WindowOK(s, n, g, quota, x) ==
    /\ s <= g /\ (quota > 0 => n <= quota)
    /\ g <= n + x /\ (x = 0 => g = n)

\* k hours have ended in this day, and each granted no more than its quota.
HoursOf(c, g, k) ==
    /\ g.day <= k * RLQuota.hourly + g.hour
    /\ k = 0 \/ c.dayStart + (k - 1) * RLHour <= c.hourStart

AccountOK(c, g, call, x, now) ==
    /\ c.hourStart <= now /\ c.dayStart <= now /\ c.hourStart < c.dayStart + RLDay
    /\ \A t \in RLThread : Holds(call, t) => /\ call[t].hour <= c.hourStart
                                             /\ call[t].day <= c.dayStart
    /\ WindowOK(Cardinality(HourSlots(call, c.hourStart)), c.hour, g.hour, RLQuota.hourly, x)
    /\ WindowOK(Cardinality(DaySlots(call, c.dayStart)), c.day, g.day, RLQuota.daily, x)
    /\ (x = 0 /\ RLQuota.hourly > 0) => \E k \in Nat : HoursOf(c, g, k)

CountersOK ==
    IF rlCounter = RLNone THEN rlGranted = [hour |-> 0, day |-> 0] /\ rlCrossed = 0
    ELSE AccountOK(rlCounter, rlGranted, rlCall, rlCrossed, rlNow)

RLInv == RLTypes /\ BucketOK /\ CountersOK

\* The numbers of the quota in force.
LEMMA QuotaNumbers ==
    ASSUME RLTypes
    PROVE  /\ RLQuota.rate \in Nat /\ RLQuota.burst \in Nat
           /\ RLQuota.hourly \in Nat /\ RLQuota.daily \in Nat
<1>1. ValidDefault(RLQuota) /\ Numbers(RLQuota)
  BY QuotaInForce DEF RLTypes
<1> QED BY <1>1 DEF ValidDefault, Numbers

\* Sets of request threads are finite.
LEMMA SlotsFinite ==
    ASSUME NEW S \in SUBSET RLThread
    PROVE  IsFiniteSet(S) /\ Cardinality(S) \in Nat
BY RLAssumption, FS_Subset, FS_CardinalityType

\* A call that ends or fails leaves the slots it held, and no other.
LEMMA SlotLeaves ==
    ASSUME NEW call, NEW new, NEW t \in RLThread, NEW at,
           \A u \in RLThread \ {t} : new[u] = call[u], ~Holds(new, t)
    PROVE  /\ Cardinality(HourSlots(new, at)) = Cardinality(HourSlots(call, at))
                - IF Holds(call, t) /\ call[t].hour = at THEN 1 ELSE 0
           /\ Cardinality(DaySlots(new, at)) = Cardinality(DaySlots(call, at))
                - IF Holds(call, t) /\ call[t].day = at THEN 1 ELSE 0
<1> DEFINE H == HourSlots(call, at)
           D == DaySlots(call, at)
<1>1. HourSlots(new, at) = H \ {t} /\ DaySlots(new, at) = D \ {t}
  BY DEF HourSlots, DaySlots, Holds
<1>2. H \in SUBSET RLThread /\ D \in SUBSET RLThread
  BY DEF HourSlots, DaySlots
<1>3. /\ t \in H <=> Holds(call, t) /\ call[t].hour = at
      /\ t \in D <=> Holds(call, t) /\ call[t].day = at
  BY DEF HourSlots, DaySlots
<1> HIDE DEF H, D
<1>4. \A S \in SUBSET RLThread :
        Cardinality(S \ {t}) = Cardinality(S) - IF t \in S THEN 1 ELSE 0
  <2> SUFFICES ASSUME NEW S \in SUBSET RLThread
               PROVE  Cardinality(S \ {t}) = Cardinality(S) - IF t \in S THEN 1 ELSE 0
    OBVIOUS
  <2>1. IsFiniteSet(S) /\ Cardinality(S) \in Nat
    BY SlotsFinite
  <2>2. CASE t \in S
    BY <2>1, <2>2, FS_RemoveElement
  <2>3. CASE t \notin S
    <3>1. S \ {t} = S
      BY <2>3
    <3> QED BY <2>1, <2>3, <3>1, SMTT(60)
  <2> QED BY <2>2, <2>3
<1>5. /\ Cardinality(H \ {t}) = Cardinality(H) - IF t \in H THEN 1 ELSE 0
      /\ Cardinality(D \ {t}) = Cardinality(D) - IF t \in D THEN 1 ELSE 0
  BY <1>2, <1>4
<1>6. Cardinality(HourSlots(new, at)) = Cardinality(H) - IF Holds(call, t) /\ call[t].hour = at THEN 1 ELSE 0
  BY <1>1, <1>3, <1>5
<1>7. Cardinality(DaySlots(new, at)) = Cardinality(D) - IF Holds(call, t) /\ call[t].day = at THEN 1 ELSE 0
  BY <1>1, <1>3, <1>5
<1> QED BY <1>6, <1>7 DEF H, D

\* A call that is admitted takes one slot of the hour and one of the day.
LEMMA SlotEnters ==
    ASSUME NEW call, NEW new, NEW t \in RLThread, NEW hour, NEW day,
           \A u \in RLThread \ {t} : new[u] = call[u], ~Holds(call, t),
           Holds(new, t), new[t].hour = hour, new[t].day = day
    PROVE  /\ Cardinality(HourSlots(new, hour)) = Cardinality(HourSlots(call, hour)) + 1
           /\ Cardinality(DaySlots(new, day)) = Cardinality(DaySlots(call, day)) + 1
<1> DEFINE H == HourSlots(call, hour)
           D == DaySlots(call, day)
<1>1. HourSlots(new, hour) = H \cup {t} /\ DaySlots(new, day) = D \cup {t}
  BY DEF HourSlots, DaySlots, Holds
<1>2. IsFiniteSet(H) /\ IsFiniteSet(D)
  BY SlotsFinite DEF HourSlots, DaySlots
<1>3. t \notin H /\ t \notin D
  BY DEF HourSlots, DaySlots
<1> HIDE DEF H, D
<1>4. Cardinality(H \cup {t}) = Cardinality(H) + 1 /\ Cardinality(D \cup {t}) = Cardinality(D) + 1
  BY <1>2, <1>3, FS_AddElement
<1> QED BY <1>1, <1>4 DEF H, D

\* The numbers of slots held are numbers.
LEMMA SlotNumbers ==
    \A call, at : /\ Cardinality(HourSlots(call, at)) \in Nat
                  /\ Cardinality(DaySlots(call, at)) \in Nat
<1>1. \A call, at : HourSlots(call, at) \in SUBSET RLThread /\ DaySlots(call, at) \in SUBSET RLThread
  BY DEF HourSlots, DaySlots
<1> QED BY <1>1, SlotsFinite

\* What resetting the windows that are over leaves in order.
LEMMA ResetKeeps ==
    ASSUME RLTypes, rlCounter # RLNone,
           AccountOK(rlCounter, rlGranted, rlCall, rlCrossed, rlNow)
    PROVE  /\ _reset_if_needed(rlCounter) \in RLCounterT
           /\ GrantedAfterReset \in [hour : Nat, day : Nat]
           /\ AccountOK(_reset_if_needed(rlCounter), GrantedAfterReset, rlCall, rlCrossed, rlNow)
<1> DEFINE c == _reset_if_needed(rlCounter)
           g == GrantedAfterReset
<1>1. rlCounter \in RLCounterT /\ rlGranted \in [hour : Nat, day : Nat]
      /\ rlNow \in Nat /\ rlCrossed \in Nat /\ rlCall \in [RLThread -> RLCallT]
  BY DEF RLTypes
<1>2. c \in RLCounterT /\ g \in [hour : Nat, day : Nat]
  BY <1>1 DEF _reset_if_needed, GrantedAfterReset, RLCounterT
<1>3. /\ c.hour = IF HourOver(rlCounter) THEN 0 ELSE rlCounter.hour
      /\ c.hourStart = IF HourOver(rlCounter) THEN rlNow ELSE rlCounter.hourStart
      /\ c.day = IF DayOver(rlCounter) THEN 0 ELSE rlCounter.day
      /\ c.dayStart = IF DayOver(rlCounter) THEN rlNow ELSE rlCounter.dayStart
      /\ g.hour = IF HourOver(rlCounter) THEN 0 ELSE rlGranted.hour
      /\ g.day = IF DayOver(rlCounter) THEN 0 ELSE rlGranted.day
  BY DEF _reset_if_needed, GrantedAfterReset
<1> HIDE DEF c, g
<1>4. /\ rlCounter.hour \in Nat /\ rlCounter.hourStart \in Nat
      /\ rlCounter.day \in Nat /\ rlCounter.dayStart \in Nat
      /\ rlGranted.hour \in Nat /\ rlGranted.day \in Nat
      /\ RLHour \in Nat \ {0} /\ RLDay \in Nat \ {0}
      /\ RLQuota.hourly \in Nat /\ RLQuota.daily \in Nat
      /\ \A t \in RLThread : rlCall[t].hour \in Nat /\ rlCall[t].day \in Nat
  BY <1>1, RLAssumption, QuotaNumbers DEF RLCounterT, RLCallT
<1>5. /\ rlCounter.hourStart <= rlNow /\ rlCounter.dayStart <= rlNow
      /\ rlCounter.hourStart < rlCounter.dayStart + RLDay
      /\ \A t \in RLThread : Holds(rlCall, t) => /\ rlCall[t].hour <= rlCounter.hourStart
                                                 /\ rlCall[t].day <= rlCounter.dayStart
  BY DEF AccountOK
<1>6. /\ HourOver(rlCounter) => rlCounter.hourStart + RLHour <= rlNow
      /\ DayOver(rlCounter) <=> rlCounter.dayStart + RLDay <= rlNow
  BY <1>1, <1>4 DEF HourOver, DayOver
<1>7. c.hourStart <= rlNow /\ c.dayStart <= rlNow /\ c.hourStart < c.dayStart + RLDay
      /\ rlCounter.hourStart <= c.hourStart /\ rlCounter.dayStart <= c.dayStart
  BY <1>1, <1>3, <1>4, <1>5, <1>6
<1>8. \A t \in RLThread : Holds(rlCall, t) => /\ rlCall[t].hour <= c.hourStart
                                              /\ rlCall[t].day <= c.dayStart
  BY <1>2, <1>4, <1>5, <1>7 DEF RLCounterT
<1>9. WindowOK(Cardinality(HourSlots(rlCall, c.hourStart)), c.hour, g.hour, RLQuota.hourly, rlCrossed)
  <2>1. CASE HourOver(rlCounter)
    <3>1. \A t \in RLThread : Holds(rlCall, t) => rlCall[t].hour # rlNow
      BY <1>1, <1>4, <1>5, <1>6, <2>1
    <3>2. HourSlots(rlCall, c.hourStart) = {}
      BY <1>3, <2>1, <3>1 DEF HourSlots
    <3>3. Cardinality(HourSlots(rlCall, c.hourStart)) = 0
      BY <3>2, FS_EmptySet
    <3> QED BY <1>1, <1>3, <1>4, <2>1, <3>3 DEF WindowOK
  <2>2. CASE ~HourOver(rlCounter)
    BY <1>3, <2>2 DEF AccountOK
  <2> QED BY <2>1, <2>2
<1>10. WindowOK(Cardinality(DaySlots(rlCall, c.dayStart)), c.day, g.day, RLQuota.daily, rlCrossed)
  <2>1. CASE DayOver(rlCounter)
    <3>1. \A t \in RLThread : Holds(rlCall, t) => rlCall[t].day # rlNow
      BY <1>1, <1>4, <1>5, <1>6, <2>1
    <3>2. DaySlots(rlCall, c.dayStart) = {}
      BY <1>3, <2>1, <3>1 DEF DaySlots
    <3>3. Cardinality(DaySlots(rlCall, c.dayStart)) = 0
      BY <3>2, FS_EmptySet
    <3> QED BY <1>1, <1>3, <1>4, <2>1, <3>3 DEF WindowOK
  <2>2. CASE ~DayOver(rlCounter)
    BY <1>3, <2>2 DEF AccountOK
  <2> QED BY <2>1, <2>2
<1>11. ASSUME rlCrossed = 0, RLQuota.hourly > 0
       PROVE  \E k \in Nat : HoursOf(c, g, k)
  <2>1. CASE DayOver(rlCounter)
    <3>1. g.day = 0 /\ g.hour \in Nat
      BY <1>2, <1>3, <2>1
    <3>2. HoursOf(c, g, 0)
      BY <1>4, <3>1 DEF HoursOf
    <3> QED BY <3>2
  <2>2. CASE ~DayOver(rlCounter) /\ ~HourOver(rlCounter)
    <3>1. c.hourStart = rlCounter.hourStart /\ c.dayStart = rlCounter.dayStart
          /\ g.hour = rlGranted.hour /\ g.day = rlGranted.day
      BY <1>3, <2>2
    <3>2. \E k \in Nat : HoursOf(rlCounter, rlGranted, k)
      BY <1>11 DEF AccountOK
    <3> QED BY <3>1, <3>2 DEF HoursOf
  <2>3. CASE ~DayOver(rlCounter) /\ HourOver(rlCounter)
    <3>1. PICK k \in Nat : HoursOf(rlCounter, rlGranted, k)
      BY <1>11 DEF AccountOK
    <3>2. /\ c.hourStart = rlNow /\ c.dayStart = rlCounter.dayStart
          /\ g.hour = 0 /\ g.day = rlGranted.day
      BY <1>3, <2>3
    <3>3. rlGranted.hour <= RLQuota.hourly
      BY <1>1, <1>4, <1>11 DEF AccountOK, WindowOK
    <3>4. (k + 1) * RLQuota.hourly = k * RLQuota.hourly + RLQuota.hourly
      BY <1>4
    <3>5. k * RLQuota.hourly \in Nat /\ (k + 1) * RLQuota.hourly \in Nat
      BY <1>4
    <3>6. g.day <= (k + 1) * RLQuota.hourly + g.hour
      <4> DEFINE old == k * RLQuota.hourly
                 new == (k + 1) * RLQuota.hourly
      <4>1. rlGranted.day <= old + rlGranted.hour /\ new = old + RLQuota.hourly
            /\ old \in Nat /\ new \in Nat
        BY <3>1, <3>4, <3>5 DEF HoursOf
      <4> HIDE DEF old, new
      <4>2. g.day <= new + g.hour
        BY <1>4, <3>2, <3>3, <4>1
      <4> QED BY <4>2 DEF new
    <3>7. c.dayStart + k * RLHour <= c.hourStart
      <4>1. k = 0 => k * RLHour = 0
        BY <1>4
      <4>2. k * RLHour = (k - 1) * RLHour + RLHour /\ (k - 1) * RLHour \in Int
        BY <1>4
      <4>3. k # 0 => rlCounter.dayStart + (k - 1) * RLHour <= rlCounter.hourStart
        BY <3>1 DEF HoursOf
      <4> QED BY <1>1, <1>4, <1>5, <1>6, <2>3, <3>2, <4>1, <4>2, <4>3
    <3>8. (k + 1) - 1 = k /\ k + 1 \in Nat
      OBVIOUS
    <3>9. HoursOf(c, g, k + 1)
      BY <3>6, <3>7, <3>8 DEF HoursOf
    <3> QED BY <3>8, <3>9
  <2> QED BY <2>1, <2>2, <2>3
<1>12. AccountOK(c, g, rlCall, rlCrossed, rlNow)
  BY <1>7, <1>8, <1>9, <1>10, <1>11 DEF AccountOK
<1> QED BY <1>2, <1>12 DEF c, g

\* One call moves to a new record.
LEMMA CallMoves ==
    ASSUME rlCall \in [RLThread -> RLCallT], NEW t \in RLThread, NEW new \in RLCallT,
           rlCall' = [rlCall EXCEPT ![t] = new]
    PROVE  /\ rlCall' \in [RLThread -> RLCallT] /\ rlCall'[t] = new
           /\ \A u \in RLThread \ {t} : rlCall'[u] = rlCall[u]
OBVIOUS

\* One call moves on and keeps the rest of its record.
LEMMA CallMovesOn ==
    ASSUME rlCall \in [RLThread -> RLCallT], NEW t \in RLThread,
           NEW pc \in {"idle", "quota", "bucket", "rollback", "report"},
           rlCall' = [rlCall EXCEPT ![t].pc = pc]
    PROVE  /\ rlCall' \in [RLThread -> RLCallT] /\ rlCall'[t].pc = pc
           /\ rlCall'[t].hour = rlCall[t].hour /\ rlCall'[t].day = rlCall[t].day
           /\ \A u \in RLThread \ {t} : rlCall'[u] = rlCall[u]
<1> DEFINE new == [rlCall[t] EXCEPT !.pc = pc]
<1>1. rlCall[t] \in RLCallT
  OBVIOUS
<1>2. /\ new \in RLCallT /\ new.pc = pc
      /\ new.hour = rlCall[t].hour /\ new.day = rlCall[t].day
  BY <1>1 DEF RLCallT
<1>3. rlCall' = [rlCall EXCEPT ![t] = new]
  OBVIOUS
<1> HIDE DEF new
<1> QED BY <1>2, <1>3, CallMoves

\* The account stays in order when a call leaves its slots, without a trace.
LEMMA AccountLeaves ==
    ASSUME NEW c \in RLCounterT, NEW g \in [hour : Nat, day : Nat], NEW x \in Nat, NEW now,
           NEW call, NEW new, NEW t \in RLThread,
           \A u \in RLThread \ {t} : new[u] = call[u], ~Holds(new, t),
           AccountOK(c, g, call, x, now)
    PROVE  AccountOK(c, g, new, x, now)
<1> DEFINE h == Cardinality(HourSlots(call, c.hourStart))
           hn == Cardinality(HourSlots(new, c.hourStart))
           d == Cardinality(DaySlots(call, c.dayStart))
           dn == Cardinality(DaySlots(new, c.dayStart))
<1>1. h \in Nat /\ hn \in Nat /\ d \in Nat /\ dn \in Nat
  BY SlotNumbers
<1>2. (hn = h \/ hn = h - 1) /\ (dn = d \/ dn = d - 1)
  <2>1. hn = h - IF Holds(call, t) /\ call[t].hour = c.hourStart THEN 1 ELSE 0
    BY SlotLeaves
  <2>2. dn = d - IF Holds(call, t) /\ call[t].day = c.dayStart THEN 1 ELSE 0
    <3> DEFINE at == c.dayStart
    <3>1. Cardinality(DaySlots(new, at)) = Cardinality(DaySlots(call, at))
            - IF Holds(call, t) /\ call[t].day = at THEN 1 ELSE 0
      <4> HIDE DEF at
      <4> QED BY SlotLeaves
    <3> QED BY <3>1
  <2> HIDE DEF h, hn, d, dn
  <2> QED BY <1>1, <2>1, <2>2
<1>3. /\ WindowOK(h, c.hour, g.hour, RLQuota.hourly, x)
      /\ WindowOK(d, c.day, g.day, RLQuota.daily, x)
  BY DEF AccountOK
<1>4. /\ WindowOK(hn, c.hour, g.hour, RLQuota.hourly, x)
      /\ WindowOK(dn, c.day, g.day, RLQuota.daily, x)
  <2> HIDE DEF h, hn, d, dn
  <2>1. g.hour \in Nat /\ g.day \in Nat
    OBVIOUS
  <2> QED BY <1>1, <1>2, <1>3, <2>1 DEF WindowOK
<1>5. \A u \in RLThread : Holds(new, u) => Holds(call, u) /\ new[u] = call[u]
  BY DEF Holds
<1> QED BY <1>4, <1>5 DEF AccountOK

\* The account depends on the slots of the calls only, and time may pass.
LEMMA AccountStays ==
    ASSUME NEW c \in RLCounterT, NEW g, NEW x, NEW now \in Nat, NEW later \in Nat, now <= later,
           NEW call, NEW new,
           \A u \in RLThread : /\ Holds(new, u) <=> Holds(call, u)
                               /\ new[u].hour = call[u].hour /\ new[u].day = call[u].day,
           AccountOK(c, g, call, x, now)
    PROVE  AccountOK(c, g, new, x, later)
<1>1. \A at : HourSlots(new, at) = HourSlots(call, at) /\ DaySlots(new, at) = DaySlots(call, at)
  BY DEF HourSlots, DaySlots
<1>2. c.hourStart <= later /\ c.dayStart <= later
  BY DEF AccountOK, RLCounterT
<1>3. \A u \in RLThread : Holds(new, u) => new[u].hour <= c.hourStart /\ new[u].day <= c.dayStart
  BY DEF AccountOK
<1> QED BY <1>1, <1>2, <1>3 DEF AccountOK

\* A refilled bucket has no more than was added to it.
LEMMA RefillKeeps ==
    ASSUME RLTypes, rlBucket # RLNone, TokensOK(rlBucket, rlTaken, rlNow)
    PROVE  /\ _refill(rlBucket) \in RLBucketT /\ _refill(rlBucket) # RLNone
           /\ TokensOK(_refill(rlBucket), rlTaken, rlNow)
<1> DEFINE b == _refill(rlBucket)
           rate == RLQuota.rate
           full == 2 * RLQuota.burst
<1>1. /\ rlBucket \in RLBucketT /\ rlNow \in Nat /\ rlTaken \in Nat
  BY DEF RLTypes
<1>2. rate \in Nat /\ full \in Nat
  BY QuotaNumbers
<1>3. rlBucket.start \in Nat /\ rlBucket.tokens \in Nat /\ rlBucket.last \in Nat
  BY <1>1 DEF RLBucketT
<1> DEFINE added == (rlNow - rlBucket.last) * rate
<1>4. b = [start |-> rlBucket.start, last |-> rlNow,
           tokens |-> IF rlBucket.tokens + added > full THEN full ELSE rlBucket.tokens + added]
  BY DEF _refill
<1>5. /\ rlBucket.start <= rlBucket.last /\ rlBucket.last <= rlNow /\ rlBucket.tokens <= full
      /\ rlBucket.tokens + rlTaken <= full + rate * (rlBucket.last - rlBucket.start)
  BY DEF TokensOK
<1>6. added \in Nat
  BY <1>1, <1>2, <1>3, <1>5
<1>7. rate * (rlNow - rlBucket.start) = rate * (rlBucket.last - rlBucket.start) + added
  BY <1>1, <1>2, <1>3
<1>8. rate * (rlBucket.last - rlBucket.start) \in Int /\ rate * (rlNow - rlBucket.start) \in Int
  BY <1>1, <1>2, <1>3
<1> DEFINE before == rate * (rlBucket.last - rlBucket.start)
           after == rate * (rlNow - rlBucket.start)
<1>9. after = before + added /\ before \in Int /\ after \in Int
      /\ rlBucket.tokens + rlTaken <= full + before
  BY <1>5, <1>7, <1>8
<1> HIDE DEF b, added, before, after, rate, full
<1>10. b.start = rlBucket.start /\ b.last = rlNow
  BY <1>4
<1>11. b.tokens \in Nat /\ b.tokens <= full /\ b.tokens + rlTaken <= full + after
  BY <1>1, <1>2, <1>3, <1>4, <1>6, <1>9
<1>12. b \in RLBucketT
  BY <1>1, <1>3, <1>4, <1>10, <1>11 DEF RLBucketT
<1>13. TokensOK(b, rlTaken, rlNow)
  BY <1>1, <1>3, <1>5, <1>10, <1>11 DEF TokensOK, full, after, rate
<1>14. b # RLNone
  BY <1>3, <1>10 DEF RLNone
<1> QED BY <1>12, <1>13, <1>14 DEF b

\* No counter is the missing one.
LEMMA SomeCounter ==
    /\ \A c \in RLCounterT : c # RLNone
    /\ \A b \in RLBucketT : b # RLNone
<1>1. \A c \in RLCounterT : c.start \in Nat
  BY DEF RLCounterT
<1>2. \A b \in RLBucketT : b.start \in Nat
  BY DEF RLBucketT
<1>3. RLNone.start = -1
  BY DEF RLNone
<1> QED BY <1>1, <1>2, <1>3

\* The bucket and the counter are looked up, and made when they are missing.
LEMMA LookupStep ==
    ASSUME RLInv, NEW t \in RLThread, NEW n \in RLTokens, Lookup(t, n)
    PROVE  RLInv'
<1>1. /\ rlCall[t].pc = "idle" /\ UNCHANGED <<rlConfig, rlNow, rlGranted, rlTaken, rlCrossed>>
      /\ rlCall' = [rlCall EXCEPT ![t] = [pc |-> "quota", tokens |-> n, hour |-> 0, day |-> 0]]
  BY DEF Lookup
<1>2. RLTypes /\ BucketOK /\ CountersOK
  BY DEF RLInv
<1>3. rlNow \in Nat /\ rlCall \in [RLThread -> RLCallT]
  BY <1>2 DEF RLTypes
<1>4. [pc |-> "quota", tokens |-> n, hour |-> 0, day |-> 0] \in RLCallT
  BY RLAssumption DEF RLCallT
<1>5. /\ rlCall' \in [RLThread -> RLCallT] /\ rlCall'[t].pc = "quota"
      /\ \A u \in RLThread \ {t} : rlCall'[u] = rlCall[u]
  BY <1>1, <1>3, <1>4, CallMoves
<1>6. RLQuota' = RLQuota
  BY <1>1 DEF RLQuota
<1>7. NewBucket \in RLBucketT /\ NewCounter \in RLCounterT
  BY <1>2, <1>3, QuotaNumbers DEF NewBucket, NewCounter, RLBucketT, RLCounterT
<1>8. rlBucket' \in RLBucketT /\ rlCounter' \in RLCounterT
      /\ rlBucket' # RLNone /\ rlCounter' # RLNone
  BY <1>2, <1>7, SomeCounter DEF Lookup, RLTypes
<1>9. RLTypes'
  BY <1>1, <1>2, <1>5, <1>8 DEF RLTypes
<1>10. TokensOK(rlBucket', rlTaken, rlNow)
  <2>1. CASE rlBucket = RLNone
    <3>1. rlBucket' = NewBucket /\ rlTaken = 0
      BY <1>2, <2>1 DEF Lookup, BucketOK
    <3>2. RLQuota.rate * (rlNow - rlNow) = 0 /\ RLQuota.burst \in Nat
      BY <1>2, <1>3, QuotaNumbers
    <3> QED BY <1>3, <3>1, <3>2 DEF TokensOK, NewBucket
  <2>2. CASE rlBucket # RLNone
    BY <1>2, <2>2 DEF Lookup, BucketOK
  <2> QED BY <2>1, <2>2
<1>11. AccountOK(rlCounter', rlGranted, rlCall', rlCrossed, rlNow)
  <2>1. CASE rlCounter = RLNone
    <3>1. rlCounter' = NewCounter /\ rlGranted = [hour |-> 0, day |-> 0] /\ rlCrossed = 0
      BY <1>2, <2>1 DEF Lookup, CountersOK
    <3>2. \A u \in RLThread : ~Holds(rlCall', u)
      BY <1>2, <1>5, <2>1 DEF RLTypes, Holds
    <3>3. \A at : HourSlots(rlCall', at) = {} /\ DaySlots(rlCall', at) = {}
      BY <3>2 DEF HourSlots, DaySlots
    <3>4. Cardinality({}) = 0
      BY FS_EmptySet
    <3>5. /\ RLQuota.hourly \in Nat /\ RLQuota.daily \in Nat /\ RLDay \in Nat \ {0}
      BY <1>2, QuotaNumbers, RLAssumption
    <3>6. /\ NewCounter.hour = 0 /\ NewCounter.day = 0 /\ NewCounter.hourStart = rlNow
          /\ NewCounter.dayStart = rlNow
      BY DEF NewCounter
    <3>7. HoursOf(NewCounter, rlGranted, 0)
      BY <3>1, <3>5 DEF HoursOf
    <3>8. WindowOK(0, 0, 0, RLQuota.hourly, 0) /\ WindowOK(0, 0, 0, RLQuota.daily, 0)
      BY <3>5 DEF WindowOK
    <3>9. rlNow < rlNow + RLDay
      BY <1>3, <3>5
    <3> QED BY <1>3, <3>1, <3>2, <3>3, <3>4, <3>6, <3>7, <3>8, <3>9 DEF AccountOK
  <2>2. CASE rlCounter # RLNone
    <3>1. rlCounter' = rlCounter /\ AccountOK(rlCounter, rlGranted, rlCall, rlCrossed, rlNow)
      BY <1>2, <2>2 DEF Lookup, CountersOK
    <3>2. ~Holds(rlCall', t)
      BY <1>5 DEF Holds
    <3>3. rlGranted \in [hour : Nat, day : Nat] /\ rlCrossed \in Nat
      BY <1>2 DEF RLTypes
    <3> QED BY <1>5, <1>8, <3>1, <3>2, <3>3, AccountLeaves
  <2> QED BY <2>1, <2>2
<1>12. BucketOK'
  BY <1>1, <1>6, <1>8, <1>10 DEF BucketOK, TokensOK
<1>13. CountersOK'
  BY <1>1, <1>6, <1>8, <1>11 DEF CountersOK, AccountOK, HoursOf
<1> QED BY <1>9, <1>12, <1>13 DEF RLInv

\* A refused call leaves the counters as the reset made them; an admitted one
\* takes a slot of the hour and of the day, which were not full.
LEMMA CheckStep ==
    ASSUME RLInv, NEW t \in RLThread, check_and_increment(t)
    PROVE  RLInv'
<1> DEFINE c == _reset_if_needed(rlCounter)
           g == GrantedAfterReset
<1>1. /\ rlCall[t].pc = "quota" /\ UNCHANGED <<rlConfig, rlBucket, rlNow, rlTaken, rlCrossed>>
  BY DEF check_and_increment
<1>2. RLTypes /\ BucketOK /\ CountersOK
  BY DEF RLInv
<1>3. rlNow \in Nat /\ rlCrossed \in Nat /\ rlCall \in [RLThread -> RLCallT]
      /\ rlCounter # RLNone /\ rlBucket # RLNone
  BY <1>1, <1>2 DEF RLTypes
<1>4. /\ c \in RLCounterT /\ g \in [hour : Nat, day : Nat]
      /\ AccountOK(c, g, rlCall, rlCrossed, rlNow)
  BY <1>2, <1>3, ResetKeeps DEF CountersOK
<1>5. RLQuota' = RLQuota
  BY <1>1 DEF RLQuota
<1>6. BucketOK'
  BY <1>1, <1>2, <1>5 DEF BucketOK, TokensOK
<1>7. ~Holds(rlCall, t) /\ rlCall[t] \in RLCallT
  BY <1>1, <1>3 DEF Holds
<1>8. \/ /\ rlCounter' = c /\ rlGranted' = g /\ rlCall' = [rlCall EXCEPT ![t].pc = "report"]
      \/ /\ ~QuotaFull(c)
         /\ rlCounter' = [c EXCEPT !.hour = @ + 1, !.day = @ + 1]
         /\ rlGranted' = [hour |-> g.hour + 1, day |-> g.day + 1]
         /\ rlCall' = [rlCall EXCEPT ![t] = [pc |-> "bucket", tokens |-> rlCall[t].tokens,
                                             hour |-> c.hourStart, day |-> c.dayStart]]
  BY DEF check_and_increment
<1> HIDE DEF c, g
<1>9. CASE /\ rlCounter' = c /\ rlGranted' = g /\ rlCall' = [rlCall EXCEPT ![t].pc = "report"]
  <2>1. /\ rlCall' \in [RLThread -> RLCallT] /\ rlCall'[t].pc = "report"
        /\ \A u \in RLThread \ {t} : rlCall'[u] = rlCall[u]
    BY <1>3, <1>9, CallMovesOn
  <2>2. ~Holds(rlCall', t)
    BY <2>1 DEF Holds
  <2>3. AccountOK(c, g, rlCall', rlCrossed, rlNow)
    BY <1>3, <1>4, <2>1, <2>2, AccountLeaves
  <2>4. rlCounter' # RLNone
    BY <1>4, <1>9, SomeCounter
  <2>5. RLTypes'
    BY <1>1, <1>2, <1>3, <1>4, <1>9, <2>1, <2>4 DEF RLTypes
  <2>6. CountersOK'
    BY <1>1, <1>5, <1>9, <2>3, <2>4 DEF CountersOK, AccountOK, HoursOf
  <2> QED BY <1>6, <2>5, <2>6 DEF RLInv
<1>10. CASE /\ ~QuotaFull(c)
            /\ rlCounter' = [c EXCEPT !.hour = @ + 1, !.day = @ + 1]
            /\ rlGranted' = [hour |-> g.hour + 1, day |-> g.day + 1]
            /\ rlCall' = [rlCall EXCEPT ![t] = [pc |-> "bucket", tokens |-> rlCall[t].tokens,
                                                hour |-> c.hourStart, day |-> c.dayStart]]
  <2> DEFINE new == [pc |-> "bucket", tokens |-> rlCall[t].tokens,
                     hour |-> c.hourStart, day |-> c.dayStart]
  <2>1. new \in RLCallT
    BY <1>4, <1>7 DEF RLCallT, RLCounterT
  <2>2. new.pc = "bucket" /\ new.hour = c.hourStart /\ new.day = c.dayStart
    OBVIOUS
  <2> HIDE DEF new
  <2>3. /\ rlCall' \in [RLThread -> RLCallT] /\ rlCall'[t] = new
        /\ \A u \in RLThread \ {t} : rlCall'[u] = rlCall[u]
    BY <1>3, <1>10, <2>1, CallMoves DEF new
  <2>4. Holds(rlCall', t)
    BY <2>2, <2>3 DEF Holds
  <2>5. /\ c.hour \in Nat /\ c.day \in Nat /\ c.hourStart \in Nat /\ c.dayStart \in Nat
        /\ g.hour \in Nat /\ g.day \in Nat
    BY <1>4 DEF RLCounterT
  <2>6. /\ rlCounter' \in RLCounterT
        /\ rlCounter'.hour = c.hour + 1 /\ rlCounter'.day = c.day + 1
        /\ rlCounter'.hourStart = c.hourStart /\ rlCounter'.dayStart = c.dayStart
    <3> DEFINE hour == c.hour + 1
               day == c.day + 1
    <3>1. hour \in Nat /\ day \in Nat /\ rlCounter' = [c EXCEPT !.hour = hour, !.day = day]
      BY <1>10, <2>5
    <3> HIDE DEF hour, day
    <3>2. /\ rlCounter' \in RLCounterT /\ rlCounter'.hour = hour /\ rlCounter'.day = day
          /\ rlCounter'.hourStart = c.hourStart /\ rlCounter'.dayStart = c.dayStart
      BY <1>4, <3>1 DEF RLCounterT
    <3> QED BY <3>2 DEF hour, day
  <2>7. /\ rlGranted' \in [hour : Nat, day : Nat]
        /\ rlGranted'.hour = g.hour + 1 /\ rlGranted'.day = g.day + 1
    BY <1>10, <2>5
  <2>8. rlCounter' # RLNone
    BY <2>6, SomeCounter
  <2>9. RLTypes'
    BY <1>1, <1>2, <1>3, <2>3, <2>6, <2>7, <2>8 DEF RLTypes
  <2>10. RLQuota.hourly \in Nat /\ RLQuota.daily \in Nat
    BY <1>2, QuotaNumbers
  <2> DEFINE h == Cardinality(HourSlots(rlCall, c.hourStart))
             d == Cardinality(DaySlots(rlCall, c.dayStart))
  <2>11. /\ Cardinality(HourSlots(rlCall', c.hourStart)) = h + 1
         /\ Cardinality(DaySlots(rlCall', c.dayStart)) = d + 1
    BY <1>7, <2>2, <2>3, <2>4, SlotEnters
  <2>12. h \in Nat /\ d \in Nat
    BY SlotNumbers
  <2>13. /\ WindowOK(h, c.hour, g.hour, RLQuota.hourly, rlCrossed)
         /\ WindowOK(d, c.day, g.day, RLQuota.daily, rlCrossed)
    BY <1>4 DEF AccountOK
  <2>14. /\ RLQuota.hourly > 0 => c.hour < RLQuota.hourly
         /\ RLQuota.daily > 0 => c.day < RLQuota.daily
    BY <1>10, <2>5, <2>10 DEF QuotaFull
  <2> HIDE DEF h, d
  <2>15. /\ WindowOK(h + 1, c.hour + 1, g.hour + 1, RLQuota.hourly, rlCrossed)
         /\ WindowOK(d + 1, c.day + 1, g.day + 1, RLQuota.daily, rlCrossed)
    BY <1>3, <2>5, <2>10, <2>12, <2>13, <2>14 DEF WindowOK
  <2>16. \A u \in RLThread : Holds(rlCall', u) => /\ rlCall'[u].hour <= c.hourStart
                                                  /\ rlCall'[u].day <= c.dayStart
    <3>1. \A u \in RLThread : Holds(rlCall, u) => /\ rlCall[u].hour <= c.hourStart
                                                  /\ rlCall[u].day <= c.dayStart
      BY <1>4 DEF AccountOK
    <3>2. \A u \in RLThread \ {t} : Holds(rlCall', u) <=> Holds(rlCall, u)
      BY <2>3 DEF Holds
    <3>3. rlCall'[t].hour <= c.hourStart /\ rlCall'[t].day <= c.dayStart
      BY <2>2, <2>3, <2>5
    <3> QED BY <2>3, <3>1, <3>2, <3>3
  <2>17. ASSUME rlCrossed = 0, RLQuota.hourly > 0
         PROVE  \E k \in Nat : HoursOf(rlCounter', rlGranted', k)
    <3>1. PICK k \in Nat : HoursOf(c, g, k)
      BY <1>4, <2>17 DEF AccountOK
    <3> DEFINE ended == k * RLQuota.hourly
    <3>2. ended \in Nat /\ g.day <= ended + g.hour
      BY <2>10, <3>1 DEF HoursOf
    <3> HIDE DEF ended
    <3>3. g.day + 1 <= ended + (g.hour + 1)
      BY <2>5, <3>2
    <3>4. HoursOf(rlCounter', rlGranted', k)
      BY <2>6, <2>7, <3>1, <3>3 DEF HoursOf, ended
    <3> QED BY <3>4
  <2>18. c.hourStart <= rlNow /\ c.dayStart <= rlNow /\ c.hourStart < c.dayStart + RLDay
    BY <1>4 DEF AccountOK
  <2>19. AccountOK(rlCounter', rlGranted', rlCall', rlCrossed, rlNow)
    BY <2>6, <2>7, <2>11, <2>15, <2>16, <2>17, <2>18 DEF AccountOK
  <2>20. CountersOK'
    BY <1>1, <1>5, <2>8, <2>19 DEF CountersOK, AccountOK, HoursOf
  <2> QED BY <1>6, <2>9, <2>20 DEF RLInv
<1> QED BY <1>8, <1>9, <1>10

\* Tokens are taken from the refilled bucket, or the call goes on to give its
\* slot back.
LEMMA ConsumeStep ==
    ASSUME RLInv, NEW t \in RLThread, consume(t)
    PROVE  RLInv'
<1> DEFINE b == _refill(rlBucket)
           want == 2 * rlCall[t].tokens
<1>1. /\ rlCall[t].pc = "bucket" /\ UNCHANGED <<rlConfig, rlCounter, rlNow, rlGranted, rlCrossed>>
      /\ rlBucket' = IF b.tokens >= want THEN [b EXCEPT !.tokens = @ - want] ELSE b
      /\ rlTaken' = IF b.tokens >= want THEN rlTaken + want ELSE rlTaken
      /\ rlCall' = [rlCall EXCEPT ![t].pc = IF b.tokens >= want THEN "report" ELSE "rollback"]
  BY DEF consume
<1>2. RLTypes /\ BucketOK /\ CountersOK
  BY DEF RLInv
<1>3. rlNow \in Nat /\ rlCrossed \in Nat /\ rlTaken \in Nat /\ rlCall \in [RLThread -> RLCallT]
      /\ rlCounter # RLNone /\ rlBucket # RLNone /\ rlGranted \in [hour : Nat, day : Nat]
      /\ rlCounter \in RLCounterT
  BY <1>1, <1>2 DEF RLTypes
<1>4. b \in RLBucketT /\ TokensOK(b, rlTaken, rlNow)
  BY <1>2, <1>3, RefillKeeps DEF BucketOK
<1>5. rlCall[t] \in RLCallT /\ want \in Nat
  BY <1>3 DEF RLCallT
<1>6. RLQuota' = RLQuota
  BY <1>1 DEF RLQuota
<1> DEFINE pc == IF b.tokens >= want THEN "report" ELSE "rollback"
<1>7. /\ rlCall' \in [RLThread -> RLCallT] /\ rlCall'[t].pc = pc
      /\ rlCall'[t].hour = rlCall[t].hour /\ rlCall'[t].day = rlCall[t].day
      /\ \A u \in RLThread \ {t} : rlCall'[u] = rlCall[u]
  <2>1. rlCall' = [rlCall EXCEPT ![t].pc = pc]
    BY <1>1
  <2>2. pc \in {"idle", "quota", "bucket", "rollback", "report"}
    OBVIOUS
  <2> HIDE DEF pc
  <2> QED BY <1>3, <2>1, <2>2, CallMovesOn
<1> HIDE DEF b, want
<1>8. rlBucket' \in RLBucketT /\ rlTaken' \in Nat /\ TokensOK(rlBucket', rlTaken', rlNow)
  <2>1. CASE b.tokens >= want
    <3>1. rlBucket' = [b EXCEPT !.tokens = b.tokens - want] /\ rlTaken' = rlTaken + want
      BY <1>1, <2>1
    <3>2. b.tokens - want \in Nat /\ b.tokens \in Nat
      BY <1>4, <1>5, <2>1 DEF RLBucketT
    <3>3. /\ rlBucket' \in RLBucketT /\ rlBucket'.tokens = b.tokens - want
          /\ rlBucket'.start = b.start /\ rlBucket'.last = b.last
      BY <1>4, <3>1, <3>2 DEF RLBucketT
    <3>4. rlBucket'.tokens + rlTaken' = b.tokens + rlTaken /\ rlTaken' \in Nat
      BY <1>3, <1>5, <3>1, <3>2, <3>3
    <3>5. RLQuota.burst \in Nat
      BY <1>2, QuotaNumbers
    <3>6. rlBucket'.tokens <= 2 * RLQuota.burst
      BY <1>4, <1>5, <3>2, <3>3, <3>5 DEF TokensOK
    <3> QED BY <1>4, <3>3, <3>4, <3>6 DEF TokensOK
  <2>2. CASE ~(b.tokens >= want)
    BY <1>1, <1>3, <1>4, <2>2
  <2> QED BY <2>1, <2>2
<1>9. rlBucket' # RLNone
  BY <1>8, SomeCounter
<1>10. RLTypes'
  BY <1>1, <1>2, <1>3, <1>7, <1>8, <1>9 DEF RLTypes
<1>11. BucketOK'
  BY <1>1, <1>6, <1>8, <1>9 DEF BucketOK, TokensOK
<1>12. AccountOK(rlCounter, rlGranted, rlCall', rlCrossed, rlNow)
  <2>1. AccountOK(rlCounter, rlGranted, rlCall, rlCrossed, rlNow)
    BY <1>2, <1>3 DEF CountersOK
  <2>2. CASE pc = "report"
    <3>1. ~Holds(rlCall', t)
      BY <1>7, <2>2 DEF Holds
    <3> QED BY <1>3, <1>7, <2>1, <3>1, AccountLeaves
  <2>3. CASE pc = "rollback"
    <3>1. \A u \in RLThread : /\ Holds(rlCall', u) <=> Holds(rlCall, u)
                              /\ rlCall'[u].hour = rlCall[u].hour /\ rlCall'[u].day = rlCall[u].day
      BY <1>1, <1>7, <2>3 DEF Holds
    <3> QED BY <1>3, <2>1, <3>1, AccountStays
  <2> QED BY <2>2, <2>3
<1>13. CountersOK'
  BY <1>1, <1>3, <1>6, <1>12 DEF CountersOK, AccountOK, HoursOf
<1> QED BY <1>10, <1>11, <1>13 DEF RLInv

\* One window of the counter when a slot is given back, to the window it was
\* taken from or to a later one.
LEMMA GiveBack ==
    ASSUME NEW s \in Nat, NEW left \in Nat, NEW n \in Nat, NEW g \in Nat, NEW quota \in Nat,
           NEW x \in Nat, NEW late \in Nat, NEW same \in BOOLEAN,
           WindowOK(s, n, g, quota, x), left = s - (IF same THEN 1 ELSE 0),
           late = x \/ late = x + 1, ~same => late = x + 1
    PROVE  /\ g - (IF same THEN 1 ELSE 0) \in Nat /\ (IF n > 0 THEN n - 1 ELSE n) \in Nat
           /\ WindowOK(left, IF n > 0 THEN n - 1 ELSE n, g - (IF same THEN 1 ELSE 0), quota, late)
<1>1. CASE same
  <2>1. left = s - 1 /\ s >= 1 /\ g >= 1
    BY <1>1 DEF WindowOK
  <2>2. g - (IF same THEN 1 ELSE 0) = g - 1
    BY <1>1
  <2> QED BY <2>1, <2>2 DEF WindowOK
<1>2. CASE ~same
  <2>1. left = s /\ late = x + 1 /\ g - (IF same THEN 1 ELSE 0) = g
    BY <1>2
  <2> QED BY <2>1 DEF WindowOK
<1> QED BY <1>1, <1>2

\* The slot of a call without tokens is given back.
LEMMA DecrementStep ==
    ASSUME RLInv, NEW t \in RLThread, decrement(t)
    PROVE  RLInv'
<1> DEFINE c == rlCounter
           g == rlGranted
           hour == IF c.hour > 0 THEN c.hour - 1 ELSE c.hour
           day == IF c.day > 0 THEN c.day - 1 ELSE c.day
           sameHour == rlCall[t].hour = c.hourStart
           sameDay == rlCall[t].day = c.dayStart
           gHour == g.hour - (IF sameHour THEN 1 ELSE 0)
           gDay == g.day - (IF sameDay THEN 1 ELSE 0)
           late == rlCrossed + (IF sameHour /\ sameDay THEN 0 ELSE 1)
<1>1. /\ rlCall[t].pc = "rollback" /\ UNCHANGED <<rlConfig, rlBucket, rlNow, rlTaken>>
      /\ rlCounter' = [c EXCEPT !.hour = hour, !.day = day]
      /\ rlGranted' = [hour |-> gHour, day |-> gDay] /\ rlCrossed' = late
      /\ rlCall' = [rlCall EXCEPT ![t].pc = "report"]
  BY DEF decrement, DecrementBody
<1>2. RLTypes /\ BucketOK /\ CountersOK
  BY DEF RLInv
<1>3. rlNow \in Nat /\ rlCrossed \in Nat /\ rlCall \in [RLThread -> RLCallT]
      /\ rlCounter # RLNone /\ rlBucket # RLNone /\ g \in [hour : Nat, day : Nat]
      /\ c \in RLCounterT
  BY <1>1, <1>2 DEF RLTypes
<1>4. AccountOK(c, g, rlCall, rlCrossed, rlNow)
  BY <1>2, <1>3 DEF CountersOK
<1>5. RLQuota' = RLQuota
  BY <1>1 DEF RLQuota
<1>6. BucketOK'
  BY <1>1, <1>2, <1>5 DEF BucketOK, TokensOK
<1>7. /\ rlCall' \in [RLThread -> RLCallT] /\ rlCall'[t].pc = "report"
      /\ \A u \in RLThread \ {t} : rlCall'[u] = rlCall[u]
  BY <1>1, <1>3, CallMovesOn
<1>8. ~Holds(rlCall', t) /\ Holds(rlCall, t)
  BY <1>1, <1>7 DEF Holds
<1>9. /\ c.hour \in Nat /\ c.day \in Nat /\ c.hourStart \in Nat /\ c.dayStart \in Nat
      /\ g.hour \in Nat /\ g.day \in Nat
      /\ RLQuota.hourly \in Nat /\ RLQuota.daily \in Nat
  BY <1>2, <1>3, QuotaNumbers DEF RLCounterT
<1> DEFINE h == Cardinality(HourSlots(rlCall, c.hourStart))
           hn == Cardinality(HourSlots(rlCall', c.hourStart))
           d == Cardinality(DaySlots(rlCall, c.dayStart))
           dn == Cardinality(DaySlots(rlCall', c.dayStart))
<1>10. h \in Nat /\ hn \in Nat /\ d \in Nat /\ dn \in Nat
  BY SlotNumbers
<1>11. hn = h - (IF sameHour THEN 1 ELSE 0)
  <2> DEFINE at == c.hourStart
  <2>1. Cardinality(HourSlots(rlCall', at)) = Cardinality(HourSlots(rlCall, at))
          - IF Holds(rlCall, t) /\ rlCall[t].hour = at THEN 1 ELSE 0
    <3> HIDE DEF at
    <3> QED BY <1>7, <1>8, SlotLeaves
  <2> QED BY <1>8, <2>1
<1>12. dn = d - (IF sameDay THEN 1 ELSE 0)
  <2> DEFINE at == c.dayStart
  <2>1. Cardinality(DaySlots(rlCall', at)) = Cardinality(DaySlots(rlCall, at))
          - IF Holds(rlCall, t) /\ rlCall[t].day = at THEN 1 ELSE 0
    <3> HIDE DEF at
    <3> QED BY <1>7, <1>8, SlotLeaves
  <2> QED BY <1>8, <2>1
<1>13. /\ WindowOK(h, c.hour, g.hour, RLQuota.hourly, rlCrossed)
       /\ WindowOK(d, c.day, g.day, RLQuota.daily, rlCrossed)
  BY <1>4 DEF AccountOK
<1>14. /\ sameHour \in BOOLEAN /\ sameDay \in BOOLEAN
       /\ late \in Nat /\ (late = rlCrossed \/ late = rlCrossed + 1)
       /\ (~sameHour => late = rlCrossed + 1) /\ (~sameDay => late = rlCrossed + 1)
       /\ (late = 0 => rlCrossed = 0 /\ sameHour /\ sameDay)
  BY <1>3
<1> HIDE DEF h, hn, d, dn, late, sameHour, sameDay
<1>15. gHour \in Nat /\ hour \in Nat /\ WindowOK(hn, hour, gHour, RLQuota.hourly, late)
  BY <1>3, <1>9, <1>10, <1>11, <1>13, <1>14, GiveBack, ZenonT(60)
<1>16. gDay \in Nat /\ day \in Nat /\ WindowOK(dn, day, gDay, RLQuota.daily, late)
  BY <1>3, <1>9, <1>10, <1>12, <1>13, <1>14, GiveBack, ZenonT(60)
<1>17. gHour = g.hour - (IF sameHour THEN 1 ELSE 0) /\ gDay = g.day - (IF sameDay THEN 1 ELSE 0)
  OBVIOUS
<1> HIDE DEF hour, day, gHour, gDay, g
<1>18. /\ rlCounter' \in RLCounterT /\ rlCounter'.hour = hour /\ rlCounter'.day = day
       /\ rlCounter'.hourStart = c.hourStart /\ rlCounter'.dayStart = c.dayStart
  BY <1>1, <1>3, <1>15, <1>16 DEF RLCounterT
<1>19. rlGranted' \in [hour : Nat, day : Nat] /\ rlGranted'.hour = gHour /\ rlGranted'.day = gDay
  BY <1>1, <1>15, <1>16
<1>20. rlCounter' # RLNone
  BY <1>18, SomeCounter
<1>21. RLTypes'
  BY <1>1, <1>2, <1>3, <1>7, <1>14, <1>18, <1>19, <1>20 DEF RLTypes
<1>22. ASSUME late = 0, RLQuota.hourly > 0
       PROVE  \E k \in Nat : HoursOf(rlCounter', rlGranted', k)
  <2>1. rlCrossed = 0 /\ gHour = g.hour - 1 /\ gDay = g.day - 1
    BY <1>14, <1>17, <1>22
  <2>2. PICK k \in Nat : HoursOf(c, g, k)
    BY <1>4, <1>22, <2>1 DEF AccountOK
  <2> DEFINE ended == k * RLQuota.hourly
  <2>3. ended \in Nat /\ g.day <= ended + g.hour
    BY <1>9, <2>2 DEF HoursOf
  <2> HIDE DEF ended
  <2>4. gDay <= ended + gHour
    BY <1>9, <2>1, <2>3
  <2>5. HoursOf(rlCounter', rlGranted', k)
    BY <1>18, <1>19, <2>2, <2>4 DEF HoursOf, ended
  <2> QED BY <2>5
<1>23. \A u \in RLThread : Holds(rlCall', u) => /\ rlCall'[u].hour <= c.hourStart
                                                /\ rlCall'[u].day <= c.dayStart
  <2>1. \A u \in RLThread : Holds(rlCall', u) => Holds(rlCall, u) /\ rlCall'[u] = rlCall[u]
    BY <1>7, <1>8 DEF Holds
  <2> QED BY <1>4, <2>1 DEF AccountOK
<1>24. c.hourStart <= rlNow /\ c.dayStart <= rlNow /\ c.hourStart < c.dayStart + RLDay
  BY <1>4 DEF AccountOK
<1>25. AccountOK(rlCounter', rlGranted', rlCall', late, rlNow)
  BY <1>15, <1>16, <1>18, <1>19, <1>22, <1>23, <1>24 DEF AccountOK, hn, dn
<1>26. CountersOK'
  BY <1>1, <1>5, <1>20, <1>25 DEF CountersOK, AccountOK, HoursOf
<1> QED BY <1>6, <1>21, <1>26 DEF RLInv

\* The figures of a decision refill the bucket and reset the windows.
LEMMA ReportStep ==
    ASSUME RLInv, NEW t \in RLThread, Report(t)
    PROVE  RLInv'
<1> DEFINE c == _reset_if_needed(rlCounter)
           g == GrantedAfterReset
           b == _refill(rlBucket)
<1>1. /\ rlCall[t].pc = "report" /\ UNCHANGED <<rlConfig, rlNow, rlTaken, rlCrossed>>
      /\ rlBucket' = b /\ rlCounter' = c /\ rlGranted' = g
      /\ rlCall' = [rlCall EXCEPT ![t] = RLIdle]
  BY DEF Report
<1>2. RLTypes /\ BucketOK /\ CountersOK
  BY DEF RLInv
<1>3. rlNow \in Nat /\ rlCrossed \in Nat /\ rlCall \in [RLThread -> RLCallT]
      /\ rlCounter # RLNone /\ rlBucket # RLNone
  BY <1>1, <1>2 DEF RLTypes
<1>4. /\ c \in RLCounterT /\ g \in [hour : Nat, day : Nat]
      /\ AccountOK(c, g, rlCall, rlCrossed, rlNow)
  BY <1>2, <1>3, ResetKeeps DEF CountersOK
<1>5. b \in RLBucketT /\ TokensOK(b, rlTaken, rlNow)
  BY <1>2, <1>3, RefillKeeps DEF BucketOK
<1>6. RLQuota' = RLQuota
  BY <1>1 DEF RLQuota
<1> HIDE DEF c, g, b
<1>7. RLIdle \in RLCallT /\ RLIdle.pc = "idle"
  BY DEF RLIdle, RLCallT
<1>8. /\ rlCall' \in [RLThread -> RLCallT] /\ rlCall'[t].pc = "idle"
      /\ \A u \in RLThread \ {t} : rlCall'[u] = rlCall[u]
  BY <1>1, <1>3, <1>7, CallMoves
<1>9. ~Holds(rlCall', t)
  BY <1>8 DEF Holds
<1>10. AccountOK(c, g, rlCall', rlCrossed, rlNow)
  BY <1>3, <1>4, <1>8, <1>9, AccountLeaves
<1>11. rlCounter' # RLNone /\ rlBucket' # RLNone
  BY <1>1, <1>4, <1>5, SomeCounter
<1>12. RLTypes'
  BY <1>1, <1>2, <1>4, <1>5, <1>8, <1>11 DEF RLTypes
<1>13. BucketOK'
  BY <1>1, <1>5, <1>6, <1>11 DEF BucketOK, TokensOK
<1>14. CountersOK'
  BY <1>1, <1>6, <1>10, <1>11 DEF CountersOK, AccountOK, HoursOf
<1> QED BY <1>12, <1>13, <1>14 DEF RLInv

\* Time passes.
LEMMA TickStep ==
    ASSUME RLInv, RLTick
    PROVE  RLInv'
<1>1. /\ rlNow' = rlNow + 1
      /\ UNCHANGED <<rlConfig, rlBucket, rlCounter, rlCall, rlGranted, rlTaken, rlCrossed>>
  BY DEF RLTick
<1>2. RLTypes /\ BucketOK /\ CountersOK
  BY DEF RLInv
<1>3. rlNow \in Nat /\ rlNow' \in Nat /\ rlNow <= rlNow'
  BY <1>1, <1>2 DEF RLTypes
<1>4. RLTypes'
  BY <1>1, <1>2, <1>3 DEF RLTypes
<1>5. RLQuota' = RLQuota
  BY <1>1 DEF RLQuota
<1>6. BucketOK'
  <2>1. rlBucket # RLNone => TokensOK(rlBucket, rlTaken, rlNow')
    <3>1. rlBucket # RLNone => rlBucket.last \in Nat
      BY <1>2 DEF RLTypes, RLBucketT
    <3>2. rlBucket # RLNone => TokensOK(rlBucket, rlTaken, rlNow)
      BY <1>2 DEF BucketOK
    <3> QED BY <1>3, <3>1, <3>2 DEF TokensOK
  <2> QED BY <1>1, <1>2, <1>5, <2>1 DEF BucketOK, TokensOK
<1>7. CountersOK'
  <2>1. rlCounter # RLNone => AccountOK(rlCounter, rlGranted, rlCall, rlCrossed, rlNow')
    BY <1>2, <1>3, AccountStays DEF CountersOK, RLTypes
  <2> QED BY <1>1, <1>2, <1>5, <2>1 DEF CountersOK, AccountOK, HoursOf
<1> QED BY <1>4, <1>6, <1>7 DEF RLInv

\* The invariant gives what the limiter promises.
LEMMA LimitsHold ==
    ASSUME RLInv
    PROVE  RLSafe
<1>1. RLTypes /\ BucketOK /\ CountersOK /\ rlConfig \in RLConfig /\ Accepted(rlConfig)
  BY DEF RLInv, RLTypes
<1>2. /\ RLQuota.rate \in Nat /\ RLQuota.burst \in Nat
      /\ RLQuota.hourly \in Nat /\ RLQuota.daily \in Nat
  BY <1>1, QuotaNumbers
<1>3. RLMostSpecific /\ RLValidatorAgrees
  BY <1>1, QuotaInForce, ValidatorAgrees
<1>4. RLBucketBound
  <2> SUFFICES ASSUME rlBucket # RLNone
               PROVE  rlTaken <= 2 * RLQuota.burst + RLQuota.rate * (rlNow - rlBucket.start)
    BY DEF RLBucketBound
  <2>1. _refill(rlBucket) \in RLBucketT /\ TokensOK(_refill(rlBucket), rlTaken, rlNow)
    BY <1>1, RefillKeeps DEF BucketOK
  <2>2. _refill(rlBucket).last = rlNow /\ _refill(rlBucket).start = rlBucket.start
        /\ _refill(rlBucket).tokens \in Nat
    BY <2>1 DEF _refill, RLBucketT
  <2> DEFINE full == 2 * RLQuota.burst
             added == RLQuota.rate * (rlNow - rlBucket.start)
  <2>3. _refill(rlBucket).tokens + rlTaken <= full + added
    BY <2>1, <2>2 DEF TokensOK
  <2>4. full \in Int /\ added \in Int /\ rlTaken \in Nat
    <3>1. rlNow \in Nat /\ rlBucket.start \in Nat /\ rlTaken \in Nat
      BY <1>1 DEF RLTypes, RLBucketT
    <3> QED BY <1>2, <3>1
  <2> HIDE DEF full, added
  <2>5. rlTaken <= full + added
    BY <2>2, <2>3, <2>4
  <2> QED BY <2>5 DEF full, added
<1>5. ASSUME rlCounter # RLNone
      PROVE  /\ rlGranted.hour \in Nat /\ rlGranted.day \in Nat /\ rlCrossed \in Nat
             /\ rlCounter.hour \in Nat /\ rlCounter.day \in Nat
             /\ rlCounter.hourStart \in Nat /\ rlCounter.dayStart \in Nat
             /\ AccountOK(rlCounter, rlGranted, rlCall, rlCrossed, rlNow)
  BY <1>1, <1>5 DEF RLTypes, RLCounterT, CountersOK
<1>6. RLNoOvershoot /\ RLSlotsReturned
  BY <1>2, <1>5 DEF RLNoOvershoot, RLSlotsReturned, AccountOK, WindowOK
<1>7. RLDayOfHours
  <2> DEFINE hours == RLDay \div RLHour
  <2> SUFFICES ASSUME rlCounter # RLNone, RLQuota.hourly > 0, rlCrossed = 0
               PROVE  rlGranted.day <= (hours + 1) * RLQuota.hourly
    BY DEF RLDayOfHours
  <2>1. PICK k \in Nat : HoursOf(rlCounter, rlGranted, k)
    BY <1>5 DEF AccountOK
  <2>2. rlGranted.hour <= RLQuota.hourly
    BY <1>2, <1>5 DEF AccountOK, WindowOK
  <2>3. RLHour \in Nat \ {0} /\ RLDay \in Nat /\ hours \in Nat /\ RLDay = hours * RLHour
    BY RLAssumption
  <2> HIDE DEF hours
  <2>4. k <= hours
    <3> SUFFICES ASSUME k # 0, k > hours PROVE FALSE
      BY <2>3
    <3>1. rlCounter.dayStart + (k - 1) * RLHour < rlCounter.dayStart + RLDay
      <4> DEFINE past == (k - 1) * RLHour
      <4>1. past \in Int /\ rlCounter.dayStart + past <= rlCounter.hourStart
            /\ rlCounter.hourStart < rlCounter.dayStart + RLDay
        BY <1>5, <2>1, <2>3 DEF HoursOf, AccountOK
      <4> HIDE DEF past
      <4>2. rlCounter.dayStart + past < rlCounter.dayStart + RLDay
        BY <1>5, <2>3, <4>1
      <4> QED BY <4>2 DEF past
    <3>2. k - 1 >= hours /\ k - 1 \in Nat
      BY <2>3
    <3>3. (k - 1) * RLHour >= hours * RLHour
      BY <2>3, <3>2
    <3>4. (k - 1) * RLHour \in Nat
      BY <2>3, <3>2
    <3> QED BY <1>5, <2>3, <3>1, <3>3, <3>4
  <2>5. /\ k * RLQuota.hourly <= hours * RLQuota.hourly
        /\ k * RLQuota.hourly \in Nat /\ hours * RLQuota.hourly \in Nat
    BY <1>2, <2>3, <2>4
  <2>6. (hours + 1) * RLQuota.hourly = hours * RLQuota.hourly + RLQuota.hourly
    <3>1. \A a, b \in Nat : (a + 1) * b = a * b + b
      OBVIOUS
    <3>2. hours \in Nat /\ RLQuota.hourly \in Nat
      BY <1>2, <2>3
    <3> QED BY ONLY <3>1, <3>2
  <2> DEFINE most == hours * RLQuota.hourly
             some == k * RLQuota.hourly
             all == (hours + 1) * RLQuota.hourly
  <2>7. /\ some <= most /\ some \in Nat /\ most \in Nat /\ all = most + RLQuota.hourly
        /\ rlGranted.day <= some + rlGranted.hour
    BY <2>1, <2>5, <2>6 DEF HoursOf
  <2> HIDE DEF most, some, all
  <2>8. rlGranted.day <= all
    BY <1>2, <1>5, <2>2, <2>7
  <2> QED BY <2>8 DEF all
<1> QED BY <1>3, <1>4, <1>6, <1>7 DEF RLSafe

\* However requests, refusals and the clock interleave between the three
\* locks of check(): quotas are not overshot but by slots returned late,
\* refused requests leave no trace, burst and day are bounded, and the quota
\* in force is the most specific one.  For any quotas, burst, rate, number of
\* threads and length of the hour.
THEOREM LimiterSafe == RLSpecification => []RLSafe
<1>1. RLInit => RLInv
  <2> SUFFICES ASSUME RLInit PROVE RLInv
    OBVIOUS
  <2>1. RLIdle \in RLCallT /\ RLIdle.pc = "idle"
    BY DEF RLIdle, RLCallT
  <2>2. rlCall \in [RLThread -> RLCallT] /\ \A t \in RLThread : rlCall[t].pc = "idle"
    BY <2>1 DEF RLInit
  <2>3. RLTypes
    BY <2>2 DEF RLInit, RLTypes
  <2> QED BY <2>3 DEF RLInit, RLInv, BucketOK, CountersOK
<1>2. RLInv /\ [RLNext]_rlVars => RLInv'
  <2> SUFFICES ASSUME RLInv, [RLNext]_rlVars PROVE RLInv'
    OBVIOUS
  <2>1. CASE UNCHANGED rlVars
    <3>1. UNCHANGED <<rlConfig, rlBucket, rlCounter, rlCall, rlNow, rlGranted, rlTaken, rlCrossed>>
      BY <2>1 DEF rlVars
    <3>2. RLQuota' = RLQuota
      BY <3>1 DEF RLQuota
    <3> QED BY <3>1, <3>2 DEF RLInv, RLTypes, BucketOK, TokensOK, CountersOK, AccountOK, HoursOf
  <2> QED BY <2>1, TickStep, LookupStep, CheckStep, ConsumeStep, DecrementStep, ReportStep
             DEF RLNext
<1>3. RLInv => RLSafe
  BY LimitsHold
<1> QED BY <1>1, <1>2, <1>3, PTL DEF RLSpecification

-----------------------------------------------------------------------------
(* ServerApi: requests applied whole or not at all, bodies within the       *)
(* limit.                                                                   *)

SASpecification == SAInit /\ [][SANext]_saVars

\* What the sums of the prefixes of s are, as an equation.
Sums(s, n, f) == f = [i \in 0 .. n |-> IF i = 0 THEN 0 ELSE f[i - 1] + s[i]]

\* The equation has a solution for every length of the list.
LEMMA SumsExist ==
    ASSUME NEW s, NEW n \in Nat
    PROVE  \E f : Sums(s, n, f)
<1> DEFINE Bad == {m \in Nat : ~\E f : Sums(s, m, f)}
<1>1. SUFFICES ASSUME Bad # {} PROVE FALSE
  OBVIOUS
<1>2. PICK m \in Bad : \A y \in Bad : m <= y
  BY <1>1, LeastNatural
<1>3. CASE m = 0
  <2> DEFINE f == [i \in 0 .. m |-> 0]
  <2>1. Sums(s, m, f)
    BY <1>3 DEF Sums
  <2> QED BY <1>2, <2>1
<1>4. CASE m # 0
  <2>1. m \in Nat /\ m - 1 \in Nat /\ ~(m <= m - 1)
    BY <1>2, <1>4
  <2>2. m - 1 \notin Bad
    BY <1>2, <2>1
  <2>3. PICK f : Sums(s, m - 1, f)
    BY <2>1, <2>2
  <2> DEFINE g == [i \in 0 .. m |-> IF i = m THEN f[m - 1] + s[m] ELSE f[i]]
  <2>4. \A i \in 0 .. m : g[i] = IF i = 0 THEN 0 ELSE g[i - 1] + s[i]
    <3> SUFFICES ASSUME NEW i \in 0 .. m
                 PROVE  g[i] = IF i = 0 THEN 0 ELSE g[i - 1] + s[i]
      OBVIOUS
    <3>1. CASE i = m
      BY <2>1, <3>1, <1>4
    <3>2. CASE i # m
      <4>1. i \in 0 .. m - 1 /\ g[i] = f[i] /\ (i # 0 => i - 1 \in 0 .. m /\ i - 1 # m)
        BY <2>1, <3>2
      <4>2. f[i] = IF i = 0 THEN 0 ELSE f[i - 1] + s[i]
        BY <2>3, <4>1 DEF Sums
      <4>3. i # 0 => g[i - 1] = f[i - 1]
        BY <4>1
      <4> QED BY <4>1, <4>2, <4>3
    <3> QED BY <3>1, <3>2
  <2>5. Sums(s, m, g)
    BY <2>4 DEF Sums
  <2> QED BY <1>2, <2>5
<1> QED BY <1>3, <1>4

\* A list of natural numbers.
Counts(s) == Len(s) \in Nat /\ \A i \in 1 .. Len(s) : s[i] \in Nat

\* The sums of the prefixes are natural numbers that never decrease.
LEMMA SumsGrow ==
    ASSUME NEW s, Counts(s)
    PROVE  /\ SumTo(s, 0) = 0
           /\ \A i \in 0 .. Len(s) : SumTo(s, i) \in Nat /\ SumTo(s, i) <= SASum(s)
<1> DEFINE n == Len(s)
<1>1. PICK f : Sums(s, n, f) /\ \A k : SumTo(s, k) = f[k]
  <2>1. \E g : g = [i \in 0 .. Len(s) |-> IF i = 0 THEN 0 ELSE g[i - 1] + s[i]]
    BY SumsExist DEF Sums, Counts
  <2> QED BY <2>1, Zenon DEF SumTo, Sums
<1>2. n \in Nat /\ f[0] = 0 /\ \A i \in 1 .. n : f[i] = f[i - 1] + s[i] /\ s[i] \in Nat
  <2>1. \A i \in 0 .. n : f[i] = IF i = 0 THEN 0 ELSE f[i - 1] + s[i]
    BY <1>1 DEF Sums
  <2>2. n \in Nat /\ \A i \in 1 .. n : s[i] \in Nat
    BY DEF Counts
  <2> HIDE DEF n
  <2> QED BY <2>1, <2>2
<1>3. \A k \in 0 .. n : f[k] \in Nat /\ \A i \in 0 .. k : f[i] <= f[k]
  <2> DEFINE Bad == {k \in 0 .. n : ~(f[k] \in Nat /\ \A i \in 0 .. k : f[i] <= f[k])}
  <2> HIDE DEF n
  <2>1. SUFFICES ASSUME Bad # {} PROVE FALSE
    OBVIOUS
  <2>2. PICK m \in Bad : \A y \in Bad : m <= y
    <3>1. Bad \in SUBSET Nat
      BY <1>2
    <3> QED BY <2>1, <3>1, LeastNatural
  <2>3. m \in 1 .. n /\ m - 1 \in 0 .. n /\ ~(m <= m - 1)
    BY <1>2, <2>2
  <2>4. m - 1 \notin Bad
    BY <2>2, <2>3
  <2>5. f[m - 1] \in Nat /\ \A i \in 0 .. m - 1 : f[i] <= f[m - 1]
    BY <2>3, <2>4
  <2>6. f[m] = f[m - 1] + s[m] /\ s[m] \in Nat
    BY <1>2, <2>3
  <2>7. f[m] \in Nat /\ f[m - 1] <= f[m]
    BY <2>5, <2>6
  <2>8. ASSUME NEW i \in 0 .. m PROVE f[i] <= f[m]
    <3>1. CASE i = m
      BY <2>7, <3>1
    <3>2. CASE i # m
      <4>1. i \in 0 .. m - 1 /\ i \in 0 .. n
        BY <1>2, <2>3, <3>2
      <4>2. f[i] <= f[m - 1]
        BY <2>5, <4>1
      <4>3. f[i] \in Nat
        <5>1. i \notin Bad
          BY <2>2, <2>3, <3>2, <4>1
        <5> QED BY <4>1, <5>1
      <4> QED BY <2>5, <2>7, <4>2, <4>3
    <3> QED BY <3>1, <3>2
  <2> QED BY <2>2, <2>7, <2>8
<1>4. SASum(s) = f[n]
  BY <1>1 DEF SASum
<1>5. n \in 0 .. n
  BY <1>2
<1> HIDE DEF n
<1> QED BY <1>1, <1>2, <1>3, <1>4, <1>5 DEF n

\* What is known of a stored or resident stream.
LogOK(log) == log.ev \in Nat /\ log.total \in Nat /\ log.ev <= log.total

SAStage == {"open", "body", "raised", "read", "peeking", "peeked", "queued", "loading", "done"}
SAStatus == {0, 202, 400, 401, 403, 413, 422, 500}

\* The type of a request.
SARecord == [pc : SAStage, q : SARequests \cup {SAGone}, got : Nat, over : BOOLEAN,
             seen : Nat, status : SAStatus, moved : BOOLEAN, lat : Nat, ev : Nat]

\* The two promises about an answered request.
AppliedWhole(rq) ==
    \/ rq.status = 202 /\ rq.lat = rq.q.lat /\ rq.ev = SASum(rq.q.events)
    \/ rq.status # 202 /\ rq.lat = 0 /\ rq.ev = 0
    \/ rq.status = 500 /\ rq.q.kind = "ingest" /\ rq.moved
Limited(rq) ==
    rq.status \notin {401, 403} =>
        \/ rq.q.length \in {"garbage", "negative"} /\ rq.status = 400
        \/ /\ rq.q.length \in {"absent", "given"} /\ rq.status # 400
           /\ rq.status = 413 <=> SASum(rq.q.chunks) > SALimit

\* What a request has passed in each of its stages: the body that is being
\* read is within the limit so far, the body that was read is within it, and
\* an ingest that is on its way to the stream has passed the preflight.
StageOK(rq) ==
    /\ rq.pc # "done" => rq.lat = 0 /\ rq.ev = 0
    /\ rq.pc = "open" => rq.got = 0 /\ ~rq.over
    /\ rq.pc # "open" => rq.q \in SARequests
    /\ rq.pc \notin {"open", "done"} => rq.q.length \in {"absent", "given"}
    /\ rq.pc = "body" => rq.got < Len(rq.q.chunks) /\ ~rq.over
    /\ rq.pc = "raised" => rq.over /\ SASum(rq.q.chunks) > SALimit
    /\ rq.pc \in {"read", "peeking", "peeked", "queued", "loading"}
          => ~rq.over /\ SASum(rq.q.chunks) <= SALimit
    /\ rq.pc \in {"peeking", "peeked"} => rq.q.kind = "ingest" /\ rq.q.valid
    /\ rq.pc \in {"queued", "loading"}
          => /\ rq.q.valid
             /\ rq.q.kind = "ingest" => rq.seen + NewEvents(rq.q) <= SAInt64
    /\ rq.pc = "done" => AppliedWhole(rq) /\ Limited(rq)

RequestsOK ==
    /\ saRq \in [SAClients -> SARecord]
    /\ \A c \in SAClients : StageOK(saRq[c])
StreamOK == LogOK(saLog) /\ LogOK(saDisk)
SAInv == RequestsOK /\ StreamOK /\ SASettingsHonoured

\* The numbers of a request.
LEMMA RequestNumbers ==
    ASSUME NEW q \in SARequests
    PROVE  /\ Counts(q.chunks) /\ Len(q.chunks) # 0
           /\ q.valid => Counts(q.events) /\ q.lat \in Nat /\ SASum(q.events) \in Nat
                         /\ NewEvents(q) \in Nat
           /\ q.length \in {"garbage", "negative", "absent", "given"}
           /\ q.kind \in {"ingest", "merge"} /\ q.valid \in BOOLEAN
           /\ SALimit \in Nat /\ SAInt64 \in Nat /\ SAUint64 = 2 * SAInt64 + 1
<1>1. Counts(q.chunks) /\ Len(q.chunks) # 0 /\ (q.valid => Counts(q.events) /\ q.lat \in Nat)
  BY SAAssumption DEF Counts
<1>2. q.valid => SASum(q.events) \in Nat
  <2> SUFFICES ASSUME q.valid PROVE SASum(q.events) \in Nat
    OBVIOUS
  <2>1. Len(q.events) \in 0 .. Len(q.events)
    BY <1>1 DEF Counts
  <2> QED BY <1>1, <2>1, SumsGrow DEF SASum
<1> QED BY <1>1, <1>2, SAAssumption DEF NewEvents

\* Some number of the events is added before add_event raises: as many as fit.
LEMMA EventsAddedFit ==
    ASSUME NEW log, NEW lat, NEW events, Counts(events)
    PROVE  LET k == EventsAdded(log, lat, events)
           IN  /\ k \in 0 .. Len(events)
               /\ \A j \in 1 .. k : EventsFit(log, lat, events, j)
               /\ k = Len(events) \/ ~EventsFit(log, lat, events, k + 1)
<1> DEFINE n == Len(events)
           Fit(j) == EventsFit(log, lat, events, j)
           Stops == {k \in 0 .. n : k = n \/ ~Fit(k + 1)}
<1>1. n \in Nat
  BY DEF Counts
<1> HIDE DEF n, Fit
<1>2. PICK m \in Stops : \A y \in Stops : m <= y
  <2>1. n \in Stops /\ Stops \in SUBSET Nat
    BY <1>1
  <2> QED BY <2>1, LeastNatural
<1>3. \A j \in 1 .. m : Fit(j)
  <2> SUFFICES ASSUME NEW j \in 1 .. m PROVE Fit(j)
    OBVIOUS
  <2>1. j - 1 \in 0 .. n /\ ~(m <= j - 1) /\ j - 1 # n /\ (j - 1) + 1 = j
    BY <1>1, <1>2
  <2>2. j - 1 \notin Stops
    BY <1>2, <2>1
  <2> QED BY <2>1, <2>2
<1>4. \E k \in 0 .. Len(events) :
        /\ \A j \in 1 .. k : EventsFit(log, lat, events, j)
        /\ k = Len(events) \/ ~EventsFit(log, lat, events, k + 1)
  BY <1>2, <1>3 DEF n, Fit
<1> QED BY <1>4 DEF EventsAdded

\* A batch leaves a stream in order and is applied whole, or not at all, or
\* the stream has moved since the preflight.
LEMMA BatchApplied ==
    ASSUME NEW rq \in SARecord, NEW log, LogOK(log), rq.q \in SARequests, rq.q.valid,
           rq.q.kind = "ingest", rq.seen + NewEvents(rq.q) <= SAInt64
    PROVE  LET r == ApplyBatch(rq, log)
           IN  /\ LogOK(r.log) /\ r.status \in {202, 500} /\ r.lat \in Nat /\ r.ev \in Nat
               /\ \/ r.status = 202 /\ r.lat = rq.q.lat /\ r.ev = SASum(rq.q.events)
                  \/ r.status # 202 /\ r.lat = 0 /\ r.ev = 0
                  \/ r.status = 500 /\ log.total # rq.seen
<1> DEFINE q    == rq.q
           lat  == IF q.wide \/ log.total + q.lat > SAUint64 THEN 0 ELSE q.lat
           fits == lat = q.lat
           k    == IF fits THEN EventsAdded(log, lat, q.events) ELSE 0
           ev   == SumTo(q.events, k)
           r    == ApplyBatch(rq, log)
<1>1. r = [log    |-> [lat |-> log.lat + lat, ev |-> log.ev + ev, total |-> log.total + lat + ev],
           status |-> IF fits /\ k = Len(q.events) THEN 202 ELSE 500, lat |-> lat, ev |-> ev]
  BY DEF ApplyBatch
<1>2. /\ Counts(q.events) /\ q.lat \in Nat /\ SASum(q.events) \in Nat
      /\ SAInt64 \in Nat /\ SAUint64 = 2 * SAInt64 + 1
      /\ NewEvents(q) = q.lat + SASum(q.events)
  BY RequestNumbers DEF NewEvents
<1>3. k \in 0 .. Len(q.events) /\ ev \in Nat
  <2>1. k \in 0 .. Len(q.events)
    BY <1>2, EventsAddedFit DEF Counts
  <2> QED BY <1>2, <2>1, SumsGrow
<1>4. lat \in Nat
  BY <1>2
<1>5. LogOK(r.log) /\ r.status \in {202, 500} /\ r.lat \in Nat /\ r.ev \in Nat
  <2> HIDE DEF lat, ev, k, fits, r, q
  <2> QED BY <1>1, <1>3, <1>4 DEF LogOK
<1>6. CASE ~fits
  <2>1. lat = 0 /\ k = 0 /\ ev = 0
    BY <1>2, <1>6, SumsGrow
  <2>2. r.status = 500 /\ r.lat = 0 /\ r.ev = 0
    <3> HIDE DEF lat, ev, k, fits, r
    <3> QED BY <1>1, <1>6, <2>1
  <2> QED BY <1>5, <2>2
<1>7. CASE fits /\ k = Len(q.events)
  <2>1. ev = SASum(q.events) /\ lat = q.lat
    BY <1>7 DEF SASum
  <2>2. r.status = 202 /\ r.lat = q.lat /\ r.ev = SASum(q.events)
    <3> HIDE DEF lat, ev, k, fits, r, q
    <3> QED BY <1>1, <1>7, <2>1
  <2> QED BY <1>5, <2>2
<1>8. CASE fits /\ k # Len(q.events)
  <2>1. r.status = 500
    <3> HIDE DEF lat, ev, k, fits, r, q
    <3> QED BY <1>1, <1>8
  <2>2. ASSUME log.total = rq.seen PROVE FALSE
    <3>1. k = EventsAdded(log, lat, q.events) /\ lat = q.lat
      BY <1>8
    <3>2. ~EventsFit(log, lat, q.events, k + 1)
      BY <1>2, <1>8, <3>1, EventsAddedFit
    <3>3. k + 1 \in 0 .. Len(q.events)
      BY <1>2, <1>3, <1>8 DEF Counts
    <3>4. SumTo(q.events, k + 1) \in Nat /\ SumTo(q.events, k + 1) <= SASum(q.events)
      BY <1>2, <3>3, SumsGrow
    <3> DEFINE sum == SumTo(q.events, k + 1)
               all == SASum(q.events)
    <3>5. /\ log.ev \in Nat /\ log.total \in Nat /\ log.ev <= log.total
          /\ log.total + (lat + all) <= SAInt64
      BY <1>2, <2>2, <3>1 DEF LogOK
    <3>6. sum \in Nat /\ sum <= all /\ all \in Nat
      BY <1>2, <3>4
    <3> HIDE DEF sum, all, lat, k, q
    <3>7. log.total + lat + sum <= SAUint64 /\ log.ev + sum <= SAInt64
      BY <1>2, <1>4, <3>5, <3>6
    <3> QED BY <3>2, <3>7 DEF EventsFit, sum
  <2> QED BY <1>5, <2>1, <2>2
<1> QED BY <1>6, <1>7, <1>8

\* A merge leaves a stream in order and is applied whole or not at all.
LEMMA MergeApplied ==
    ASSUME NEW rq \in SARecord, NEW log, LogOK(log), rq.q \in SARequests, rq.q.valid
    PROVE  LET r == ApplyMerge(rq, log)
           IN  /\ LogOK(r.log) /\ r.status \in {202, 422} /\ r.lat \in Nat /\ r.ev \in Nat
               /\ \/ r.status = 202 /\ r.lat = rq.q.lat /\ r.ev = SASum(rq.q.events)
                  \/ r.status # 202 /\ r.lat = 0 /\ r.ev = 0
<1> DEFINE r == ApplyMerge(rq, log)
           all == SASum(rq.q.events)
<1>1. rq.q.lat \in Nat /\ all \in Nat
  BY RequestNumbers
<1>2. \/ r = [log    |-> [lat |-> log.lat + rq.q.lat, ev |-> log.ev + all,
                          total |-> log.total + (rq.q.lat + all)],
              status |-> 202, lat |-> rq.q.lat, ev |-> all]
      \/ r = [log |-> log, status |-> 422, lat |-> 0, ev |-> 0]
  BY DEF ApplyMerge
<1> HIDE DEF all, r
<1> SUFFICES /\ LogOK(r.log) /\ r.status \in {202, 422} /\ r.lat \in Nat /\ r.ev \in Nat
             /\ \/ r.status = 202 /\ r.lat = rq.q.lat /\ r.ev = all
                \/ r.status # 202 /\ r.lat = 0 /\ r.ev = 0
  BY DEF r, all
<1> QED BY <1>1, <1>2 DEF LogOK

\* A step that changes one request leaves the requests in order if it leaves
\* this one in order.
LEMMA OneRequest ==
    ASSUME RequestsOK, NEW c \in SAClients, NEW rq \in SARecord, StageOK(rq),
           saRq' = [saRq EXCEPT ![c] = rq]
    PROVE  RequestsOK'
<1>1. saRq' \in [SAClients -> SARecord]
  BY DEF RequestsOK
<1>2. \A d \in SAClients : saRq'[d] = IF d = c THEN rq ELSE saRq[d]
  BY DEF RequestsOK
<1>3. \A d \in SAClients : StageOK(saRq[d])
  BY DEF RequestsOK
<1>4. \A d \in SAClients : StageOK(saRq'[d])
  BY <1>2, <1>3
<1> QED BY <1>1, <1>4 DEF RequestsOK, StageOK, AppliedWhole, Limited

\* The answer to a request whose body was within the limit.
LEMMA Answering ==
    ASSUME RequestsOK, NEW c \in SAClients, NEW rq \in SARecord, NEW s \in {202, 422, 500},
           rq.q \in SARequests, rq.q.length \in {"absent", "given"}, ~rq.over,
           SASum(rq.q.chunks) <= SALimit, Finish(c, s, rq),
           \/ s = 202 /\ rq.lat = rq.q.lat /\ rq.ev = SASum(rq.q.events)
           \/ s # 202 /\ rq.lat = 0 /\ rq.ev = 0
           \/ s = 500 /\ rq.q.kind = "ingest" /\ rq.moved
    PROVE  RequestsOK'
<1> DEFINE new == [rq EXCEPT !.pc = "done", !.status = s]
<1>1. saRq' = [saRq EXCEPT ![c] = new]
  <2>1. PendingAnswer(rq, s) = s
    BY Zenon DEF PendingAnswer
  <2> QED BY <2>1 DEF Finish
<1>2. new \in SARecord
  <2>1. "done" \in SAStage /\ s \in SAStatus
    BY DEF SAStage, SAStatus
  <2> QED BY <2>1 DEF SARecord
<1>3. /\ new.pc = "done" /\ new.status = s /\ new.q = rq.q /\ new.lat = rq.lat
      /\ new.ev = rq.ev /\ new.moved = rq.moved
  BY DEF SARecord
<1>4. ~(SASum(rq.q.chunks) > SALimit)
  <2>1. SALimit \in Nat /\ SASum(rq.q.chunks) \in Nat
    <3>1. Counts(rq.q.chunks) /\ SALimit \in Nat
      BY RequestNumbers
    <3>2. Len(rq.q.chunks) \in 0 .. Len(rq.q.chunks)
      BY <3>1 DEF Counts
    <3> QED BY <3>1, <3>2, SumsGrow DEF SASum
  <2> QED BY <2>1
<1> HIDE DEF new
<1>5. StageOK(new)
  BY <1>3, <1>4 DEF StageOK, AppliedWhole, Limited
<1> QED BY <1>1, <1>2, <1>5, OneRequest, ZenonT(60)

\* A request that has reached the stream.
Ready(rq) ==
    /\ rq.q \in SARequests /\ rq.q.length \in {"absent", "given"} /\ ~rq.over
    /\ SASum(rq.q.chunks) <= SALimit /\ rq.q.valid /\ rq.lat = 0 /\ rq.ev = 0
    /\ rq.q.kind = "ingest" => rq.seen + NewEvents(rq.q) <= SAInt64

\* Applying a request that is ready leaves requests and stream in order.
LEMMA Applying ==
    ASSUME RequestsOK, StreamOK, NEW c \in SAClients, NEW rq \in SARecord, Ready(rq), NEW log,
           LogOK(log), Apply(c, rq, log)
    PROVE  RequestsOK' /\ LogOK(saLog')
<1> DEFINE r == IF rq.q.kind = "ingest" THEN ApplyBatch(rq, log) ELSE ApplyMerge(rq, log)
           new == [rq EXCEPT !.lat = r.lat, !.ev = r.ev, !.moved = log.total # rq.seen]
<1>1. saLog' = r.log /\ Finish(c, r.status, new)
  BY DEF Apply
<1>2. /\ LogOK(r.log) /\ r.status \in {202, 422, 500} /\ r.lat \in Nat /\ r.ev \in Nat
      /\ \/ r.status = 202 /\ r.lat = rq.q.lat /\ r.ev = SASum(rq.q.events)
         \/ r.status # 202 /\ r.lat = 0 /\ r.ev = 0
         \/ r.status = 500 /\ rq.q.kind = "ingest" /\ log.total # rq.seen
  <2>1. CASE rq.q.kind = "ingest"
    <3>1. r = ApplyBatch(rq, log)
      BY <2>1
    <3> HIDE DEF r
    <3> QED BY <2>1, <3>1, BatchApplied DEF Ready
  <2>2. CASE rq.q.kind # "ingest"
    <3>1. r = ApplyMerge(rq, log)
      BY <2>2
    <3> HIDE DEF r
    <3> QED BY <3>1, MergeApplied DEF Ready
  <2> QED BY <2>1, <2>2
<1> HIDE DEF r
<1>3. new \in SARecord
  BY <1>2, ZenonT(60) DEF SARecord
<1>4. /\ new.q = rq.q /\ new.over = rq.over /\ new.lat = r.lat /\ new.ev = r.ev
      /\ log.total # rq.seen => new.moved = TRUE
  BY DEF SARecord
<1> HIDE DEF new
<1>5. RequestsOK'
  <2>1. \/ r.status = 202 /\ new.lat = new.q.lat /\ new.ev = SASum(new.q.events)
        \/ r.status # 202 /\ new.lat = 0 /\ new.ev = 0
        \/ r.status = 500 /\ new.q.kind = "ingest" /\ new.moved
    BY <1>2, <1>4
  <2>2. /\ new.q \in SARequests /\ new.q.length \in {"absent", "given"} /\ ~new.over
        /\ SASum(new.q.chunks) <= SALimit
    BY <1>4 DEF Ready
  <2> QED BY <1>1, <1>2, <1>3, <2>1, <2>2, Answering
<1> QED BY <1>1, <1>2, <1>5

\* So does waiting for the lock, or for storage, or finding the stream.
LEMMA Creating ==
    ASSUME RequestsOK, StreamOK, NEW c \in SAClients, NEW rq \in SARecord, Ready(rq),
           rq.pc # "done", get_or_create(c, rq)
    PROVE  RequestsOK' /\ LogOK(saLog')
<1>1. ASSUME NEW pc \in {"queued", "loading"}, saRq' = [saRq EXCEPT ![c] = [rq EXCEPT !.pc = pc]]
      PROVE  RequestsOK'
  <2> DEFINE new == [rq EXCEPT !.pc = pc]
  <2>1. new \in SARecord
    BY DEF SARecord, SAStage
  <2>2. /\ new.pc = pc /\ new.q = rq.q /\ new.over = rq.over /\ new.lat = rq.lat
        /\ new.ev = rq.ev /\ new.seen = rq.seen
    BY DEF SARecord
  <2>3. saRq' = [saRq EXCEPT ![c] = new]
    BY <1>1
  <2> HIDE DEF new
  <2>4. StageOK(new)
    BY <1>1, <2>2 DEF Ready, StageOK
  <2> QED BY <2>1, <2>3, <2>4, OneRequest
<1>2. LogOK(saLog) /\ LogOK(SAEmpty)
  BY DEF StreamOK, LogOK, SAEmpty
<1>3. CASE saLock # SAGone
  <2>1. saRq' = [saRq EXCEPT ![c] = [rq EXCEPT !.pc = "queued"]] /\ saLog' = saLog
    BY <1>3 DEF get_or_create
  <2> QED BY <1>1, <1>2, <2>1
<1>4. CASE saLock = SAGone /\ saLog # SANoLog
  <2>1. Apply(c, rq, saLog)
    BY <1>4 DEF get_or_create
  <2> QED BY <1>2, <2>1, Applying
<1>5. CASE saLock = SAGone /\ saLog = SANoLog /\ SADurable
  <2>1. saRq' = [saRq EXCEPT ![c] = [rq EXCEPT !.pc = "loading"]] /\ saLog' = saLog
    BY <1>5 DEF get_or_create
  <2> QED BY <1>1, <1>2, <2>1
<1>6. CASE saLock = SAGone /\ saLog = SANoLog /\ ~SADurable
  <2>1. Apply(c, rq, SAEmpty)
    BY <1>6 DEF get_or_create
  <2> QED BY <1>2, <2>1, Applying
<1> QED BY <1>3, <1>4, <1>5, <1>6

\* And so does an ingest that passes, or fails, the preflight.
LEMMA Preflighting ==
    ASSUME RequestsOK, StreamOK, NEW c \in SAClients, NEW rq \in SARecord, StageOK(rq),
           rq.pc \in {"read", "peeked"}, rq.q.kind = "ingest", rq.q.valid, NEW n \in Nat,
           Preflight(c, rq, n)
    PROVE  RequestsOK' /\ LogOK(saLog')
<1>1. /\ rq.q \in SARequests /\ rq.q.length \in {"absent", "given"} /\ ~rq.over
      /\ SASum(rq.q.chunks) <= SALimit /\ rq.lat = 0 /\ rq.ev = 0
  BY DEF StageOK
<1>2. NewEvents(rq.q) \in Nat /\ SAInt64 \in Nat
  BY <1>1, RequestNumbers
<1>3. CASE n + NewEvents(rq.q) > SAInt64
  <2>1. Finish(c, 422, rq) /\ saLog' = saLog
    BY <1>3 DEF Preflight
  <2> QED BY <1>1, <2>1, Answering DEF StreamOK
<1>4. CASE ~(n + NewEvents(rq.q) > SAInt64)
  <2> DEFINE new == [rq EXCEPT !.seen = n]
  <2>1. get_or_create(c, new)
    BY <1>4 DEF Preflight
  <2>2. new \in SARecord
    BY DEF SARecord
  <2>3. /\ new.pc = rq.pc /\ new.q = rq.q /\ new.over = rq.over /\ new.lat = rq.lat
        /\ new.ev = rq.ev /\ new.seen = n
    BY DEF SARecord
  <2> HIDE DEF new
  <2>4. Ready(new) /\ new.pc # "done"
    BY <1>1, <1>2, <1>4, <2>3 DEF Ready
  <2> QED BY <2>1, <2>2, <2>4, Creating
<1> QED BY <1>3, <1>4

\* The status of an answer that is given before the body is read.
LEMMA ArrivalStatus ==
    ASSUME NEW q \in SARequests
    PROVE  /\ require_auth(q) \in {0, 401, 403}
           /\ ContentLength(q) \in {0, 400, 413}
           /\ ContentLength(q) = 400 <=> q.length \in {"garbage", "negative"}
           /\ ContentLength(q) = 413 => SASum(q.chunks) > SALimit
<1>1. require_auth(q) \in {0, 401, 403}
  BY DEF require_auth
<1> QED BY <1>1 DEF ContentLength

\* Every step leaves requests and stream in order.
LEMMA PipelineStep ==
    ASSUME SAInv, SANext
    PROVE  RequestsOK' /\ StreamOK'
<1>1. RequestsOK /\ StreamOK /\ LogOK(saLog) /\ LogOK(saDisk)
  BY DEF SAInv, StreamOK
<1>2. ASSUME NEW c \in SAClients, NEW q \in SARequests, Arrive(c, q)
      PROVE  RequestsOK' /\ StreamOK'
  <2> DEFINE rq == [saRq[c] EXCEPT !.q = q]
             s == IF require_auth(q) # 0 THEN require_auth(q) ELSE ContentLength(q)
  <2>1. saRq[c] \in SARecord /\ StageOK(saRq[c]) /\ saRq[c].pc = "open"
    BY <1>1, <1>2 DEF RequestsOK, Arrive
  <2>2. /\ rq \in SARecord /\ rq.q = q /\ rq.lat = 0 /\ rq.ev = 0 /\ rq.got = 0 /\ rq.over = FALSE
    BY <2>1 DEF SARecord, StageOK
  <2>3. /\ Len(q.chunks) \in Nat /\ Len(q.chunks) # 0
        /\ q.length \in {"garbage", "negative", "absent", "given"}
    BY RequestNumbers DEF Counts
  <2>4. StreamOK'
    BY <1>1, <1>2 DEF Arrive, StreamOK
  <2>5. IF s # 0 THEN Finish(c, s, rq) ELSE saRq' = [saRq EXCEPT ![c] = [rq EXCEPT !.pc = "body"]]
    BY <1>2 DEF Arrive
  <2>6. /\ s \in {0, 400, 401, 403, 413}
        /\ s = 400 => q.length \in {"garbage", "negative"}
        /\ s = 413 => SASum(q.chunks) > SALimit /\ q.length \notin {"garbage", "negative"}
        /\ s = 0 => q.length \notin {"garbage", "negative"}
    BY ArrivalStatus
  <2> HIDE DEF rq, s
  <2>7. CASE s # 0
    <3> DEFINE new == [rq EXCEPT !.pc = "done", !.status = s]
    <3>1. saRq' = [saRq EXCEPT ![c] = new]
      <4>1. PendingAnswer(rq, s) = s
        BY <2>2 DEF PendingAnswer
      <4> QED BY <2>5, <2>7, <4>1 DEF Finish
    <3>2. new \in SARecord
      <4>1. "done" \in SAStage /\ s \in SAStatus
        BY <2>6 DEF SAStage, SAStatus
      <4> QED BY <2>2, <4>1 DEF SARecord
    <3>3. /\ new.pc = "done" /\ new.status = s /\ new.q = q /\ new.lat = 0 /\ new.ev = 0
      BY <2>2 DEF SARecord
    <3> HIDE DEF new
    <3>4. StageOK(new)
      BY <2>3, <2>6, <2>7, <3>3 DEF StageOK, AppliedWhole, Limited
    <3> QED BY <1>1, <2>4, <3>1, <3>2, <3>4, OneRequest
  <2>8. CASE s = 0
    <3> DEFINE new == [rq EXCEPT !.pc = "body"]
    <3>1. saRq' = [saRq EXCEPT ![c] = new]
      BY <2>5, <2>8
    <3>2. new \in SARecord
      BY <2>2 DEF SARecord, SAStage
    <3>3. /\ new.pc = "body" /\ new.q = q /\ new.lat = 0 /\ new.ev = 0 /\ new.got = 0 /\ ~new.over
      BY <2>2 DEF SARecord
    <3> HIDE DEF new
    <3>4. StageOK(new)
      BY <2>3, <2>6, <2>8, <3>3 DEF StageOK
    <3> QED BY <1>1, <2>4, <3>1, <3>2, <3>4, OneRequest
  <2> QED BY <2>7, <2>8
<1>3. ASSUME NEW c \in SAClients, limited_receive(c)
      PROVE  RequestsOK' /\ StreamOK'
  <2> DEFINE rq == saRq[c]
             n == rq.got + 1
             over == SumTo(rq.q.chunks, n) > SALimit
             pc == IF over THEN "raised" ELSE IF n = Len(rq.q.chunks) THEN "read" ELSE "body"
             new == [rq EXCEPT !.got = n, !.over = over, !.pc = pc]
  <2>1. rq \in SARecord /\ StageOK(rq) /\ rq.pc = "body"
    BY <1>1, <1>3 DEF RequestsOK, limited_receive
  <2>2. /\ rq.q \in SARequests /\ rq.lat = 0 /\ rq.ev = 0 /\ rq.q.length \in {"absent", "given"}
        /\ rq.got \in Nat /\ rq.got < Len(rq.q.chunks)
    BY <2>1 DEF SARecord, StageOK
  <2>3. /\ saRq' = [saRq EXCEPT ![c] = new] /\ StreamOK'
    BY <1>1, <1>3 DEF limited_receive, StreamOK
  <2>4. Counts(rq.q.chunks) /\ SALimit \in Nat
    BY <2>2, RequestNumbers
  <2>5. n \in Nat /\ n \in 0 .. Len(rq.q.chunks) /\ Len(rq.q.chunks) \in Nat
    BY <2>2, <2>4 DEF Counts
  <2>6. /\ SumTo(rq.q.chunks, n) \in Nat /\ SumTo(rq.q.chunks, n) <= SASum(rq.q.chunks)
        /\ SASum(rq.q.chunks) \in Nat
        /\ n = Len(rq.q.chunks) => SASum(rq.q.chunks) = SumTo(rq.q.chunks, n)
    <3>1. Len(rq.q.chunks) \in 0 .. Len(rq.q.chunks)
      BY <2>5
    <3> QED BY <2>4, <2>5, <3>1, SumsGrow DEF SASum
  <2> HIDE DEF n
  <2>7. over \in BOOLEAN
    OBVIOUS
  <2>8. /\ over => pc = "raised" /\ SASum(rq.q.chunks) > SALimit
        /\ ~over => /\ pc \in {"read", "body"}
                    /\ pc = "read" => SASum(rq.q.chunks) <= SALimit
                    /\ pc = "body" => n < Len(rq.q.chunks)
    <3>1. CASE over
      <4>1. pc = "raised"
        BY <3>1
      <4> QED BY <2>4, <2>6, <3>1, <4>1
    <3>2. CASE ~over /\ n = Len(rq.q.chunks)
      <4>1. pc = "read"
        BY <3>2
      <4> QED BY <2>4, <2>6, <3>2, <4>1
    <3>3. CASE ~over /\ n # Len(rq.q.chunks)
      <4>1. pc = "body"
        BY <3>3
      <4> QED BY <2>5, <3>3, <4>1
    <3> QED BY <3>1, <3>2, <3>3
  <2> HIDE DEF over, pc, rq
  <2>9. new \in SARecord
    BY <2>1, <2>5, <2>7, <2>8 DEF SARecord, SAStage
  <2>10. /\ new.pc = pc /\ new.q = rq.q /\ new.lat = 0 /\ new.ev = 0 /\ new.got = n
         /\ new.over = over
    BY <2>1, <2>2 DEF SARecord
  <2> HIDE DEF new
  <2>11. StageOK(new)
    <3>1. CASE over
      <4>1. new.over /\ new.pc = "raised"
        BY <2>8, <2>10, <3>1
      <4> QED BY <2>2, <2>8, <2>10, <3>1, <4>1 DEF StageOK
    <3>2. CASE ~over
      <4>1. ~new.over /\ new.pc \in {"read", "body"}
        BY <2>8, <2>10, <3>2
      <4> QED BY <2>2, <2>8, <2>10, <3>2, <4>1 DEF StageOK
    <3> QED BY <3>1, <3>2
  <2> QED BY <1>1, <2>3, <2>9, <2>11, OneRequest
<1>4. ASSUME NEW c \in SAClients, TooLarge(c)
      PROVE  RequestsOK' /\ StreamOK'
  <2> DEFINE rq == saRq[c]
             new == [rq EXCEPT !.pc = "done", !.status = 413]
  <2>1. rq \in SARecord /\ StageOK(rq) /\ rq.pc = "raised"
    BY <1>1, <1>4 DEF RequestsOK, TooLarge
  <2>2. /\ rq.q \in SARequests /\ rq.lat = 0 /\ rq.ev = 0 /\ rq.q.length \in {"absent", "given"}
        /\ rq.over /\ SASum(rq.q.chunks) > SALimit
    BY <2>1 DEF StageOK
  <2>3. saRq' = [saRq EXCEPT ![c] = new]
    <3>1. PICK s : Finish(c, s, rq)
      BY <1>4 DEF TooLarge
    <3>2. PendingAnswer(rq, s) = 413
      BY <2>2, Zenon DEF PendingAnswer
    <3> QED BY <3>1, <3>2 DEF Finish
  <2>4. StreamOK'
    BY <1>1, <1>4 DEF TooLarge, StreamOK
  <2> HIDE DEF rq
  <2>5. new \in SARecord
    <3>1. "done" \in SAStage /\ 413 \in SAStatus
      BY DEF SAStage, SAStatus
    <3> QED BY <2>1, <3>1, ZenonT(60) DEF SARecord
  <2>6. new.pc = "done" /\ new.status = 413 /\ new.q = rq.q /\ new.lat = 0 /\ new.ev = 0
    BY <2>1, <2>2 DEF SARecord
  <2> HIDE DEF new
  <2>7. StageOK(new)
    BY <2>2, <2>6 DEF StageOK, AppliedWhole, Limited
  <2> QED BY <1>1, <2>3, <2>4, <2>5, <2>7, OneRequest
<1>5. ASSUME NEW c \in SAClients, ingest_events(c)
      PROVE  RequestsOK' /\ StreamOK'
  <2> DEFINE rq == saRq[c]
  <2>1. rq \in SARecord /\ StageOK(rq) /\ rq.pc = "read" /\ rq.q.kind = "ingest"
    BY <1>1, <1>5 DEF RequestsOK, ingest_events
  <2>2. /\ rq.q \in SARequests /\ rq.lat = 0 /\ rq.ev = 0 /\ rq.q.length \in {"absent", "given"}
        /\ ~rq.over /\ SASum(rq.q.chunks) <= SALimit
    BY <2>1 DEF StageOK
  <2>3. saDisk' = saDisk
    BY <1>5 DEF ingest_events
  <2>4. CASE ~rq.q.valid
    <3>1. Finish(c, 422, rq) /\ saLog' = saLog
      BY <1>5, <2>4 DEF ingest_events, EventBatchValid
    <3> HIDE DEF rq
    <3> QED BY <1>1, <2>1, <2>2, <2>3, <3>1, Answering DEF StreamOK
  <2>5. CASE rq.q.valid /\ saLog = SANoLog /\ SADurable
    <3> DEFINE new == [rq EXCEPT !.pc = "peeking"]
    <3>1. saRq' = [saRq EXCEPT ![c] = new] /\ saLog' = saLog
      <4>1. saRq' = [saRq EXCEPT ![c].pc = "peeking"] /\ saLog' = saLog
        BY <1>5, <2>5 DEF ingest_events, EventBatchValid
      <4> QED BY <4>1
    <3> HIDE DEF rq
    <3>2. new \in SARecord
      BY <2>1 DEF SARecord, SAStage
    <3>3. /\ new.pc = "peeking" /\ new.q = rq.q /\ new.lat = 0 /\ new.ev = 0
          /\ new.over = rq.over
      BY <2>1, <2>2 DEF SARecord
    <3> HIDE DEF new
    <3>4. StageOK(new)
      BY <2>1, <2>2, <2>5, <3>3 DEF StageOK
    <3> QED BY <1>1, <2>3, <3>1, <3>2, <3>4, OneRequest DEF StreamOK
  <2>6. CASE rq.q.valid /\ ~(saLog = SANoLog /\ SADurable)
    <3>1. Preflight(c, rq, saLog.total)
      BY <1>5, <2>6 DEF ingest_events, EventBatchValid
    <3>2. saLog.total \in Nat
      BY <1>1 DEF LogOK
    <3> HIDE DEF rq
    <3> QED BY <1>1, <2>1, <2>3, <2>6, <3>1, <3>2, Preflighting DEF StreamOK, LogOK
  <2> QED BY <2>4, <2>5, <2>6
<1>6. ASSUME NEW c \in SAClients, PreflightLoad(c)
      PROVE  RequestsOK' /\ StreamOK'
  <2> DEFINE rq == saRq[c]
             new == [rq EXCEPT !.pc = "peeked", !.seen = saDisk.total]
  <2>1. rq \in SARecord /\ StageOK(rq) /\ rq.pc = "peeking"
    BY <1>1, <1>6 DEF RequestsOK, PreflightLoad
  <2>2. saRq' = [saRq EXCEPT ![c] = new] /\ StreamOK'
    <3>1. saRq' = [saRq EXCEPT ![c].pc = "peeked", ![c].seen = saDisk.total]
      BY <1>6 DEF PreflightLoad
    <3>2. saRq \in [SAClients -> SARecord]
      BY <1>1 DEF RequestsOK
    <3>3. saRq' = [saRq EXCEPT ![c] = new]
      BY <3>1, <3>2
    <3> QED BY <1>1, <1>6, <3>3 DEF PreflightLoad, StreamOK
  <2>3. saDisk.total \in Nat
    BY <1>1 DEF LogOK
  <2> HIDE DEF rq
  <2>4. new \in SARecord
    BY <2>1, <2>3 DEF SARecord, SAStage
  <2>5. /\ new.pc = "peeked" /\ new.q = rq.q /\ new.lat = rq.lat /\ new.ev = rq.ev
        /\ new.over = rq.over
    BY <2>1 DEF SARecord
  <2> HIDE DEF new
  <2>6. StageOK(new)
    BY <2>1, <2>5 DEF StageOK
  <2> QED BY <1>1, <2>2, <2>4, <2>6, OneRequest
<1>7. ASSUME NEW c \in SAClients, PreflightLoaded(c)
      PROVE  RequestsOK' /\ StreamOK'
  <2> DEFINE rq == saRq[c]
  <2>1. rq \in SARecord /\ StageOK(rq) /\ rq.pc = "peeked" /\ Preflight(c, rq, rq.seen)
        /\ saDisk' = saDisk
    BY <1>1, <1>7 DEF RequestsOK, PreflightLoaded
  <2> HIDE DEF rq
  <2>2. rq.seen \in Nat /\ rq.q.kind = "ingest" /\ rq.q.valid
    BY <2>1 DEF SARecord, StageOK
  <2> QED BY <1>1, <2>1, <2>2, Preflighting DEF StreamOK, LogOK
<1>8. ASSUME NEW c \in SAClients, merge_stream(c)
      PROVE  RequestsOK' /\ StreamOK'
  <2> DEFINE rq == saRq[c]
  <2>1. rq \in SARecord /\ StageOK(rq) /\ rq.pc = "read" /\ rq.q.kind = "merge" /\ saDisk' = saDisk
    BY <1>1, <1>8 DEF RequestsOK, merge_stream
  <2>2. IF rq.q.valid THEN get_or_create(c, rq) ELSE Finish(c, 422, rq) /\ saLog' = saLog
    BY <1>8 DEF merge_stream
  <2> HIDE DEF rq
  <2>3. /\ rq.q \in SARequests /\ rq.lat = 0 /\ rq.ev = 0 /\ rq.q.length \in {"absent", "given"}
        /\ ~rq.over /\ SASum(rq.q.chunks) <= SALimit
    BY <2>1 DEF StageOK
  <2>4. CASE rq.q.valid
    <3>1. Ready(rq) /\ rq.pc # "done"
      BY <2>1, <2>3, <2>4 DEF Ready
    <3> QED BY <1>1, <2>1, <2>2, <2>4, <3>1, Creating DEF StreamOK, LogOK
  <2>5. CASE ~rq.q.valid
    BY <1>1, <2>1, <2>2, <2>3, <2>5, Answering DEF StreamOK
  <2> QED BY <2>4, <2>5
<1>9. ASSUME NEW c \in SAClients, Acquired(c)
      PROVE  RequestsOK' /\ StreamOK'
  <2> DEFINE rq == saRq[c]
  <2>1. rq \in SARecord /\ StageOK(rq) /\ rq.pc = "queued" /\ get_or_create(c, rq)
        /\ saDisk' = saDisk
    BY <1>1, <1>9 DEF RequestsOK, Acquired
  <2> HIDE DEF rq
  <2>2. Ready(rq) /\ rq.pc # "done"
    BY <2>1 DEF Ready, StageOK
  <2> QED BY <1>1, <2>1, <2>2, Creating DEF StreamOK, LogOK
<1>10. ASSUME NEW c \in SAClients, Loaded(c)
       PROVE  RequestsOK' /\ StreamOK'
  <2> DEFINE rq == saRq[c]
             log == IF saDisk = SANoLog THEN SAEmpty ELSE saDisk
  <2>1. rq \in SARecord /\ StageOK(rq) /\ rq.pc = "loading" /\ Apply(c, rq, log)
        /\ saDisk' = saDisk
    BY <1>1, <1>10 DEF RequestsOK, Loaded
  <2>2. LogOK(log)
    BY <1>1 DEF LogOK, SAEmpty
  <2> HIDE DEF rq, log
  <2>3. Ready(rq)
    BY <2>1 DEF Ready, StageOK
  <2> QED BY <1>1, <2>1, <2>2, <2>3, Applying DEF StreamOK, LogOK
<1>11. ASSUME NEW c \in SAClients, LoadRaises(c)
       PROVE  RequestsOK' /\ StreamOK'
  <2> DEFINE rq == saRq[c]
  <2>1. rq \in SARecord /\ StageOK(rq) /\ rq.pc \in {"loading", "peeking"} /\ Finish(c, 500, rq)
        /\ saDisk' = saDisk /\ saLog' = saLog
    BY <1>1, <1>11 DEF RequestsOK, LoadRaises
  <2> HIDE DEF rq
  <2>2. /\ rq.q \in SARequests /\ rq.lat = 0 /\ rq.ev = 0 /\ rq.q.length \in {"absent", "given"}
        /\ ~rq.over /\ SASum(rq.q.chunks) <= SALimit
    BY <2>1 DEF StageOK
  <2> QED BY <1>1, <2>1, <2>2, Answering DEF StreamOK
<1>12. ASSUME SAFlush \/ SAEvict PROVE RequestsOK' /\ StreamOK'
  <2>1. saRq' = saRq /\ saDisk' = saLog /\ saLog' \in {saLog, SANoLog}
    BY <1>12 DEF SAFlush, SAEvict
  <2>2. StreamOK'
    BY <1>1, <2>1 DEF StreamOK, LogOK, SANoLog
  <2>3. RequestsOK'
    BY <1>1, <2>1 DEF RequestsOK, StageOK, AppliedWhole, Limited
  <2> QED BY <2>2, <2>3
<1> QED BY <1>2, <1>3, <1>4, <1>5, <1>6, <1>7, <1>8, <1>9, <1>10, <1>11, <1>12 DEF SANext

\* The settings that _configure_storage_backend honours or refuses.
LEMMA BackendHonoursSettings ==
    ASSUME NEW e \in SASettings
    PROVE  /\ e.uri => _configure_storage_backend(e) \in {"sqlalchemy", "exit"}
           /\ e.dir => _configure_storage_backend(e) \in {"omnikv", "exit"}
<1> DEFINE kind == ImplicitBackend(e)
<1>1. _configure_storage_backend(e) =
        CASE kind \in {"", "memory", "none"} -> IF e.uri \/ e.dir THEN "exit" ELSE "memory"
          [] kind \in {"sqlalchemy", "sql"}  -> IF e.uri /\ ~e.dir THEN "sqlalchemy" ELSE "exit"
          [] kind = "omnikv"                 -> IF e.dir /\ ~e.uri THEN "omnikv" ELSE "exit"
          [] OTHER                           -> "exit"
  BY DEF _configure_storage_backend
<1>2. e.uri \in BOOLEAN /\ e.dir \in BOOLEAN
  BY SAAssumption
<1> HIDE DEF kind
<1> QED BY <1>1, <1>2

\* However requests, loads, flushes and evictions interleave, for any number
\* of connections and any requests: an accepted request of ingest_events or
\* merge_stream was applied whole, a refused one changed nothing unless the
\* stream moved between the preflight and the batch, a body above the limit is
\* answered 413 and applied never, and the backend is the one asked for.
THEOREM WritesWhole == SASpecification => []SASafe
<1>1. SAInit => SAInv
  <2> SUFFICES ASSUME SAInit PROVE SAInv
    OBVIOUS
  <2>1. SASettingsHonoured
    <3>1. PICK e \in SASettings :
             saBackend = [asked |-> e, chosen |-> _configure_storage_backend(e)]
      BY DEF SAInit
    <3> QED BY <3>1, BackendHonoursSettings DEF SASettingsHonoured
  <2>2. StreamOK
    <3>1. saLog = SANoLog /\ (saDisk = SANoLog \/ saDisk \in SAStart)
      BY DEF SAInit
    <3> QED BY <3>1, SAAssumption DEF StreamOK, LogOK, SANoLog
  <2>3. SAOpen \in SARecord /\ StageOK(SAOpen)
    BY DEF SAOpen, SARecord, SAStage, SAStatus, StageOK
  <2>4. RequestsOK
    BY <2>3 DEF SAInit, RequestsOK
  <2> QED BY <2>1, <2>2, <2>4 DEF SAInv
<1>2. SAInv /\ [SANext]_saVars => SAInv'
  <2> SUFFICES ASSUME SAInv, [SANext]_saVars PROVE SAInv'
    OBVIOUS
  <2>1. CASE SANext
    <3>1. saBackend' = saBackend
      BY <2>1, ZenonT(60) DEF SANext, Arrive, limited_receive, TooLarge, ingest_events, PreflightLoad,
                  PreflightLoaded, merge_stream, Acquired, Loaded, LoadRaises, SAFlush, SAEvict
    <3>2. SASettingsHonoured'
      BY <3>1 DEF SAInv, SASettingsHonoured
    <3> QED BY <2>1, <3>2, PipelineStep DEF SAInv
  <2>2. CASE UNCHANGED saVars
    BY <2>2 DEF saVars, SAInv, RequestsOK, StreamOK, LogOK, SASettingsHonoured, StageOK,
                AppliedWhole, Limited
  <2> QED BY <2>1, <2>2
<1>3. SAInv => SASafe
  <2> SUFFICES ASSUME SAInv PROVE SASafe
    OBVIOUS
  <2>1. \A c \in SAClients : saRq[c].pc = "done" => AppliedWhole(saRq[c]) /\ Limited(saRq[c])
    BY DEF SAInv, RequestsOK, StageOK
  <2>2. SAAllOrNothing
    BY <2>1 DEF SAAllOrNothing, AppliedWhole
  <2>3. SABodyLimit
    BY <2>1 DEF SABodyLimit, Limited
  <2> QED BY <2>2, <2>3 DEF SASafe, SAInv
<1> QED
  BY <1>1, <1>2, <1>3, PTL DEF SASpecification

-----------------------------------------------------------------------------
(* ExitCodes: the regression gate and the database check.                   *)

CISpec == CIInit /\ [][CINext]_ciVars
DHSpec == DHInit /\ [][DHNext]_dhVars

\* The gate compares what it has read, and writes one file after the other.
CIInv ==
    /\ ciBase \in CIFile /\ ciCand \in CIFile /\ ciConf \in CIConf
    /\ ciPc \notin {"config", "done"} => ValidThresholds(ciConf)
    /\ ciPc # "done" => ciExit = 9
    /\ ciPc \in {"config", "load", "json"} => ciOut = {}
    /\ ciPc = "summary" => ciOut = {"json"}
    /\ ciPc \in {"json", "summary"} => ciBase.kind = "object" /\ ciCand.kind = "object"
    /\ ciPc = "json" =>
         ciSeen = compare(_load_bench_file(ciBase), _load_bench_file(ciCand), ciConf)
    /\ CIExitHonest

\* What a file is read as can be compared.
LEMMA BenchNumbers ==
    ASSUME NEW f \in CIFile
    PROVE  LET b == _load_bench_file(f)
           IN  b.p95 \in Int /\ b.p99 \in Int /\ b.rate \in Int /\ b.burn \in Int
<1>1. \A x \in CIValue : _safe_float(x, 0) \in Int /\ _safe_float(x, 1) \in Int
  BY DEF CIValue, _safe_float, Number
<1>2. \A x, y \in CIValue : Or(x, y) \in CIValue
  BY DEF Or
<1>3. /\ \A m \in {"p95", "p99", "rate"} : f.flat[m] \in CIValue /\ f.lab[m] \in CIValue
      /\ f.flat.burn \in CIValue
  BY CIAssumption
<1>4. ASSUME NEW m \in {"p95", "p99"} PROVE LatencyOf(f, m) \in Int
  BY <1>1, <1>2, <1>3 DEF LatencyOf
<1>5. BurnOf(f) \in Int
  BY <1>1, <1>3 DEF BurnOf
<1>6. _safe_float(Or(f.lab.rate, f.flat.rate), 0) \in Int
  <2>1. f.lab.rate \in CIValue /\ f.flat.rate \in CIValue
    BY <1>3
  <2> QED BY <1>1, <1>2, <2>1
<1> QED BY <1>4, <1>5, <1>6 DEF _load_bench_file

\* The comparison is monotone in each metric.
LEMMA CompareMonotone ==
    ASSUME NEW b \in CIFile, NEW c \in CIFile, NEW d \in CIFile, NEW conf \in CIConf,
           ValidThresholds(conf),
           compare(_load_bench_file(b), _load_bench_file(c), conf) = "PASS",
           _load_bench_file(d).p95 <= _load_bench_file(c).p95,
           _load_bench_file(d).p99 <= _load_bench_file(c).p99,
           _load_bench_file(d).rate >= _load_bench_file(c).rate,
           _load_bench_file(d).burn <= _load_bench_file(c).burn
    PROVE  compare(_load_bench_file(b), _load_bench_file(d), conf) = "PASS"
<1> DEFINE x == _load_bench_file(b)
           y == _load_bench_file(c)
           z == _load_bench_file(d)
<1>1. /\ x.p95 \in Int /\ x.p99 \in Int /\ x.rate \in Int /\ x.burn \in Int
      /\ y.p95 \in Int /\ y.p99 \in Int /\ y.rate \in Int /\ y.burn \in Int
      /\ z.p95 \in Int /\ z.p99 \in Int /\ z.rate \in Int /\ z.burn \in Int
  BY BenchNumbers
<1>2. conf.p95 \in Int /\ conf.p99 \in Int /\ conf.rate \in Int /\ conf.burn \in Int
  BY CIAssumption DEF ValidThresholds, Number, CIValue
<1>3. \A p, q, r, limit \in Int : r <= q /\ _pct_change(p, r, limit) => _pct_change(p, q, limit)
  <2> SUFFICES ASSUME NEW p \in Int, NEW q \in Int, NEW r \in Int, NEW limit \in Int,
                      r <= q, _pct_change(p, r, limit)
               PROVE  _pct_change(p, q, limit)
    OBVIOUS
  <2> DEFINE k == limit * p
  <2>1. k \in Int /\ p # 0 /\ (r - p) * 100 > k
    BY DEF _pct_change
  <2> HIDE DEF k
  <2>2. (q - p) * 100 > k
    BY <2>1
  <2> QED BY <2>1, <2>2 DEF k, _pct_change
<1>4. \A p, q, r, limit \in Int : r >= q /\ RateDrops(p, r, limit) => RateDrops(p, q, limit)
  <2> SUFFICES ASSUME NEW p \in Int, NEW q \in Int, NEW r \in Int, NEW limit \in Int,
                      r >= q, RateDrops(p, r, limit)
               PROVE  RateDrops(p, q, limit)
    OBVIOUS
  <2> DEFINE k == limit * p
  <2>1. k \in Int /\ p # 0 /\ (p - r) * 100 > k
    BY DEF RateDrops
  <2> HIDE DEF k
  <2>2. (p - q) * 100 > k
    BY <2>1
  <2> QED BY <2>1, <2>2 DEF k, RateDrops
<1>5. \A p, q, r, limit \in Int : r <= q /\ BurnAbove(p, r, limit) => BurnAbove(p, q, limit)
  <2> SUFFICES ASSUME NEW p \in Int, NEW q \in Int, NEW r \in Int, NEW limit \in Int,
                      r <= q, BurnAbove(p, r, limit)
               PROVE  BurnAbove(p, q, limit)
    OBVIOUS
  <2> DEFINE k == limit * p
  <2>1. k \in Int /\ (p > 0 => r > k) /\ (~(p > 0) => 1 > limit)
    BY DEF BurnAbove
  <2> HIDE DEF k
  <2>2. p > 0 => q > k
    BY <2>1
  <2> QED BY <2>1, <2>2 DEF k, BurnAbove
<1>6. /\ _pct_change(x.p95, z.p95, conf.p95) => _pct_change(x.p95, y.p95, conf.p95)
      /\ _pct_change(x.p99, z.p99, conf.p99) => _pct_change(x.p99, y.p99, conf.p99)
  BY <1>1, <1>2, <1>3
<1>7. RateDrops(x.rate, z.rate, conf.rate) => RateDrops(x.rate, y.rate, conf.rate)
  BY <1>1, <1>2, <1>4
<1>8. BurnAbove(x.burn, z.burn, conf.burn) => BurnAbove(x.burn, y.burn, conf.burn)
  BY <1>1, <1>2, <1>5
<1> QED BY <1>6, <1>7, <1>8 DEF compare

\* The gate keeps its invariant.
LEMMA GateStep == CIInv /\ [CINext]_ciVars => CIInv'
<1> SUFFICES ASSUME CIInv, [CINext]_ciVars PROVE CIInv'
  OBVIOUS
<1>1. CASE Config
  BY <1>1 DEF Config, Goto, Exit, CIInv, CIExitHonest
<1>2. CASE Load
  <2>1. CASE ciBase.kind = "broken" \/ ciCand.kind = "broken"
    BY <1>2, <2>1 DEF Load, Exit, CIInv, CIExitHonest
  <2>2. CASE ~(ciBase.kind = "broken" \/ ciCand.kind = "broken")
    <3>1. ciBase.kind = "object" /\ ciCand.kind = "object"
      BY <2>2, CIAssumption DEF CIInv
    <3>2. /\ ciSeen' = compare(_load_bench_file(ciBase), _load_bench_file(ciCand), ciConf)
          /\ ciPc' = "json" /\ UNCHANGED <<ciExit, ciBase, ciCand, ciConf, ciOut>> /\ ciPc = "load"
      BY <1>2, <2>2 DEF Load, Goto
    <3>3. compare(_load_bench_file(ciBase), _load_bench_file(ciCand), ciConf)'
            = compare(_load_bench_file(ciBase), _load_bench_file(ciCand), ciConf)
      BY <3>2 DEF compare, _load_bench_file, LatencyOf, BurnOf
    <3>4. ValidThresholds(ciConf)'
      BY <3>2 DEF CIInv, ValidThresholds
    <3> QED BY <3>1, <3>2, <3>3, <3>4 DEF CIInv, CIExitHonest
  <2> QED BY <2>1, <2>2
<1>3. CASE Write("json", "summary")
  BY <1>3 DEF Write, Goto, Exit, CIInv, CIExitHonest, ValidThresholds
<1>4. CASE Write("summary", "exit")
  BY <1>4 DEF Write, Exit, CIInv, CIExitHonest
<1>5. CASE UNCHANGED ciVars
  BY <1>5 DEF ciVars, CIInv, CIExitHonest, ValidThresholds, compare, _load_bench_file, LatencyOf, BurnOf
<1> QED BY <1>1, <1>2, <1>3, <1>4, <1>5 DEF CINext

\* What the database check has collected when it reaches each of its steps.
DHInv ==
    /\ dhEngines = IF dhPc \in {"pinging", "inspect", "select"} THEN 1 ELSE 0
    /\ dhPc # "done" => dhExit = DHNoExit
    /\ dhPc # "done" => ~dhSaw.failed
    /\ dhPc \notin {"start", "done"} =>
         /\ ValidConfig(dhConf)
         /\ advise_pool_config(dhConf) => "warn" \in dhChecks
    /\ dhPc \in {"schema", "inspect", "select"} => dhSaw.ping
    /\ dhSaw = [ping |-> dhSaw.ping, version |-> dhSaw.version, failed |-> dhSaw.failed]
    /\ DHPassMeansReady

\* The configuration is judged once and for all.
LEMMA ConfKept ==
    ASSUME dhConf' = dhConf
    PROVE  /\ ValidConfig(dhConf)' <=> ValidConfig(dhConf)
           /\ advise_pool_config(dhConf)' <=> advise_pool_config(dhConf)
<1>1. ValidConfig(dhConf)' <=> ValidConfig(dhConf)
  BY DEF ValidConfig
<1>2. advise_pool_config(dhConf)' <=> advise_pool_config(dhConf)
  BY DEF advise_pool_config
<1> QED BY <1>1, <1>2

\* Every step of the check, the database and its migrations keeps it.
LEMMA DatabaseStep == DHInv /\ [DHNext]_dhVars => DHInv'
<1> SUFFICES ASSUME DHInv, [DHNext]_dhVars PROVE DHInv'
  OBVIOUS
<1> USE DEF DHInv, DHPassMeansReady, DHNoExit
<1>1. CASE GoDown \/ ComeBack \/ Migrate
  BY <1>1 DEF GoDown, ComeBack, Migrate
<1>2. CASE Start
  <2>1. /\ dhPc = "start" /\ dhExit = DHNoExit /\ dhEngines = 0
        /\ UNCHANGED <<dhDb, dhDown, dhConf, dhEngines, dhSaw>>
    BY <1>2 DEF Start
  <2>2. CASE ~ValidConfig(dhConf)
    <3>1. dhPc' = "done" /\ dhExit' = 2
      BY <1>2, <2>2 DEF Start
    <3> QED BY <2>1, <3>1
  <2>3. CASE ValidConfig(dhConf)
    <3>1. /\ dhPc' = "ping" /\ dhExit' = dhExit
          /\ dhChecks' = {IF advise_pool_config(dhConf) THEN "warn" ELSE "pass"}
      BY <1>2, <2>3 DEF Start
    <3>2. ~dhSaw.failed
      BY <2>1
    <3>3. ValidConfig(dhConf)' /\ (advise_pool_config(dhConf)' <=> advise_pool_config(dhConf))
      BY <2>1, <2>3, ConfKept
    <3> QED BY <2>1, <3>1, <3>2, <3>3
  <2> QED BY <2>2, <2>3
<1>3. CASE OpenEngine("ping", "pinging") \/ OpenEngine("schema", "inspect")
  BY <1>3 DEF OpenEngine
<1>4. CASE Ping
  BY <1>4 DEF Ping, Done, Overall
<1>5. ASSUME NEW status, NEW saw, SchemaStatus(status, saw), dhPc \in {"inspect", "select"},
             UNCHANGED <<dhDb, dhDown, dhConf>>,
             saw = [ping |-> dhSaw.ping, version |-> saw.version, failed |-> saw.failed],
             status = "pass" => ~saw.failed /\ saw.version = dhConf.expected,
             status \in {"pass", "warn", "fail"}
      PROVE  DHInv'
  BY <1>5 DEF SchemaStatus, Done, Overall
<1>6. CASE HasTable
  BY <1>5, <1>6 DEF HasTable
<1>7. CASE SelectVersion
  BY <1>5, <1>7 DEF SelectVersion
<1>8. CASE UNCHANGED dhVars
  BY <1>8 DEF dhVars
<1> QED BY <1>1, <1>2, <1>3, <1>4, <1>6, <1>7, <1>8 DEF DHNext

\* The exit code of both tools rests on evidence, for every benchmark file,
\* threshold and configuration and whatever the database does between the
\* steps: 0 only after everything was read, compared and written, monotone in
\* the metrics, and no engine is left open.
THEOREM ExitCodesHonest == CISpec /\ DHSpec => []ToolsHonest
<1>1. CIInit => CIInv
  BY DEF CIInit, CIInv, CIExitHonest
<1>2. DHInit => DHInv
  BY DEF DHInit, DHInv, DHPassMeansReady, DHNoExit
<1>3. CIInv => CISafe
  <2> SUFFICES ASSUME CIInv PROVE CIMonotone
    BY DEF CISafe, CIInv
  <2> SUFFICES ASSUME ciPc = "json", ciSeen = "PASS", NEW f \in CIFile,
                      _load_bench_file(f).p95 <= _load_bench_file(ciCand).p95,
                      _load_bench_file(f).p99 <= _load_bench_file(ciCand).p99,
                      _load_bench_file(f).rate >= _load_bench_file(ciCand).rate,
                      _load_bench_file(f).burn <= _load_bench_file(ciCand).burn
               PROVE  compare(_load_bench_file(ciBase), _load_bench_file(f), ciConf) = "PASS"
    BY DEF CIMonotone
  <2> QED BY CompareMonotone DEF CIInv
<1>4. DHInv => DHSafe
  BY DEF DHInv, DHSafe, DHEnginesDisposed
<1>5. CIInv /\ DHInv => ToolsHonest
  BY <1>3, <1>4 DEF ToolsHonest
<1> QED BY <1>1, <1>2, <1>5, GateStep, DatabaseStep, PTL DEF CISpec, DHSpec

=============================================================================
