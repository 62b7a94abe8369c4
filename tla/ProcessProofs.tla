---------------------------- MODULE ProcessProofs ----------------------------
(***************************************************************************)
(* Proofs about five of the components that run in threads or processes    *)
(* of their own: the drift alert loop (AlertEngine), the client libraries  *)
(* (Clients), the Kubernetes operator (K8sOperator), the alert manager     *)
(* (AlertManager) and the eBPF latency collector (EbpfCollector).          *)
(***************************************************************************)
EXTENDS AlertEngine, Clients, K8sOperator, AlertManager, EbpfCollector,
        FiniteSetTheorems, NaturalsInduction, WellFoundedInduction, TLAPS

-----------------------------------------------------------------------------
(* AlertEngine: one loop, sustained violations, a receiver that agrees.     *)

AESpec == AEInit /\ [][AENext]_aeVars

AESay(status) == IF status = "FIRING" THEN "firing" ELSE "resolved"
AENotice == AERule \X {"firing", "resolved"}

\* The types of a polling thread and of the rules' states.
AETypes ==
    /\ DOMAIN aeLoop = AELoop
    /\ \A l \in AELoop : /\ aeLoop[l] = [pc |-> aeLoop[l].pc, seen |-> aeLoop[l].seen,
                                         queue |-> aeLoop[l].queue]
                         /\ aeLoop[l].queue \in Seq(AENotice)
                         /\ aeLoop[l].pc \in {"dead", "check", "apply", "send"}
    /\ \A r \in AERule : aeState[r].count \in Nat
    /\ DOMAIN aeState = AERule /\ DOMAIN aeRun = AERule
    /\ DOMAIN aeAt = AERule /\ DOMAIN aeHeard = AERule

\* Two threads that live are one, and only a thread that sends has notices.
AEAlone ==
    /\ \A k, l \in AELive : k = l
    /\ \A l \in AELoop : aeLoop[l].pc # "send" => aeLoop[l].queue = <<>>

\* A rule's count is the number of violating evaluations in a row, and a rule
\* fires only when it has reached what the rule asks for.
AECounted ==
    \A r \in AERule : /\ aeState[r].count = aeRun[r]
                      /\ aeState[r].status = "FIRING" => aeState[r].count >= r.sustained

\* What is queued about a rule is its state; nothing queued, the receiver
\* knows the state if the last post was answered.
AEQueued(r) ==
    \E l \in AELoop : \E i \in 1 .. Len(aeLoop[l].queue) : aeLoop[l].queue[i][1] = r
AETold ==
    /\ \A l \in AELoop : \A i \in 1 .. Len(aeLoop[l].queue) :
          aeLoop[l].queue[i][2] = AESay(aeState[aeLoop[l].queue[i][1]].status)
    /\ \A r \in AERule : AEQueued(r) \/ (aeHeard[r] => aeAt[r] = AESay(aeState[r].status))

AEInv == AETypes /\ AEAlone /\ AECounted /\ AETold

\* A set all of whose members are equal has at most one.
LEMMA AtMostOne ==
    ASSUME NEW S, \A x, y \in S : x = y
    PROVE  Cardinality(S) <= 1
<1>1. CASE S = {}
  BY <1>1, FS_EmptySet
<1>2. CASE S # {}
  <2>1. PICK x : x \in S
    BY <1>2
  <2>2. S = {x}
    BY <2>1
  <2> QED BY <2>2, FS_Singleton
<1> QED BY <1>1, <1>2

\* The order in which notices are sent leaves none out.
LEMMA InOrderCovers ==
    ASSUME NEW told, IsFiniteSet(told)
    PROVE  /\ Cardinality(told) \in Nat
           /\ InOrder(told) \in [1 .. Cardinality(told) -> told]
           /\ \A r \in told : \E i \in 1 .. Cardinality(told) : InOrder(told)[i] = r
<1> DEFINE n == Cardinality(told)
           Good(f) == \A i, j \in 1 .. n : f[i] = f[j] => i = j
<1>1. n \in Nat
  BY FS_CardinalityType
<1>2. IsFiniteSet(1 .. n) /\ Cardinality(1 .. n) = n
  BY <1>1, FS_Interval
<1>3. ExistsBijection(1 .. n, told)
  BY <1>2, FS_SameCardinalityBij
<1>4. PICK f : f \in Bijection(1 .. n, told)
  BY <1>3 DEF ExistsBijection
<1>5. f \in [1 .. n -> told] /\ Good(f)
  BY <1>4 DEF Bijection, Injection, IsInjective
<1>6. InOrder(told) = CHOOSE g \in [1 .. n -> told] : Good(g)
  BY DEF InOrder
<1> HIDE DEF Good
<1>7. InOrder(told) \in [1 .. n -> told] /\ Good(InOrder(told))
  BY <1>5, <1>6, Zenon
<1>8. InOrder(told) \in Injection(1 .. n, told)
  BY <1>7 DEF Injection, IsInjective, Good
<1>9. InOrder(told) \in Surjection(1 .. n, told)
  BY <1>2, <1>8, FS_Injection
<1> QED BY <1>1, <1>7, <1>9 DEF Surjection
\* What one evaluation does to a rule: it counts as the ghost does, fires only
\* when sustained, and what it says is the new state; it is silent only when
\* the receiver's view need not change.
LEMMA RuleEvaluated ==
    ASSUME AETypes, AECounted, NEW seen, NEW hit, NEW r \in AERule
    PROVE  LET a == Evaluate(seen, hit)[r]
           IN  /\ a.count \in Nat
               /\ a.count = IF ~Evaluated(r, seen) THEN aeRun[r]
                            ELSE IF r \in hit THEN aeRun[r] + 1 ELSE 0
               /\ a.status = "FIRING" => a.count >= r.sustained
               /\ a.say = "nothing" => AESay(a.status) = AESay(aeState[r].status)
               /\ a.say # "nothing" => a.say = AESay(a.status)
<1> DEFINE a == Evaluate(seen, hit)[r]
           s == aeState[r]
<1>1. /\ s.count \in Nat /\ s.count = aeRun[r] /\ r.sustained \in Nat
      /\ s.status = "FIRING" => s.count >= r.sustained
  BY AEAssumption DEF AETypes, AECounted
<1>2. CASE ~Evaluated(r, seen)
  <2>1. a = [status |-> s.status, count |-> s.count, last |-> s.last, say |-> "nothing"]
    BY <1>2 DEF Evaluate
  <2> HIDE DEF a
  <2> QED BY <1>1, <1>2, <2>1 DEF a
<1>3. CASE Evaluated(r, seen) /\ r \in hit
  <2>1. a = Violating(r, s)
    BY <1>3 DEF Evaluate
  <2>2. a.count = s.count + 1
    BY <2>1 DEF Violating
  <2>3. CASE s.count + 1 < r.sustained
    <3>1. a.status = "PENDING" /\ a.say = "nothing"
      BY <2>1, <2>3 DEF Violating
    <3>2. s.status # "FIRING"
      BY <1>1, <2>3
    <3> HIDE DEF a
    <3> QED BY <1>1, <1>3, <2>2, <3>1, <3>2 DEF AESay, a
  <2>4. CASE ~(s.count + 1 < r.sustained)
    <3>1. a.status = "FIRING" /\ a.say \in {"nothing", "firing"}
          /\ (a.say = "nothing" => s.status = "FIRING")
      BY <2>1, <2>4 DEF Violating
    <3> HIDE DEF a
    <3> QED BY <1>1, <1>3, <2>2, <2>4, <3>1 DEF AESay, a
  <2> QED BY <2>3, <2>4
<1>4. CASE Evaluated(r, seen) /\ r \notin hit
  <2>1. a = Quiet(s)
    BY <1>4 DEF Evaluate
  <2>2. /\ a.count = 0 /\ a.status = "OK"
        /\ a.say = IF s.status = "FIRING" THEN "resolved" ELSE "nothing"
    BY <2>1 DEF Quiet
  <2> HIDE DEF a
  <2> QED BY <1>1, <1>4, <2>2 DEF AESay, a
<1> QED BY <1>2, <1>3, <1>4

\* The notices of an evaluation: one for every rule it says something of.
LEMMA NoticesSay ==
    ASSUME NEW after, \A r \in AERule : after[r].say \in {"nothing", "firing", "resolved"}
    PROVE  /\ Notices(after) \in Seq(AENotice)
           /\ \A i \in 1 .. Len(Notices(after)) :
                 /\ Notices(after)[i][1] \in AERule
                 /\ after[Notices(after)[i][1]].say # "nothing"
                 /\ Notices(after)[i][2] = after[Notices(after)[i][1]].say
           /\ \A r \in AERule : after[r].say # "nothing" =>
                 \E i \in 1 .. Len(Notices(after)) : Notices(after)[i][1] = r
<1> DEFINE told == {r \in AERule : after[r].say # "nothing"}
           n == Cardinality(told)
           f == InOrder(told)
<1>1. IsFiniteSet(told)
  BY AEAssumption, FS_Subset
<1>2. /\ n \in Nat /\ f \in [1 .. n -> told]
      /\ \A r \in told : \E i \in 1 .. n : f[i] = r
  <2> HIDE DEF told
  <2> QED BY <1>1, InOrderCovers
<1>3. Notices(after) = [i \in 1 .. n |-> <<f[i], after[f[i]].say>>]
  BY DEF Notices
<1> HIDE DEF f, n
<1>4. \A i \in 1 .. n : /\ f[i] \in AERule /\ after[f[i]].say # "nothing"
                        /\ after[f[i]].say \in {"firing", "resolved"}
  BY <1>2
<1>5. \A i \in 1 .. n : <<f[i], after[f[i]].say>> \in AENotice
  BY <1>4 DEF AENotice
<1>6. Notices(after) \in Seq(AENotice) /\ Len(Notices(after)) = n
  BY <1>2, <1>3, <1>5
<1>7. \A i \in 1 .. n : Notices(after)[i][1] = f[i] /\ Notices(after)[i][2] = after[f[i]].say
  BY <1>3
<1>8. \A r \in AERule : after[r].say # "nothing" => \E i \in 1 .. n : f[i] = r
  BY <1>2
<1> QED BY <1>4, <1>6, <1>7, <1>8

\* An evaluation keeps the invariant: the thread that makes it is alone.
LEMMA ApplyStep ==
    ASSUME AEInv, NEW l \in AELoop, Apply(l)
    PROVE  AEInv'
<1>1. PICK hit :
        LET after == Evaluate(aeLoop[l].seen, hit)
        IN  /\ aeState' = [r \in AERule |-> [status |-> after[r].status,
                                             count |-> after[r].count, last |-> after[r].last]]
            /\ aeLoop' = [aeLoop EXCEPT ![l] = [pc |-> "send", seen |-> AENothing,
                                                queue |-> Notices(after)]]
            /\ aeRun' = [r \in AERule |-> IF ~Evaluated(r, aeLoop[l].seen) THEN aeRun[r]
                                          ELSE IF r \in hit THEN aeRun[r] + 1 ELSE 0]
  BY DEF Apply
<1> DEFINE seen == aeLoop[l].seen
           after == Evaluate(seen, hit)
           q == Notices(after)
<1>2. \A r \in AERule :
        /\ after[r].count \in Nat
        /\ after[r].count = IF ~Evaluated(r, seen) THEN aeRun[r]
                            ELSE IF r \in hit THEN aeRun[r] + 1 ELSE 0
        /\ after[r].status = "FIRING" => after[r].count >= r.sustained
        /\ after[r].say = "nothing" => AESay(after[r].status) = AESay(aeState[r].status)
        /\ after[r].say # "nothing" => after[r].say = AESay(after[r].status)
  BY RuleEvaluated DEF AEInv
<1> HIDE DEF after
<1>3. \A r \in AERule : after[r].say \in {"nothing", "firing", "resolved"}
  BY <1>2 DEF AESay
<1>4. /\ q \in Seq(AENotice)
      /\ \A i \in 1 .. Len(q) : q[i][1] \in AERule /\ after[q[i][1]].say # "nothing"
                                /\ q[i][2] = after[q[i][1]].say
      /\ \A r \in AERule : after[r].say # "nothing" => \E i \in 1 .. Len(q) : q[i][1] = r
  BY <1>3, NoticesSay
<1> HIDE DEF q
<1>5. /\ DOMAIN aeState' = AERule /\ DOMAIN aeRun' = AERule
      /\ \A r \in AERule : /\ aeState'[r].status = after[r].status
                           /\ aeState'[r].count = after[r].count
      /\ \A r \in AERule : aeRun'[r] = IF ~Evaluated(r, seen) THEN aeRun[r]
                                       ELSE IF r \in hit THEN aeRun[r] + 1 ELSE 0
  BY <1>1 DEF after
<1>6. /\ DOMAIN aeLoop' = AELoop
      /\ aeLoop'[l] = [pc |-> "send", seen |-> AENothing, queue |-> q]
      /\ \A k \in AELoop \ {l} : aeLoop'[k] = aeLoop[k]
  BY <1>1 DEF after, q, AEInv, AETypes
<1>7. /\ aeLoop'[l].pc = "send" /\ aeLoop'[l].queue = q /\ aeLoop'[l].seen = AENothing
      /\ aeLoop[l].pc = "apply" /\ UNCHANGED <<aeAt, aeHeard>>
  BY <1>6 DEF Apply
<1>8. \A k \in AELoop \ {l} : aeLoop[k].pc = "dead"
  BY <1>7 DEF AEInv, AEAlone, AELive
<1>9. \A k \in AELoop : aeLoop[k].queue = <<>>
  BY <1>7, <1>8 DEF AEInv, AEAlone
<1>10. AETypes'
  <2>1. ASSUME NEW k \in AELoop
        PROVE  /\ aeLoop'[k] = [pc |-> aeLoop'[k].pc, seen |-> aeLoop'[k].seen,
                                queue |-> aeLoop'[k].queue]
               /\ aeLoop'[k].queue \in Seq(AENotice)
               /\ aeLoop'[k].pc \in {"dead", "check", "apply", "send"}
    <3>1. CASE k = l
      BY <1>4, <1>6, <1>7, <3>1
    <3>2. CASE k # l
      <4>1. aeLoop'[k] = aeLoop[k]
        BY <1>6, <3>2
      <4> QED BY <4>1 DEF AEInv, AETypes
    <3> QED BY <3>1, <3>2
  <2>2. \A r \in AERule : aeState'[r].count \in Nat
    BY <1>2, <1>5
  <2>3. DOMAIN aeAt' = AERule /\ DOMAIN aeHeard' = AERule
    BY <1>7 DEF AEInv, AETypes
  <2> QED BY <1>5, <1>6, <2>1, <2>2, <2>3 DEF AETypes
<1>11. AEAlone'
  <2>1. \A k \in AELoop \ {l} : aeLoop'[k].pc = "dead" /\ aeLoop'[k].queue = <<>>
    BY <1>6, <1>8, <1>9
  <2>2. \A k \in AELive' : k = l
    BY <2>1 DEF AELive
  <2> QED BY <1>7, <2>1, <2>2 DEF AEAlone
<1>12. AECounted'
  BY <1>2, <1>5 DEF AECounted
<1>13. ASSUME NEW k \in AELoop, NEW i \in 1 .. Len(aeLoop'[k].queue)
       PROVE  aeLoop'[k].queue[i][2] = AESay(aeState'[aeLoop'[k].queue[i][1]].status)
  <2>1. CASE k = l
    BY <1>2, <1>4, <1>5, <1>7, <2>1
  <2>2. CASE k # l
    BY <1>6, <1>9, <2>2
  <2> QED BY <2>1, <2>2
<1>14. ASSUME NEW r \in AERule
       PROVE  AEQueued(r)' \/ (aeHeard'[r] => aeAt'[r] = AESay(aeState'[r].status))
  <2>1. CASE after[r].say # "nothing"
    BY <1>4, <1>7, <2>1 DEF AEQueued
  <2>2. CASE after[r].say = "nothing"
    <3>1. ~AEQueued(r)
      BY <1>9 DEF AEQueued
    <3>2. aeHeard[r] => aeAt[r] = AESay(aeState[r].status)
      BY <3>1 DEF AEInv, AETold
    <3> QED BY <1>2, <1>5, <1>7, <2>2, <3>2
  <2> QED BY <2>1, <2>2
<1>15. AETold'
  BY <1>13, <1>14 DEF AETold
<1> QED BY <1>10, <1>11, <1>12, <1>15 DEF AEInv

\* A step of a thread that is not about notices: the thread l becomes t, which
\* has no more notices than before, and the rules keep their states.
LEMMA ThreadStep ==
    ASSUME AEInv, NEW l \in AELoop, NEW pc \in {"dead", "check", "apply", "send"}, NEW seen,
           aeLoop' = [aeLoop EXCEPT ![l] = [pc |-> pc, seen |-> seen, queue |-> <<>>]],
           aeLoop[l].queue = <<>>, UNCHANGED <<aeState, aeAt, aeHeard, aeRun>>,
           aeLoop[l].pc # "dead" \/ AELive = {}
    PROVE  AEInv'
<1>1. /\ DOMAIN aeLoop' = AELoop
      /\ aeLoop'[l] = [pc |-> pc, seen |-> seen, queue |-> <<>>]
      /\ \A k \in AELoop \ {l} : aeLoop'[k] = aeLoop[k]
  BY DEF AEInv, AETypes
<1>2. aeLoop'[l].pc = pc /\ aeLoop'[l].queue = <<>> /\ aeLoop'[l].seen = seen
  BY <1>1
<1>3. \A k \in AELoop : aeLoop'[k].queue = aeLoop[k].queue
  BY <1>1, <1>2
<1>4. AETypes'
  <2>1. ASSUME NEW k \in AELoop
        PROVE  /\ aeLoop'[k] = [pc |-> aeLoop'[k].pc, seen |-> aeLoop'[k].seen,
                                queue |-> aeLoop'[k].queue]
               /\ aeLoop'[k].queue \in Seq(AENotice)
               /\ aeLoop'[k].pc \in {"dead", "check", "apply", "send"}
    <3>1. CASE k = l
      BY <1>1, <1>2, <3>1
    <3>2. CASE k # l
      <4>1. aeLoop'[k] = aeLoop[k]
        BY <1>1, <3>2
      <4> QED BY <4>1 DEF AEInv, AETypes
    <3> QED BY <3>1, <3>2
  <2> QED BY <1>1, <2>1 DEF AEInv, AETypes
<1>5. AEAlone'
  <2>1. \A k \in AELoop \ {l} : aeLoop'[k].pc = "dead"
    BY <1>1 DEF AEInv, AEAlone, AELive
  <2>2. \A k \in AELive' : k = l
    BY <2>1 DEF AELive
  <2>3. \A k \in AELoop : aeLoop'[k].pc # "send" => aeLoop'[k].queue = <<>>
    BY <1>1, <1>2 DEF AEInv, AEAlone
  <2> QED BY <2>2, <2>3 DEF AEAlone
<1>6. AECounted'
  BY DEF AEInv, AECounted
<1>7. \A r : AEQueued(r)' <=> AEQueued(r)
  BY <1>3 DEF AEQueued
<1>8. AETold'
  BY <1>3, <1>7 DEF AEInv, AETold
<1> QED BY <1>4, <1>5, <1>6, <1>8 DEF AEInv

\* A post: the head of the queue leaves it, and the receiver knows it or the
\* post was not answered.
LEMMA SendStep ==
    ASSUME AEInv, NEW l \in AELoop, NEW answered \in BOOLEAN, NEW reached \in BOOLEAN,
           Send(l, answered, reached)
    PROVE  AEInv'
<1> DEFINE q == aeLoop[l].queue
           m == Head(q)
<1>1. /\ aeLoop[l].pc = "send" /\ q # <<>> /\ q \in Seq(AENotice)
      /\ answered => reached
      /\ aeAt' = [aeAt EXCEPT ![m[1]] = IF reached THEN m[2] ELSE @]
      /\ aeHeard' = [aeHeard EXCEPT ![m[1]] = answered]
      /\ aeLoop' = [aeLoop EXCEPT ![l] = [pc |-> "send", seen |-> @.seen, queue |-> Tail(@.queue)]]
      /\ UNCHANGED <<aeState, aeRun>>
  BY DEF Send, AEInv, AETypes
<1>3. /\ DOMAIN aeLoop' = AELoop
      /\ aeLoop'[l] = [pc |-> "send", seen |-> aeLoop[l].seen, queue |-> Tail(q)]
      /\ \A k \in AELoop \ {l} : aeLoop'[k] = aeLoop[k]
  BY <1>1 DEF AEInv, AETypes
<1>4. /\ Tail(q) \in Seq(AENotice) /\ Len(q) \in Nat \ {0} /\ Len(Tail(q)) = Len(q) - 1
      /\ \A i \in 1 .. Len(Tail(q)) : Tail(q)[i] = q[i + 1]
      /\ m = q[1] /\ m \in AENotice
  BY <1>1
<1>5. m[1] \in AERule /\ m[2] = AESay(aeState[m[1]].status)
  <2>1. 1 \in 1 .. Len(q)
    BY <1>4
  <2> QED BY <1>4, <2>1 DEF AENotice, AEInv, AETold
<1> HIDE DEF m
<1>6. aeLoop'[l].pc = "send" /\ aeLoop'[l].queue = Tail(q)
  BY <1>3
<1>7. AETypes'
  <2>1. ASSUME NEW k \in AELoop
        PROVE  /\ aeLoop'[k] = [pc |-> aeLoop'[k].pc, seen |-> aeLoop'[k].seen,
                                queue |-> aeLoop'[k].queue]
               /\ aeLoop'[k].queue \in Seq(AENotice)
               /\ aeLoop'[k].pc \in {"dead", "check", "apply", "send"}
    <3>1. CASE k = l
      BY <1>3, <1>4, <3>1, SMTT(60)
    <3>2. CASE k # l
      <4>1. aeLoop'[k] = aeLoop[k]
        BY <1>3, <3>2
      <4> QED BY <4>1 DEF AEInv, AETypes
    <3> QED BY <3>1, <3>2
  <2>2. DOMAIN aeAt' = AERule /\ DOMAIN aeHeard' = AERule
    BY <1>1 DEF AEInv, AETypes
  <2> QED BY <1>1, <1>3, <2>1, <2>2 DEF AEInv, AETypes
<1>8. AEAlone'
  <2>1. \A k \in AELoop \ {l} : aeLoop'[k].pc = "dead"
    BY <1>1, <1>3 DEF AEInv, AEAlone, AELive
  <2>2. \A k \in AELive' : k = l
    BY <2>1 DEF AELive
  <2>3. \A k \in AELoop : aeLoop'[k].pc # "send" => aeLoop'[k].queue = <<>>
    BY <1>3, <1>6 DEF AEInv, AEAlone
  <2> QED BY <2>2, <2>3 DEF AEAlone
<1>9. AECounted'
  BY <1>1 DEF AEInv, AECounted
<1>10. ASSUME NEW k \in AELoop, NEW i \in 1 .. Len(aeLoop'[k].queue)
       PROVE  aeLoop'[k].queue[i][2] = AESay(aeState'[aeLoop'[k].queue[i][1]].status)
  <2>1. CASE k = l
    <3>0. i \in 1 .. Len(Tail(q)) /\ aeLoop'[k].queue[i] = Tail(q)[i]
      BY <1>6, <2>1
    <3>1. i + 1 \in 1 .. Len(q) /\ aeLoop'[k].queue[i] = q[i + 1]
      BY <1>4, <3>0
    <3>2. q[i + 1][2] = AESay(aeState[q[i + 1][1]].status)
      BY <3>1 DEF AEInv, AETold
    <3> QED BY <1>1, <3>1, <3>2
  <2>2. CASE k # l
    BY <1>1, <1>3, <2>2 DEF AEInv, AETold
  <2> QED BY <2>1, <2>2
<1>11. ASSUME NEW r \in AERule
       PROVE  AEQueued(r)' \/ (aeHeard'[r] => aeAt'[r] = AESay(aeState'[r].status))
  <2>1. CASE r = m[1]
    BY <1>1, <1>5, <2>1 DEF AEInv, AETypes
  <2>2. CASE r # m[1]
    <3>1. aeAt'[r] = aeAt[r] /\ aeHeard'[r] = aeHeard[r]
      BY <1>1, <2>2 DEF AEInv, AETypes
    <3>2. ASSUME AEQueued(r)
          PROVE  AEQueued(r)'
      <4>1. PICK k \in AELoop : \E i \in 1 .. Len(aeLoop[k].queue) : aeLoop[k].queue[i][1] = r
        BY <3>2 DEF AEQueued
      <4>2. CASE k # l
        BY <1>3, <4>1, <4>2 DEF AEQueued
      <4>3. CASE k = l
        <5>1. PICK i \in 1 .. Len(q) : q[i][1] = r
          BY <4>1, <4>3
        <5>2. i # 1
          BY <1>4, <2>2, <5>1
        <5>3. i - 1 \in 1 .. Len(Tail(q)) /\ Tail(q)[i - 1] = q[i]
          BY <1>4, <5>2
        <5> QED BY <1>6, <5>1, <5>3 DEF AEQueued
      <4> QED BY <4>2, <4>3
    <3>3. AEQueued(r) \/ (aeHeard[r] => aeAt[r] = AESay(aeState[r].status))
      BY DEF AEInv, AETold
    <3> QED BY <1>1, <3>1, <3>2, <3>3
  <2> QED BY <2>1, <2>2
<1>12. AETold'
  BY <1>10, <1>11 DEF AETold
<1> QED BY <1>7, <1>8, <1>9, <1>12 DEF AEInv

\* Every step of the alert engine keeps the invariant.
LEMMA AlertStep ==
    ASSUME AEInv, [AENext]_aeVars
    PROVE  AEInv'
<1>1. ASSUME UNCHANGED <<aeLoop, aeState, aeAt, aeHeard, aeRun>>
      PROVE  AEInv'
  BY <1>1 DEF AEInv, AETypes, AEAlone, AELive, AECounted, AETold, AEQueued
<1>2. CASE AETick \/ AEStopCall \/ UNCHANGED aeVars
  BY <1>1, <1>2 DEF AETick, AEStopCall, aeVars
<1>3. CASE AEStart
  <2>1. PICK l \in AELoop \ AELive :
          aeLoop' = [aeLoop EXCEPT ![l] = [pc |-> "check", seen |-> AENothing, queue |-> <<>>]]
    BY <1>3 DEF AEStart, StartLoop
  <2>2. aeLoop[l].pc = "dead" /\ aeLoop[l].queue = <<>>
    BY <2>1 DEF AEInv, AEAlone, AELive
  <2>3. AELive = {} /\ UNCHANGED <<aeState, aeAt, aeHeard, aeRun>>
    BY <1>3 DEF AEStart, StartLoop
  <2> QED BY <2>1, <2>2, <2>3, ThreadStep
<1>4. ASSUME NEW l \in AELoop, LoopEnds(l)
      PROVE  AEInv'
  <2>1. /\ aeLoop' = [aeLoop EXCEPT ![l] = [pc |-> "dead", seen |-> AENothing, queue |-> <<>>]]
        /\ aeLoop[l].pc = "check" /\ UNCHANGED <<aeState, aeAt, aeHeard, aeRun>>
    BY <1>4 DEF LoopEnds, AEDead
  <2>2. aeLoop[l].queue = <<>>
    BY <2>1 DEF AEInv, AEAlone
  <2> QED BY <2>1, <2>2, ThreadStep
<1>5. ASSUME NEW l \in AELoop, Poll(l)
      PROVE  AEInv'
  <2>1. PICK seen :
          aeLoop' = [aeLoop EXCEPT ![l] = [pc |-> "apply", seen |-> seen, queue |-> @.queue]]
    BY <1>5 DEF Poll
  <2>2. aeLoop[l].pc = "check" /\ UNCHANGED <<aeState, aeAt, aeHeard, aeRun>>
    BY <1>5 DEF Poll
  <2>3. aeLoop[l].queue = <<>>
    BY <2>2 DEF AEInv, AEAlone
  <2>5. aeLoop' = [aeLoop EXCEPT ![l] = [pc |-> "apply", seen |-> seen, queue |-> <<>>]]
    BY <2>1, <2>3
  <2> QED BY <2>2, <2>3, <2>5, ThreadStep
<1>6. ASSUME NEW l \in AELoop, Wait(l)
      PROVE  AEInv'
  <2>1. /\ aeLoop' = [aeLoop EXCEPT ![l] = [pc |-> "check", seen |-> @.seen, queue |-> @.queue]]
        /\ aeLoop[l].queue = <<>>
        /\ aeLoop[l].pc = "send" /\ UNCHANGED <<aeState, aeAt, aeHeard, aeRun>>
    BY <1>6 DEF Wait
  <2>3. aeLoop' = [aeLoop EXCEPT ![l] = [pc |-> "check", seen |-> aeLoop[l].seen, queue |-> <<>>]]
    BY <2>1
  <2> QED BY <2>1, <2>3, ThreadStep
<1> QED
  BY <1>2, <1>3, <1>4, <1>5, <1>6, ApplyStep, SendStep DEF AENext, AELoopStep

\* stop() and start() never leave two polling threads at work, an alert fires
\* only after the violations in a row its rule asks for, and between two
\* evaluations a receiver whose answer came knows the state of every rule.
\* For any rules, reports, threads and times, and whatever posts are lost.
THEOREM AlertsSustainedAndTold == AESpec => []AESafe
<1>1. AEInit => AEInv
  <2> SUFFICES ASSUME AEInit
               PROVE  AEInv
    OBVIOUS
  <2>1. \A l \in AELoop : aeLoop[l] = [pc |-> "dead", seen |-> AENothing, queue |-> <<>>]
    BY DEF AEInit, AEDead
  <2>0. /\ DOMAIN aeLoop = AELoop /\ DOMAIN aeState = AERule /\ DOMAIN aeRun = AERule
        /\ DOMAIN aeAt = AERule /\ DOMAIN aeHeard = AERule
        /\ \A r \in AERule : aeState[r].count = 0
    BY DEF AEInit
  <2>2. AETypes
    <3>1. ASSUME NEW l \in AELoop
          PROVE  /\ aeLoop[l] = [pc |-> aeLoop[l].pc, seen |-> aeLoop[l].seen,
                                 queue |-> aeLoop[l].queue]
                 /\ aeLoop[l].queue \in Seq(AENotice)
                 /\ aeLoop[l].pc \in {"dead", "check", "apply", "send"}
      <4>1. aeLoop[l] = [pc |-> "dead", seen |-> AENothing, queue |-> <<>>]
        BY <2>1
      <4>2. /\ aeLoop[l].pc = "dead" /\ aeLoop[l].seen = AENothing
            /\ aeLoop[l].queue = <<>>
        BY <4>1
      <4>3. <<>> \in Seq(AENotice)
        OBVIOUS
      <4> QED BY <4>1, <4>2, <4>3
    <3> QED BY <2>0, <3>1 DEF AETypes
  <2>3. AEAlone
    BY <2>1 DEF AEAlone, AELive
  <2>4. \A r \in AERule : aeState[r].count = 0 /\ aeState[r].status = "OK" /\ aeRun[r] = 0
                          /\ aeHeard[r] = FALSE
    BY DEF AEInit
  <2> QED BY <2>1, <2>2, <2>3, <2>4 DEF AEInv, AECounted, AETold
<1>2. AEInv /\ [AENext]_aeVars => AEInv'
  BY AlertStep
<1>3. AEInv => AESafe
  <2> SUFFICES ASSUME AEInv
               PROVE  AESafe
    OBVIOUS
  <2>1. AEOneLoop
    BY AtMostOne DEF AEInv, AEAlone, AEOneLoop
  <2>2. AESustained
    BY DEF AEInv, AECounted, AESustained
  <2>3. AEReceiverAgrees
    <3> SUFFICES ASSUME \A l \in AELoop : aeLoop[l].pc \in {"dead", "check"},
                        NEW r \in AERule, aeHeard[r]
                 PROVE  aeAt[r] = AESay(aeState[r].status)
      BY DEF AEReceiverAgrees, AESay
    <3>1. \A l \in AELoop : aeLoop[l].queue = <<>>
      BY DEF AEInv, AEAlone
    <3>2. ~AEQueued(r)
      BY <3>1 DEF AEQueued
    <3> QED BY <3>2 DEF AEInv, AETold
  <2> QED BY <2>1, <2>2, <2>3 DEF AESafe
<1> QED
  BY <1>1, <1>2, <1>3, PTL DEF AESpec

-----------------------------------------------------------------------------
(* Clients: attempts of a call, and the subscription's errors in a row.     *)

CLSpec == CLInit /\ [][CLNext]_clVars

CLRecord == [pc : {"idle", "ready", "sent", "returned", "raised"}, method : {"GET", "POST"},
             attempt : Nat, applied : Nat, answers : Seq(Nat), pool : Nat]

\* The answers after which a call goes on.
CLPassing == {503, 429, NoAnswer, TimedOut}

\* A call has one answer for every attempt but the one under way, and was
\* applied once for each of them at most.
CLAttempts(x) ==
    /\ x \in CLRecord
    /\ x.attempt <= CLRetries + 1
    /\ x.pc = "idle" => x.attempt = 0
    /\ x.pc = "ready" => x.attempt <= CLRetries
    /\ x.pc = "sent" => x.attempt > 0
    /\ Len(x.answers) = IF x.pc = "sent" THEN x.attempt - 1 ELSE x.attempt
    /\ x.applied <= Len(x.answers)

\* A POST of the Go and TypeScript clients is attempted once.
CLOnce(x) ==
    clLang # "python" /\ x.method = "POST" =>
        /\ x.attempt <= 1
        /\ x.pc \in {"idle", "ready"} => x.attempt = 0

\* Only the last answer of a call that has ended may be final.
CLFinal(x) ==
    /\ \A i \in 1 .. Len(x.answers) :
          i < Len(x.answers) \/ x.pc \in {"idle", "ready", "sent"} => x.answers[i] \in CLPassing
    /\ x.pc = "returned" => /\ Len(x.answers) > 0 /\ x.answers[Len(x.answers)] = 200
                            /\ x.applied > 0
    /\ (/\ x.pc = "raised" /\ clLang # "python" /\ x.method = "GET"
        /\ Len(x.answers) > 0 /\ x.answers[Len(x.answers)] = 503) =>
             Len(x.answers) = CLRetries + 1

CLCallOK(x) == CLAttempts(x) /\ CLOnce(x) /\ CLFinal(x)

\* A call that starts, or is refused because the client is not open.
LEMMA CallBegins ==
    ASSUME NEW x, CLCallOK(x), x.pc = "idle", NEW method \in {"GET", "POST"},
           NEW pc \in {"ready", "raised"}, pc = "raised" => clLang = "python"
    PROVE  CLCallOK([x EXCEPT !.method = method, !.pc = pc])
<1> DEFINE y == [x EXCEPT !.method = method, !.pc = pc]
<1>1. x \in CLRecord
  BY DEF CLCallOK, CLAttempts
<1>2. /\ y \in CLRecord /\ y.pc = pc /\ y.method = method /\ y.attempt = x.attempt
      /\ y.applied = x.applied /\ y.answers = x.answers
  BY <1>1 DEF CLRecord
<1> HIDE DEF y
<1>3. x.attempt = 0 /\ Len(x.answers) = 0 /\ CLRetries \in Nat
  BY CLAssumption DEF CLCallOK, CLAttempts
<1>4. CLAttempts(y)
  BY <1>2, <1>3 DEF CLCallOK, CLAttempts
<1>5. CLOnce(y)
  BY <1>2, <1>3 DEF CLOnce
<1>6. CLFinal(y)
  BY <1>2, <1>3 DEF CLFinal
<1> QED BY <1>4, <1>5, <1>6 DEF CLCallOK, y

\* An attempt that cannot go out, because the client was closed.
LEMMA CallLosesPool ==
    ASSUME NEW x, CLCallOK(x), x.pc = "ready", clLang = "python"
    PROVE  CLCallOK([x EXCEPT !.pc = "raised"])
<1> DEFINE y == [x EXCEPT !.pc = "raised"]
<1>1. x \in CLRecord
  BY DEF CLCallOK, CLAttempts
<1>2. /\ y \in CLRecord /\ y.pc = "raised" /\ y.method = x.method /\ y.attempt = x.attempt
      /\ y.applied = x.applied /\ y.answers = x.answers
  BY <1>1 DEF CLRecord
<1> HIDE DEF y
<1>4. CLAttempts(y)
  BY <1>2 DEF CLCallOK, CLAttempts
<1>5. CLOnce(y)
  BY DEF CLOnce
<1>6. CLFinal(y)
  BY <1>2 DEF CLCallOK, CLFinal
<1> QED BY <1>4, <1>5, <1>6 DEF CLCallOK, y

\* An attempt that goes out.
LEMMA CallSends ==
    ASSUME NEW x, CLCallOK(x), x.pc = "ready", NEW pool \in Nat
    PROVE  CLCallOK([x EXCEPT !.pc = "sent", !.attempt = @ + 1, !.pool = pool])
<1> DEFINE k == x.attempt + 1
           y == [x EXCEPT !.pc = "sent", !.attempt = k, !.pool = pool]
<1>1. x \in CLRecord /\ x.attempt \in Nat /\ k \in Nat
  BY DEF CLCallOK, CLAttempts, CLRecord
<1>3. [x EXCEPT !.pc = "sent", !.attempt = @ + 1, !.pool = pool] = y
  BY Zenon
<1> HIDE DEF k
<1>2. /\ y \in CLRecord /\ y.pc = "sent" /\ y.method = x.method /\ y.attempt = k
      /\ y.applied = x.applied /\ y.answers = x.answers
  BY <1>1 DEF CLRecord
<1> HIDE DEF y
<1>4. CLAttempts(y)
  BY <1>1, <1>2, CLAssumption DEF CLCallOK, CLAttempts, k
<1>5. CLOnce(y)
  BY <1>1, <1>2 DEF CLCallOK, CLOnce, k
<1>6. CLFinal(y)
  BY <1>2 DEF CLCallOK, CLFinal
<1> QED BY <1>3, <1>4, <1>5, <1>6 DEF CLCallOK

\* The answer of an attempt.
LEMMA CallAnswered ==
    ASSUME NEW x, CLCallOK(x), x.pc = "sent", clLang \in {"python", "go", "ts"},
           NEW answer \in Statuses \cup {NoAnswer, TimedOut, Cancelled},
           NEW applied \in BOOLEAN, answer = 200 => applied
    PROVE  CLCallOK(CLAnswered(x, answer, applied))
<1> DEFINE n == IF applied THEN x.applied + 1 ELSE x.applied
           a == Append(x.answers, answer)
           again == Retryable(answer, x.method) /\ x.attempt <= CLRetries
           pc == IF answer = 200 THEN "returned" ELSE IF again THEN "ready" ELSE "raised"
           y == [x EXCEPT !.applied = n, !.answers = a, !.pc = pc]
<1>1. /\ x \in CLRecord /\ x.attempt \in Nat /\ x.applied \in Nat /\ x.answers \in Seq(Nat)
      /\ Len(x.answers) = x.attempt - 1 /\ x.attempt <= CLRetries + 1 /\ x.attempt > 0
      /\ x.applied <= Len(x.answers) /\ CLRetries \in Nat /\ x.method \in {"GET", "POST"}
  BY CLAssumption DEF CLCallOK, CLAttempts, CLRecord
<1>2. ~(Len(x.answers) > CLRetries)
  BY <1>1
<1>3. CLAnswered(x, answer, applied) = y
  BY <1>2, Zenon DEF CLAnswered
<1>4. /\ n \in Nat /\ n <= x.applied + 1 /\ (answer = 200 => n > 0)
      /\ a \in Seq(Nat) /\ Len(a) = x.attempt /\ a[Len(a)] = answer
      /\ \A i \in 1 .. Len(a) : i < Len(a) => i \in 1 .. Len(x.answers) /\ a[i] = x.answers[i]
  BY <1>1, SMTT(60) DEF Statuses, NoAnswer, TimedOut, Cancelled
<1>5. /\ pc \in {"returned", "ready", "raised"}
      /\ pc = "returned" <=> answer = 200
      /\ pc = "ready" <=> answer # 200 /\ again
      /\ pc = "raised" <=> answer # 200 /\ ~again
  OBVIOUS
<1>6. \A i \in 1 .. Len(a) : i < Len(a) => a[i] \in CLPassing
  BY <1>4 DEF CLCallOK, CLFinal
<1>7. again => /\ answer \in CLPassing /\ x.attempt <= CLRetries
               /\ clLang # "python" => x.method # "POST"
  BY DEF Retryable, isIdempotent, CLPassing, NoAnswer, TimedOut
<1>8. clLang # "python" /\ x.method = "GET" /\ answer = 503 /\ ~again => x.attempt > CLRetries
  BY <1>1 DEF Retryable, isIdempotent
<1> HIDE DEF n, a, pc, again
<1>9. /\ y \in CLRecord /\ y.pc = pc /\ y.method = x.method /\ y.attempt = x.attempt
      /\ y.applied = n /\ y.answers = a
  BY <1>1, <1>4, <1>5 DEF CLRecord
<1> HIDE DEF y
<1>10. CLAttempts(y)
  BY <1>1, <1>4, <1>5, <1>7, <1>9 DEF CLAttempts
<1>11. CLOnce(y)
  BY <1>5, <1>7, <1>9 DEF CLOnce, CLCallOK
<1>12. CLFinal(y)
  <2>1. \A i \in 1 .. Len(a) : i < Len(a) \/ pc \in {"idle", "ready", "sent"} => a[i] \in CLPassing
    <3>1. pc \in {"idle", "ready", "sent"} => a[Len(a)] \in CLPassing
      BY <1>4, <1>5, <1>7
    <3>2. \A i \in 1 .. Len(a) : i < Len(a) \/ i = Len(a)
      BY <1>1, <1>4
    <3> QED BY <1>6, <3>1, <3>2
  <2>2. pc = "returned" => Len(a) > 0 /\ a[Len(a)] = 200 /\ n > 0
    BY <1>1, <1>4, <1>5
  <2>3. (pc = "raised" /\ clLang # "python" /\ x.method = "GET" /\ a[Len(a)] = 503) =>
           Len(a) = CLRetries + 1
    BY <1>1, <1>4, <1>5, <1>8
  <2> QED BY <1>9, <2>1, <2>2, <2>3 DEF CLFinal
<1> QED BY <1>3, <1>10, <1>11, <1>12 DEF CLCallOK

CLPoll == {"ok", "failed"}
CLSubRecord == [pc : {"poll", "raised", "done"}, errors : Nat, count : Nat, polls : Seq(CLPoll)]

\* The polls p end their k-th with CLMaxErrors failures in a row.
CLOutage(p, k) ==
    k \in CLMaxErrors .. Len(p) /\ \A i \in (k - CLMaxErrors + 1) .. k : p[i] = "failed"

\* While it polls, errors counts the failures at the end of the polls.
CLCounting(x) ==
    x.pc = "poll" =>
        /\ x.errors < CLMaxErrors /\ x.errors <= Len(x.polls)
        /\ \A i \in (Len(x.polls) - x.errors + 1) .. Len(x.polls) : x.polls[i] = "failed"
        /\ x.errors < Len(x.polls) => x.polls[Len(x.polls) - x.errors] = "ok"

\* It has raised if and only if there was an outage.
CLOutages(x) ==
    IF x.pc = "raised" THEN CLOutage(x.polls, Len(x.polls))
    ELSE \A k \in 1 .. Len(x.polls) : ~CLOutage(x.polls, k)

CLSubOK(x) == x \in CLSubRecord /\ CLCounting(x) /\ CLOutages(x)

\* An earlier outage, or the lack of one, is not changed by another poll.
LEMMA OutageStays ==
    ASSUME NEW p \in Seq(CLPoll), NEW b \in CLPoll, NEW k \in 1 .. Len(p)
    PROVE  CLOutage(Append(p, b), k) <=> CLOutage(p, k)
<1>1. /\ Len(p) \in Nat /\ Len(Append(p, b)) = Len(p) + 1
      /\ \A i \in 1 .. Len(p) : Append(p, b)[i] = p[i]
      /\ CLMaxErrors \in Nat \ {0}
  BY CLAssumption
<1>2. k \in CLMaxErrors .. Len(p) <=> k \in CLMaxErrors .. Len(Append(p, b))
  BY <1>1
<1>3. k \in CLMaxErrors .. Len(p) => \A i \in (k - CLMaxErrors + 1) .. k : i \in 1 .. Len(p)
  BY <1>1
<1> QED BY <1>1, <1>2, <1>3 DEF CLOutage

\* A poll that fails.
LEMMA SubFailsOK ==
    ASSUME CLSubOK(clSub), clSub.pc = "poll"
    PROVE  CLSubOK(SubFails)
<1> DEFINE p == clSub.polls
           n == Len(p)
           e == clSub.errors
           q == Append(p, "failed")
           pc == IF e + 1 >= CLMaxErrors THEN "raised" ELSE "poll"
           e1 == e + 1
           y == [clSub EXCEPT !.errors = e1, !.polls = q, !.pc = pc]
<1>1. SubFails = y
  BY Zenon DEF SubFails
<1>2. /\ clSub \in CLSubRecord /\ p \in Seq(CLPoll) /\ e \in Nat /\ n \in Nat
      /\ CLMaxErrors \in Nat \ {0} /\ e < CLMaxErrors /\ e <= n
      /\ \A i \in (n - e + 1) .. n : p[i] = "failed"
      /\ e < n => p[n - e] = "ok"
      /\ \A k \in 1 .. n : ~CLOutage(p, k)
  BY CLAssumption DEF CLSubOK, CLSubRecord, CLCounting, CLOutages
<1>3. /\ q \in Seq(CLPoll) /\ Len(q) = n + 1 /\ q[n + 1] = "failed"
      /\ \A i \in 1 .. n : q[i] = p[i]
      /\ e1 \in Nat /\ e1 = e + 1
  BY <1>2 DEF CLPoll
<1>4. /\ pc \in {"raised", "poll"}
      /\ pc = "raised" <=> e1 >= CLMaxErrors
  OBVIOUS
<1>5. \A k \in 1 .. n : ~CLOutage(q, k)
  BY <1>2, OutageStays DEF CLPoll
<1> HIDE DEF q, e1, pc, p, n, e
<1>6. \A i \in (n - e + 1) .. n + 1 : q[i] = "failed"
  <2> TAKE i \in (n - e + 1) .. n + 1
  <2>1. CASE i = n + 1
    BY <1>3, <2>1
  <2>2. CASE i # n + 1
    <3>1. i \in (n - e + 1) .. n /\ i \in 1 .. n
      BY <1>2, <2>2
    <3> QED BY <1>2, <1>3, <3>1
  <2> QED BY <2>1, <2>2
<1>7. e < n => q[n - e] = "ok"
  <2> SUFFICES ASSUME e < n
               PROVE  q[n - e] = "ok"
    OBVIOUS
  <2>1. n - e \in 1 .. n
    BY <1>2
  <2> QED BY <1>2, <1>3, <2>1
<1>8. CLOutage(q, n + 1) <=> e1 >= CLMaxErrors
  <2>1. ASSUME e1 >= CLMaxErrors
        PROVE  CLOutage(q, n + 1)
    <3>1. CLMaxErrors = e + 1
      BY <1>2, <1>3, <2>1
    <3>2. n + 1 \in CLMaxErrors .. Len(q)
      BY <1>2, <1>3, <3>1
    <3>3. n + 1 - CLMaxErrors + 1 = n - e + 1
      BY <1>2, <3>1
    <3> QED BY <1>2, <1>6, <3>2, <3>3 DEF CLOutage
  <2>2. ASSUME CLOutage(q, n + 1), ~(e1 >= CLMaxErrors)
        PROVE  FALSE
    <3>1. n + 1 \in CLMaxErrors .. n + 1
          /\ \A i \in (n + 1 - CLMaxErrors + 1) .. n + 1 : q[i] = "failed"
      BY <1>2, <1>3, <2>2 DEF CLOutage
    <3>2. e < n
      BY <1>2, <1>3, <2>2, <3>1
    <3>3. n - e \in (n + 1 - CLMaxErrors + 1) .. n + 1
      BY <1>2, <1>3, <2>2, <3>2
    <3> QED BY <1>7, <3>1, <3>2, <3>3
  <2> QED BY <2>1, <2>2
<1>9. /\ y \in CLSubRecord /\ y.pc = pc /\ y.errors = e1 /\ y.polls = q
  BY <1>2, <1>3, <1>4 DEF CLSubRecord
<1> HIDE DEF y
<1>10. CLCounting(y)
  <2> SUFFICES ASSUME pc = "poll"
               PROVE  /\ e1 < CLMaxErrors /\ e1 <= n + 1
                      /\ \A i \in (n + 1 - e1 + 1) .. n + 1 : q[i] = "failed"
                      /\ e1 < n + 1 => q[n + 1 - e1] = "ok"
    BY <1>2, <1>3, <1>9 DEF CLCounting
  <2>1. e1 < CLMaxErrors /\ e1 <= n + 1
    BY <1>2, <1>3, <1>4
  <2>2. n + 1 - e1 = n - e /\ n + 1 - e1 + 1 = n - e + 1 /\ (e1 < n + 1 <=> e < n)
    BY <1>2, <1>3
  <2> QED BY <1>6, <1>7, <2>1, <2>2
<1>11. CLOutages(y)
  <2>1. CASE pc = "raised"
    BY <1>3, <1>4, <1>8, <1>9, <2>1 DEF CLOutages
  <2>2. CASE pc # "raised"
    <3>1. ~CLOutage(q, n + 1)
      BY <1>4, <1>8, <2>2
    <3>2. \A k \in 1 .. n + 1 : k = n + 1 \/ k \in 1 .. n
      BY <1>2
    <3> QED BY <1>3, <1>5, <1>9, <2>2, <3>1, <3>2 DEF CLOutages
  <2> QED BY <2>1, <2>2
<1> QED BY <1>1, <1>9, <1>10, <1>11 DEF CLSubOK

\* A poll that succeeds.
LEMMA SubGetsOK ==
    ASSUME CLSubOK(clSub), clSub.pc = "poll", NEW m \in Nat
    PROVE  CLSubOK(SubGets(m))
<1> DEFINE p == clSub.polls
           n == Len(p)
           q == Append(p, "ok")
           c == IF m = 0 THEN clSub.count
                ELSE IF clSub.count + m >= CLMaxEvents /\ clSub.count < CLMaxEvents
                THEN CLMaxEvents ELSE clSub.count + m
           pc == IF m > 0 /\ clSub.count + m >= CLMaxEvents THEN "done" ELSE "poll"
           y == [clSub EXCEPT !.errors = 0, !.polls = q, !.count = c, !.pc = pc]
<1>1. SubGets(m) = y
  BY Zenon DEF SubGets
<1>2. /\ clSub \in CLSubRecord /\ p \in Seq(CLPoll) /\ n \in Nat /\ clSub.count \in Nat
      /\ CLMaxErrors \in Nat \ {0} /\ CLMaxEvents \in Nat
      /\ \A k \in 1 .. n : ~CLOutage(p, k)
  BY CLAssumption DEF CLSubOK, CLSubRecord, CLOutages
<1>3. /\ q \in Seq(CLPoll) /\ Len(q) = n + 1 /\ q[n + 1] = "ok" /\ c \in Nat
      /\ pc \in {"done", "poll"}
  BY <1>2 DEF CLPoll
<1>4. \A k \in 1 .. n : ~CLOutage(q, k)
  BY <1>2, OutageStays DEF CLPoll
<1> HIDE DEF q, c, pc
<1>5. ~CLOutage(q, n + 1)
  <2>1. n + 1 \in (n + 1 - CLMaxErrors + 1) .. n + 1
    BY <1>2
  <2> QED BY <1>2, <1>3, <2>1 DEF CLOutage
<1>6. /\ y \in CLSubRecord /\ y.pc = pc /\ y.errors = 0 /\ y.polls = q
  BY <1>2, <1>3 DEF CLSubRecord
<1> HIDE DEF y
<1>7. CLCounting(y)
  BY <1>2, <1>3, <1>6 DEF CLCounting
<1>8. CLOutages(y)
  <2>1. \A k \in 1 .. n + 1 : k = n + 1 \/ k \in 1 .. n
    BY <1>2
  <2>2. y.pc # "raised"
    BY <1>3, <1>6
  <2> QED BY <1>3, <1>4, <1>5, <1>6, <2>1, <2>2 DEF CLOutages
<1> QED BY <1>1, <1>6, <1>7, <1>8 DEF CLSubOK

CLInv ==
    /\ clLang \in {"python", "go", "ts"} /\ clPool \in Nat /\ clPools \in Nat
    /\ DOMAIN clC = CLCall /\ \A c \in CLCall : CLCallOK(clC[c])
    /\ CLSubOK(clSub)

\* A step of one call keeps the others.
LEMMA OneCall ==
    ASSUME CLInv, NEW c \in CLCall, NEW y, clC' = [clC EXCEPT ![c] = y], CLCallOK(y),
           UNCHANGED <<clLang, clPool, clPools, clSub>>
    PROVE  CLInv'
<1>1. DOMAIN clC' = CLCall /\ clC'[c] = y /\ \A d \in CLCall \ {c} : clC'[d] = clC[d]
  BY DEF CLInv
<1>3. \A d \in CLCall : CLCallOK(clC'[d])
  BY <1>1 DEF CLInv
<1>4. \A d \in CLCall : CLCallOK(clC[d])'
  BY <1>3 DEF CLCallOK, CLAttempts, CLOnce, CLFinal
<1> QED BY <1>1, <1>4 DEF CLInv

\* Every step of a client keeps the invariant.
LEMMA ClientStep ==
    ASSUME CLInv, [CLNext]_clVars
    PROVE  CLInv'
<1>1. ASSUME NEW c \in CLCall, NEW method \in {"GET", "POST"}, CLBegin(c, method)
      PROVE  CLInv'
  <2> DEFINE pc == IF clLang = "python" /\ clPool = 0 THEN "raised" ELSE "ready"
             y == [clC[c] EXCEPT !.method = method, !.pc = pc]
  <2>1. clC[c].pc = "idle" /\ UNCHANGED <<clLang, clPool, clPools, clSub>>
    BY <1>1 DEF CLBegin
  <2>2. clC' = [clC EXCEPT ![c] = y]
    BY <1>1, Zenon DEF CLBegin
  <2>3. pc \in {"ready", "raised"} /\ (pc = "raised" => clLang = "python")
    OBVIOUS
  <2> HIDE DEF pc
  <2>4. CLCallOK(y)
    BY <2>1, <2>3, CallBegins DEF CLInv
  <2> HIDE DEF y
  <2> QED BY <2>1, <2>2, <2>4, OneCall
<1>2. ASSUME NEW c \in CLCall, CLSend(c)
      PROVE  CLInv'
  <2>1. clC[c].pc = "ready" /\ UNCHANGED <<clLang, clPool, clPools, clSub>>
    BY <1>2 DEF CLSend
  <2>2. CASE clLang = "python" /\ (clPool = 0 \/ clPool \in clShut)
    <3>1. clC' = [clC EXCEPT ![c].pc = "raised"]
      BY <1>2, <2>2 DEF CLSend
    <3>2. clC' = [clC EXCEPT ![c] = [clC[c] EXCEPT !.pc = "raised"]]
      BY <3>1, Zenon
    <3>3. CLCallOK([clC[c] EXCEPT !.pc = "raised"])
      BY <2>1, <2>2, CallLosesPool DEF CLInv
    <3> QED BY <2>1, <3>2, <3>3, OneCall
  <2>3. CASE ~(clLang = "python" /\ (clPool = 0 \/ clPool \in clShut))
    <3> DEFINE y == [clC[c] EXCEPT !.pc = "sent", !.attempt = @ + 1, !.pool = clPool]
    <3>2. clC' = [clC EXCEPT ![c] = y]
      BY <1>2, <2>3, Zenon DEF CLSend
    <3>3. CLCallOK(y)
      BY <2>1, CallSends DEF CLInv
    <3> HIDE DEF y
    <3> QED BY <2>1, <3>2, <3>3, OneCall
  <2> QED BY <2>2, <2>3
<1>3. ASSUME NEW c \in CLCall, NEW answer \in Statuses \cup {NoAnswer, TimedOut, Cancelled},
             NEW applied \in BOOLEAN, CLAnswer(c, answer, applied)
      PROVE  CLInv'
  <2> DEFINE y == CLAnswered(clC[c], answer, applied)
  <2>1. /\ clC[c].pc = "sent" /\ (answer = 200 => applied)
        /\ UNCHANGED <<clLang, clPool, clPools, clSub>>
    BY <1>3 DEF CLAnswer
  <2>2. clC' = [clC EXCEPT ![c] = y]
    BY <1>3 DEF CLAnswer
  <2>3. CLCallOK(clC[c]) /\ clLang \in {"python", "go", "ts"}
    BY DEF CLInv
  <2>4. CLCallOK(y)
    BY <2>1, <2>3, CallAnswered
  <2> HIDE DEF y
  <2> QED BY <2>1, <2>2, <2>4, OneCall
<1>4. ASSUME UNCHANGED <<clLang, clC, clSub>>, clPool' \in Nat, clPools' \in Nat
      PROVE  CLInv'
  <2>1. \A d \in CLCall : CLCallOK(clC[d])'
    BY <1>4 DEF CLInv, CLCallOK, CLAttempts, CLOnce, CLFinal
  <2> QED BY <1>4, <2>1 DEF CLInv
<1>5. CASE open \/ CloseBegins \/ CloseEnds \/ UNCHANGED clVars
  <2>1. UNCHANGED <<clLang, clC, clSub>> /\ clPool' \in Nat /\ clPools' \in Nat
    BY <1>5 DEF open, CloseBegins, CloseEnds, clVars, CLInv
  <2> QED BY <1>4, <2>1
<1>6. CASE subscribe_stream
  <2>1. clSub' = SubFails \/ \E n \in 0 .. 2 : clSub' = SubGets(n)
    BY <1>6 DEF subscribe_stream
  <2>2. clSub.pc = "poll" /\ UNCHANGED <<clLang, clC, clPool, clPools>>
    BY <1>6 DEF subscribe_stream
  <2>3. CLSubOK(clSub')
    BY <2>1, <2>2, SubFailsOK, SubGetsOK DEF CLInv
  <2>4. \A d \in CLCall : CLCallOK(clC[d])'
    BY <2>2 DEF CLInv, CLCallOK, CLAttempts, CLOnce, CLFinal
  <2> QED BY <2>2, <2>3, <2>4 DEF CLInv
<1> QED
  BY <1>1, <1>2, <1>3, <1>5, <1>6 DEF CLNext, CLStep

\* Initially no call was made and nothing polled.
LEMMA ClientInit ==
    ASSUME CLInit
    PROVE  CLInv
<1> DEFINE x == [pc |-> "idle", method |-> "GET", attempt |-> 0,
                 applied |-> 0, answers |-> <<>>, pool |-> 0]
<1>1. x \in CLRecord
  BY DEF CLRecord
<1>2. CLCallOK(x)
  BY <1>1, CLAssumption DEF CLCallOK, CLAttempts, CLOnce, CLFinal
<1>3. DOMAIN clC = CLCall /\ \A c \in CLCall : clC[c] = x
  BY DEF CLInit
<1> HIDE DEF x
<1>4. CLSubOK(clSub)
  <2>1. clSub = [pc |-> "poll", errors |-> 0, count |-> 0, polls |-> <<>>]
    BY DEF CLInit
  <2>2. clSub \in CLSubRecord
    BY <2>1 DEF CLSubRecord
  <2> QED BY <2>1, <2>2, CLAssumption DEF CLSubOK, CLCounting, CLOutages
<1> QED BY <1>2, <1>3, <1>4 DEF CLInit, CLInv

\* An ingest POST of the Go and TypeScript clients is applied once at most,
\* one of the python client once per attempt at most; a refusal is never
\* repeated; and the subscription gives up exactly after the allowed number
\* of errors in a row.  For any number of calls and any retry limits, while
\* the connection pool is opened and closed between attempts.
THEOREM RetriesSafe == CLSpec => []CLSafe
<1>1. CLInit => CLInv
  BY ClientInit
<1>2. CLInv /\ [CLNext]_clVars => CLInv'
  BY ClientStep
<1>3. CLInv => CLSafe
  <2> SUFFICES ASSUME CLInv
               PROVE  CLSafe
    OBVIOUS
  <2>1. \A c \in CLCall :
          LET x == clC[c]
          IN  /\ CLAttempts(x) /\ CLOnce(x) /\ CLFinal(x)
              /\ x.answers \in Seq(Nat) /\ Len(x.answers) \in Nat /\ x.applied \in Nat
              /\ x.attempt \in Nat /\ DOMAIN x.answers = 1 .. Len(x.answers)
              /\ CLRetries \in Nat
    BY CLAssumption DEF CLInv, CLCallOK, CLAttempts, CLRecord
  <2>2. CLPostAtMostOnce
    <3> SUFFICES ASSUME NEW c \in CLCall, clC[c].method = "POST"
                 PROVE  clC[c].applied <= IF clLang = "python" THEN CLRetries + 1 ELSE 1
      BY DEF CLPostAtMostOnce
    <3>1. clC[c].applied <= clC[c].attempt /\ clC[c].attempt <= CLRetries + 1
      BY <2>1 DEF CLAttempts
    <3>2. clLang # "python" => clC[c].attempt <= 1
      BY <2>1 DEF CLOnce
    <3> QED BY <2>1, <3>1, <3>2
  <2>3. CLVerdictFinal
    <3> SUFFICES ASSUME NEW c \in CLCall
                 PROVE  LET a == clC[c].answers IN
                        /\ \A i \in DOMAIN a : i < Len(a) => a[i] \notin {200, 401, 404, Cancelled}
                        /\ clC[c].pc = "returned" => Last(a) = 200 /\ clC[c].applied > 0
                        /\ (clC[c].pc = "raised" /\ a # <<>> /\ Last(a) = 503 /\ clLang # "python"
                            /\ clC[c].method = "GET") => Len(a) = CLRetries + 1
      BY DEF CLVerdictFinal
    <3> DEFINE a == clC[c].answers
    <3>1. \A i \in DOMAIN a : i < Len(a) => a[i] \notin {200, 401, 404, Cancelled}
      <4>1. \A i \in 1 .. Len(a) : i < Len(a) => a[i] \in CLPassing
        BY <2>1 DEF CLFinal
      <4>2. CLPassing \cap {200, 401, 404, Cancelled} = {}
        BY DEF CLPassing, NoAnswer, TimedOut, Cancelled
      <4>3. DOMAIN a = 1 .. Len(a)
        BY <2>1
      <4>4. ASSUME NEW i \in DOMAIN a, i < Len(a)
            PROVE  a[i] \notin {200, 401, 404, Cancelled}
        <5>1. a[i] \in CLPassing
          BY <4>1, <4>3, <4>4
        <5> QED BY <4>2, <5>1
      <4> QED BY <4>4
    <3>2. Last(a) = a[Len(a)]
      BY DEF Last
    <3>3. a # <<>> => Len(a) > 0
      BY <2>1
    <3> QED BY <2>1, <3>1, <3>2, <3>3 DEF CLFinal
  <2>4. CLSubscription
    <3>1. /\ clSub.polls \in Seq(CLPoll) /\ DOMAIN clSub.polls = 1 .. Len(clSub.polls)
          /\ Len(clSub.polls) \in Nat /\ CLMaxErrors \in Nat \ {0}
      BY CLAssumption DEF CLInv, CLSubOK, CLSubRecord
    <3>2. clSub.pc = "raised" <=> \E k \in DOMAIN clSub.polls : CLOutage(clSub.polls, k)
      <4>1. CASE clSub.pc = "raised"
        <5>1. CLOutage(clSub.polls, Len(clSub.polls))
          BY <4>1 DEF CLInv, CLSubOK, CLOutages
        <5>2. Len(clSub.polls) \in DOMAIN clSub.polls
          BY <3>1, <5>1 DEF CLOutage
        <5> QED BY <4>1, <5>1, <5>2
      <4>2. CASE clSub.pc # "raised"
        BY <3>1, <4>2 DEF CLInv, CLSubOK, CLOutages
      <4> QED BY <4>1, <4>2
    <3> QED BY <3>2 DEF CLSubscription, CLOutage
  <2> QED BY <2>2, <2>3, <2>4 DEF CLSafe
<1> QED
  BY <1>1, <1>2, <1>3, PTL DEF CLSpec

-----------------------------------------------------------------------------
(* K8sOperator: a cluster reported as Ready.                                *)

KOSpecification == KOInit /\ [][KONext]_koVars

KONames == ToSet(KOOrder)
KOItem == [name : KONames, spec : KOSpec \cup {KOGone}]
KOOperator == [pc : {"wait", "apply"}, todo : Seq(KOItem), kind : 1 .. 4,
               post : BOOLEAN, failed : BOOLEAN]

KOTypes ==
    /\ koCR \in [KONames -> KOSpec \cup {KOGone}]
    /\ DOMAIN koObj = KONames /\ \A c \in KONames : DOMAIN koObj[c] = ToSet(KOKinds)
    /\ DOMAIN koStatus = KONames
    /\ koOp \in KOOperator /\ koFaults \in Nat
    /\ koOp.post => koOp.kind <= 3

\* An item of the list is its cluster's specification, unless a user touched it.
KOListed ==
    \A i \in 1 .. Len(koOp.todo) :
        /\ koOp.todo[i].spec # KOGone
        /\ koOp.todo[i].name \notin koTouched => koCR[koOp.todo[i].name] = koOp.todo[i].spec

\* The object o of kind k has the values of the specification s.
KOFits(o, s, k) == o.val = s.val /\ (k = "deployment" => s.res \subseteq o.res)

\* The objects of the first item that were applied have its values, unless a
\* user touched the cluster or a request failed.
KODone ==
    (/\ koOp.todo # <<>> /\ Item.name \notin koTouched /\ ~koOp.failed /\ ~koDry) =>
        \A j \in 1 .. 3 : j < koOp.kind =>
            KOFits(koObj[Item.name][KOKinds[j]], Item.spec, KOKinds[j])

\* With dry_run no status is written.
KOMute == koDry => \A c \in KONames : koStatus[c] # "Ready"

KOInv == KOTypes /\ KOListed /\ KODone /\ KOMute

\* The three kinds.
LEMMA Kinds ==
    /\ ToSet(KOKinds) = {"configmap", "deployment", "service"}
    /\ \A j \in 1 .. 3 : KOKinds[j] \in ToSet(KOKinds)
    /\ \A i, j \in 1 .. 3 : KOKinds[i] = KOKinds[j] => i = j
    /\ \A k \in ToSet(KOKinds) : \E j \in 1 .. 3 : k = KOKinds[j]
<1>1. KOKinds[1] = "configmap" /\ KOKinds[2] = "deployment" /\ KOKinds[3] = "service"
      /\ DOMAIN KOKinds = 1 .. 3
  BY DEF KOKinds
<1>2. \A j \in 1 .. 3 : j = 1 \/ j = 2 \/ j = 3
  OBVIOUS
<1>3. ToSet(KOKinds) = {KOKinds[j] : j \in 1 .. 3}
  BY <1>1 DEF ToSet
<1> QED BY <1>1, <1>2, <1>3

\* The first item of the list.
LEMMA ItemTyped ==
    ASSUME KOTypes, KOListed, koOp.todo # <<>>
    PROVE  /\ Item \in KOItem /\ Item.name \in KONames /\ Item = koOp.todo[1]
           /\ 1 \in 1 .. Len(koOp.todo) /\ Item.spec # KOGone
           /\ Item.name \notin koTouched => koCR[Item.name] = Item.spec
<1>1. koOp.todo \in Seq(KOItem)
  BY DEF KOTypes, KOOperator
<1>2. 1 \in 1 .. Len(koOp.todo) /\ Item = koOp.todo[1] /\ Item \in KOItem
  BY <1>1 DEF Item
<1> QED BY <1>2 DEF KOListed, KOItem

\* The list is read: every item is what it was made from, and nothing is done.
LEMMA ListStep ==
    ASSUME KOInv, _reconcile_all
    PROVE  KOInv'
<1>1. CASE Fault /\ UNCHANGED <<koOp, koTouched>>
  <2>1. koFaults \in Nat /\ koFaults' = koFaults + 1
    BY <1>1 DEF Fault, KOInv, KOTypes
  <2>2. koFaults' \in Nat
    BY <2>1
  <2>3. UNCHANGED <<koDry, koCR, koObj, koStatus>>
    BY DEF _reconcile_all
  <2> QED BY <1>1, <2>2, <2>3 DEF KOInv, KOTypes, KOListed, KODone, KOMute, Item
<1>2. ASSUME NEW n \in 0 .. Len(KOOrder), NEW at \in [1 .. n -> DOMAIN KOOrder], Lists(n, at),
             koOp' = [KOWait EXCEPT !.pc = "apply",
                        !.todo = [i \in 1 .. n |-> [name |-> KOOrder[at[i]],
                                                    spec |-> koCR[KOOrder[at[i]]]]]],
             koTouched' = {}, NoFault
      PROVE  KOInv'
  <2> DEFINE todo == [i \in 1 .. n |-> [name |-> KOOrder[at[i]], spec |-> koCR[KOOrder[at[i]]]]]
  <2>1. n \in Nat
    BY KOAssumption
  <2>2. UNCHANGED <<koDry, koCR, koObj, koStatus, koFaults>>
    BY <1>2 DEF _reconcile_all, NoFault
  <2>3. \A i \in 1 .. n : /\ at[i] \in DOMAIN KOOrder /\ KOOrder[at[i]] \in KONames
                          /\ koCR[KOOrder[at[i]]] \in KOSpec \cup {KOGone}
                          /\ koCR[KOOrder[at[i]]] # KOGone
    <3>1. \A i \in 1 .. n : at[i] \in DOMAIN KOOrder /\ KOOrder[at[i]] \in KONames
      BY DEF KONames, ToSet
    <3>2. \A i \in 1 .. n : at[i] \in {k \in DOMAIN KOOrder : koCR[KOOrder[k]] # KOGone}
      BY <1>2 DEF Lists
    <3> QED BY <3>1, <3>2 DEF KOInv, KOTypes
  <2>4. /\ todo \in Seq(KOItem) /\ Len(todo) = n
        /\ \A i \in 1 .. n : /\ todo[i].name = KOOrder[at[i]]
                             /\ todo[i].spec = koCR[KOOrder[at[i]]]
    BY <2>1, <2>3 DEF KOItem
  <2> HIDE DEF todo
  <2>5. KOWait \in KOOperator
    BY DEF KOWait, KOOperator
  <2>6. /\ koOp' \in KOOperator /\ koOp'.todo = todo /\ koOp'.kind = 1 /\ koOp'.post = FALSE
    BY <1>2, <2>4, <2>5 DEF KOOperator, KOWait, todo
  <2>7. KOTypes'
    BY <2>2, <2>6 DEF KOInv, KOTypes
  <2>8. KOListed'
    BY <1>2, <2>2, <2>3, <2>4, <2>6 DEF KOListed
  <2>9. KODone'
    BY <2>6 DEF KODone
  <2> QED BY <2>2, <2>7, <2>8, <2>9 DEF KOInv, KOMute
<1> QED BY <1>1, <1>2 DEF _reconcile_all

\* The operator's records after an object was applied, after a request failed,
\* after 404, with the next cluster, and at the end of a turn.
LEMMA OperatorMoves ==
    ASSUME KOTypes
    PROVE  /\ koOp.kind <= 3 =>
                /\ Applied \in KOOperator /\ Applied.todo = koOp.todo /\ Applied.post = FALSE
                /\ Applied.kind = koOp.kind + 1 /\ Applied.failed = koOp.failed
           /\ Failed \in KOOperator /\ Failed.todo = koOp.todo /\ Failed.post = FALSE
           /\ Failed.failed = TRUE
           /\ LET p == [koOp EXCEPT !.post = TRUE] IN
                /\ p \in KOOperator /\ p.todo = koOp.todo /\ p.kind = koOp.kind
                /\ p.failed = koOp.failed
           /\ koOp.todo # <<>> => /\ NextItem \in KOOperator /\ NextItem.todo = Tail(koOp.todo)
                                  /\ NextItem.post = FALSE /\ NextItem.kind = 1
           /\ KOWait \in KOOperator /\ KOWait.todo = <<>> /\ KOWait.post = FALSE
<1>1. koOp \in KOOperator
  BY DEF KOTypes
<1>2. koOp.todo \in Seq(KOItem) /\ koOp.kind \in 1 .. 4
  BY <1>1 DEF KOOperator
<1>3. koOp.kind <= 3 => koOp.kind + 1 \in 1 .. 4
  BY <1>2
<1>4. koOp.kind <= 3 =>
        /\ Applied \in KOOperator /\ Applied.todo = koOp.todo /\ Applied.post = FALSE
        /\ Applied.kind = koOp.kind + 1 /\ Applied.failed = koOp.failed
  BY <1>1, <1>3 DEF Applied, KOOperator
<1>5. /\ Failed \in KOOperator /\ Failed.todo = koOp.todo /\ Failed.post = FALSE
      /\ Failed.failed = TRUE
  <2>1. 4 \in 1 .. 4
    OBVIOUS
  <2> QED BY <1>1, <2>1 DEF Failed, KOOperator
<1>6. LET p == [koOp EXCEPT !.post = TRUE] IN
        p \in KOOperator /\ p.todo = koOp.todo /\ p.kind = koOp.kind /\ p.failed = koOp.failed
  BY <1>1 DEF KOOperator
<1>7. KOWait \in KOOperator /\ KOWait.todo = <<>> /\ KOWait.post = FALSE
  BY DEF KOWait, KOOperator
<1>8. koOp.todo # <<>> => Tail(koOp.todo) \in Seq(KOItem)
  BY <1>2
<1>9. koOp.todo # <<>> => /\ NextItem \in KOOperator /\ NextItem.todo = Tail(koOp.todo)
                          /\ NextItem.post = FALSE /\ NextItem.kind = 1
  BY <1>8, <1>7 DEF NextItem, KOOperator, KOWait
<1> QED BY <1>4, <1>5, <1>6, <1>7, <1>9

\* A step that counts or does not count a failed request.
LEMMA Faults ==
    ASSUME KOTypes, Fault \/ NoFault
    PROVE  koFaults' \in Nat
<1>1. koFaults \in Nat
  BY DEF KOTypes
<1>2. koFaults' = koFaults \/ koFaults' = koFaults + 1
  BY DEF Fault, NoFault
<1> QED BY <1>1, <1>2

\* The turn ends, at the end of the list or where a body cannot be built.
LEMMA EndStep ==
    ASSUME KOInv, Unbuildable \/ TurnEnds
    PROVE  KOInv'
<1>1. koOp' = KOWait
  BY DEF Unbuildable, TurnEnds
<1>2. UNCHANGED <<koDry, koCR, koObj, koStatus, koFaults, koTouched>>
  BY DEF Unbuildable, TurnEnds
<1>3. koOp' \in KOOperator /\ koOp'.todo = <<>> /\ koOp'.post = FALSE
  BY <1>1, OperatorMoves DEF KOInv
<1>4. KOTypes'
  BY <1>2, <1>3 DEF KOInv, KOTypes
<1>5. KOListed' /\ KODone'
  BY <1>3 DEF KOListed, KODone
<1> QED BY <1>2, <1>4, <1>5 DEF KOInv, KOMute

\* The object of the kind at hand gets the values of the item.
LEMMA ObjectStep ==
    ASSUME KOInv, koOp.todo # <<>>, koOp.kind <= 3, NEW old,
           koObj' = [koObj EXCEPT ![Item.name][Kind] = Merge(old, Item.spec, Kind)],
           koOp' = Applied, UNCHANGED <<koDry, koCR, koStatus, koTouched, koFaults>>
    PROVE  KOInv'
<1> DEFINE c == Item.name
<1> DEFINE new == Merge(old, Item.spec, Kind)
<1>1. KOTypes /\ KOListed /\ KODone
  BY DEF KOInv
<1>2. /\ c \in KONames /\ Item' = Item
      /\ Item = koOp.todo[1]
  <2>1. koOp'.todo = koOp.todo
    BY <1>1, OperatorMoves
  <2> QED BY <1>1, <2>1, ItemTyped DEF Item
<1>3. /\ koOp' \in KOOperator /\ koOp'.todo = koOp.todo /\ koOp'.post = FALSE
      /\ koOp'.kind = koOp.kind + 1 /\ koOp'.failed = koOp.failed
  BY <1>1, OperatorMoves
<1>4. koOp.kind \in 1 .. 3
  BY <1>1 DEF KOTypes, KOOperator
<1>5. Kind = KOKinds[koOp.kind] /\ Kind \in ToSet(KOKinds)
  BY <1>4, Kinds DEF Kind
<1>6. /\ DOMAIN koObj = KONames /\ \A d \in KONames : DOMAIN koObj[d] = ToSet(KOKinds)
  BY <1>1 DEF KOTypes
<1>7. koObj' = [koObj EXCEPT ![c] = [koObj[c] EXCEPT ![Kind] = new]]
  OBVIOUS
<1> HIDE DEF c, new
<1>8. /\ DOMAIN koObj' = KONames
      /\ koObj'[c] = [koObj[c] EXCEPT ![Kind] = new]
      /\ \A d \in KONames : d # c => koObj'[d] = koObj[d]
  BY <1>2, <1>6, <1>7
<1>9. /\ DOMAIN koObj'[c] = ToSet(KOKinds) /\ koObj'[c][Kind] = new
      /\ \A k \in ToSet(KOKinds) : k # Kind => koObj'[c][k] = koObj[c][k]
  BY <1>2, <1>5, <1>6, <1>8
<1>10. KOTypes'
  BY <1>1, <1>3, <1>6, <1>8, <1>9 DEF KOTypes
<1>11. KOListed'
  BY <1>1, <1>3 DEF KOListed
<1>12. KOFits(new, Item.spec, Kind)
  <2>1. new.val = Item.spec.val /\ (Kind = "deployment" => new.res = old.res \cup Item.spec.res)
    BY DEF new, Merge
  <2> QED BY <2>1 DEF KOFits
<1>13. KODone'
  <2> SUFFICES ASSUME c \notin koTouched, ~koOp.failed, ~koDry, NEW j \in 1 .. 3,
                      j < koOp.kind + 1
               PROVE  KOFits(koObj'[c][KOKinds[j]], Item.spec, KOKinds[j])
    BY <1>2, <1>3 DEF KODone, c
  <2>1. CASE j = koOp.kind
    BY <2>1, <1>5, <1>9, <1>12
  <2>2. CASE j # koOp.kind
    <3>1. j < koOp.kind
      BY <2>2, <1>4
    <3>2. KOFits(koObj[c][KOKinds[j]], Item.spec, KOKinds[j])
      BY <3>1, <1>1 DEF KODone, c
    <3>3. KOKinds[j] \in ToSet(KOKinds) /\ KOKinds[j] # Kind
      BY <2>2, <1>4, <1>5, Kinds
    <3> QED BY <3>2, <3>3, <1>9
  <2> QED BY <2>1, <2>2
<1> QED BY <1>10, <1>11, <1>13 DEF KOInv, KOMute

\* No object is written: the request failed, found nothing, or was not made.
LEMMA NoObjectStep ==
    ASSUME KOInv, koOp.todo # <<>>, koOp.kind <= 3, UNCHANGED koObj, Fault \/ NoFault,
           \/ koDry /\ koOp' = Applied
           \/ koOp' = [koOp EXCEPT !.post = TRUE]
           \/ koOp' = Failed,
           UNCHANGED <<koDry, koCR, koStatus, koTouched>>
    PROVE  KOInv'
<1>1. KOTypes /\ KOListed /\ KODone /\ KOMute
  BY DEF KOInv
<1>2. koFaults' \in Nat
  BY <1>1, Faults
<1>3. koOp' \in KOOperator /\ koOp'.todo = koOp.todo /\ (koOp'.post => koOp'.kind <= 3)
  BY <1>1, OperatorMoves
<1>4. \/ koDry
      \/ koOp'.kind = koOp.kind /\ koOp'.failed = koOp.failed
      \/ koOp'.failed
  BY <1>1, OperatorMoves
<1>5. KOTypes'
  BY <1>1, <1>2, <1>3 DEF KOTypes
<1>6. KOListed'
  BY <1>1, <1>3 DEF KOListed
<1>7. Item' = Item
  BY <1>3 DEF Item
<1>8. KODone'
  BY <1>1, <1>3, <1>4, <1>7 DEF KODone
<1> QED BY <1>1, <1>5, <1>6, <1>8 DEF KOInv, KOMute

\* PATCH.
LEMMA PatchStep ==
    ASSUME KOInv, Patch
    PROVE  KOInv'
<1>1. koOp.todo # <<>> /\ koOp.kind <= 3
  BY DEF Patch, Working
<1>2. UNCHANGED <<koDry, koCR, koStatus, koTouched>>
  BY DEF Patch
<1>3. CASE koDry /\ koOp' = Applied /\ UNCHANGED koObj /\ NoFault
  BY <1>1, <1>2, <1>3, NoObjectStep
<1>4. CASE /\ koObj' = [koObj EXCEPT ![Item.name][Kind] = Merge(@, Item.spec, Kind)]
           /\ koOp' = Applied /\ NoFault
  <2> DEFINE old == koObj[Item.name][Kind]
  <2>1. koObj' = [koObj EXCEPT ![Item.name][Kind] = Merge(old, Item.spec, Kind)]
    BY <1>4
  <2>2. UNCHANGED koFaults
    BY <1>4 DEF NoFault
  <2> HIDE DEF old
  <2> QED BY <1>1, <1>2, <1>4, <2>1, <2>2, ObjectStep
<1>5. CASE koOp' = [koOp EXCEPT !.post = TRUE] /\ UNCHANGED koObj /\ NoFault
  BY <1>1, <1>2, <1>5, NoObjectStep
<1>6. CASE Fault /\ koOp' = Failed /\ UNCHANGED koObj
  BY <1>1, <1>2, <1>6, NoObjectStep
<1> QED BY <1>3, <1>4, <1>5, <1>6 DEF Patch

\* POST.
LEMMA PostStep ==
    ASSUME KOInv, Post
    PROVE  KOInv'
<1>1. koOp.todo # <<>> /\ koOp.kind <= 3
  BY DEF Post, Working, KOInv, KOTypes
<1>2. UNCHANGED <<koDry, koCR, koStatus, koTouched>>
  BY DEF Post
<1>3. CASE /\ koObj' = [koObj EXCEPT ![Item.name][Kind] = Merge(KOGone, Item.spec, Kind)]
           /\ koOp' = Applied /\ NoFault
  <2>1. UNCHANGED koFaults
    BY <1>3 DEF NoFault
  <2> QED BY <1>1, <1>2, <1>3, <2>1, ObjectStep
<1>4. CASE Fault /\ koOp' = Failed /\ UNCHANGED koObj
  BY <1>1, <1>2, <1>4, NoObjectStep
<1> QED BY <1>3, <1>4 DEF Post

\* The status is written, or not, and the next cluster is at hand.
LEMMA StatusStep ==
    ASSUME KOInv, _update_status
    PROVE  KOInv'
<1>1. KOTypes /\ KOListed /\ KOMute
  BY DEF KOInv
<1>2. koOp.todo # <<>> /\ koOp' = NextItem /\ UNCHANGED <<koDry, koCR, koObj, koTouched>>
  BY DEF _update_status, Working
<1>3. /\ koOp' \in KOOperator /\ koOp'.todo = Tail(koOp.todo)
      /\ koOp'.post = FALSE /\ koOp'.kind = 1
  BY <1>1, <1>2, OperatorMoves
<1>4. koFaults' \in Nat
  BY <1>1, Faults DEF _update_status
<1>5. DOMAIN koStatus' = KONames /\ (koDry => koStatus' = koStatus)
  <2>1. DOMAIN koStatus = KONames
    BY <1>1 DEF KOTypes
  <2>2. CASE UNCHANGED koStatus
    BY <2>1, <2>2
  <2>3. CASE /\ ~koDry
             /\ koStatus' = [koStatus EXCEPT ![Item.name] = IF koOp.failed THEN "Error" ELSE "Ready"]
    BY <2>1, <2>3
  <2> QED BY <2>2, <2>3 DEF _update_status
<1>6. KOTypes'
  BY <1>1, <1>2, <1>3, <1>4, <1>5 DEF KOTypes
<1>7. KOListed'
  <2>1. koOp.todo \in Seq(KOItem)
    BY <1>1 DEF KOTypes, KOOperator
  <2>2. \A i \in 1 .. Len(Tail(koOp.todo)) :
          i + 1 \in 1 .. Len(koOp.todo) /\ Tail(koOp.todo)[i] = koOp.todo[i + 1]
    BY <1>2, <2>1
  <2> QED BY <1>1, <1>2, <1>3, <2>2 DEF KOListed
<1>8. KODone'
  BY <1>3 DEF KODone
<1>9. KOMute'
  BY <1>1, <1>2, <1>5 DEF KOMute
<1> QED BY <1>6, <1>7, <1>8, <1>9 DEF KOInv

\* A user changes or deletes a cluster.
LEMMA EditStep ==
    ASSUME KOInv, NEW c \in KONames, NEW s \in KOSpec \cup {KOGone}, KOEdit(c, s)
    PROVE  KOInv'
<1>1. KOTypes /\ KOListed /\ KODone /\ KOMute
  BY DEF KOInv
<1>2. UNCHANGED <<koDry, koObj, koOp, koFaults>> /\ koTouched' = koTouched \cup {c}
      /\ koCR' = [koCR EXCEPT ![c] = s]
      /\ (koStatus' = koStatus \/ koStatus' = [koStatus EXCEPT ![c] = "none"])
  BY DEF KOEdit
<1>3. /\ koCR' \in [KONames -> KOSpec \cup {KOGone}]
      /\ \A d \in KONames : d \notin koTouched' => koCR'[d] = koCR[d]
  BY <1>1, <1>2 DEF KOTypes
<1>4. DOMAIN koStatus' = KONames /\ \A d \in KONames : koStatus'[d] = koStatus[d] \/ koStatus'[d] = "none"
  BY <1>1, <1>2 DEF KOTypes
<1>5. KOTypes'
  BY <1>1, <1>2, <1>3, <1>4 DEF KOTypes
<1>6. KOListed'
  <2>1. koOp.todo \in Seq(KOItem)
    BY <1>1 DEF KOTypes, KOOperator
  <2>2. \A i \in 1 .. Len(koOp.todo) : koOp.todo[i].name \in KONames
    <3>1. \A i \in 1 .. Len(koOp.todo) : koOp.todo[i] \in KOItem
      BY <2>1
    <3> QED BY <3>1 DEF KOItem
  <2> QED BY <1>1, <1>2, <1>3, <2>2 DEF KOListed
<1>7. Item' = Item
  BY <1>2 DEF Item
<1>8. KODone'
  BY <1>1, <1>2, <1>7 DEF KODone
<1>9. KOMute'
  BY <1>1, <1>2, <1>4 DEF KOMute
<1> QED BY <1>5, <1>6, <1>8, <1>9 DEF KOInv

\* A user deletes an object.
LEMMA DeleteObjectStep ==
    ASSUME KOInv, NEW c \in KONames, NEW k \in ToSet(KOKinds), KODeleteObject(c, k)
    PROVE  KOInv'
<1>1. KOTypes /\ KOListed /\ KODone /\ KOMute
  BY DEF KOInv
<1>2. UNCHANGED <<koDry, koCR, koStatus, koOp, koFaults>> /\ koTouched' = koTouched \cup {c}
      /\ koObj' = [koObj EXCEPT ![c][k] = KOGone]
  BY DEF KODeleteObject
<1>3. koObj' = [koObj EXCEPT ![c] = [koObj[c] EXCEPT ![k] = KOGone]]
  BY <1>2
<1>4. DOMAIN koObj = KONames /\ \A d \in KONames : DOMAIN koObj[d] = ToSet(KOKinds)
  BY <1>1 DEF KOTypes
<1>5. DOMAIN koObj' = KONames /\ koObj'[c] = [koObj[c] EXCEPT ![k] = KOGone]
  BY <1>3, <1>4
<1>6. \A d \in KONames : d # c => koObj'[d] = koObj[d]
  BY <1>3, <1>4
<1>7. \A d \in KONames : DOMAIN koObj'[d] = ToSet(KOKinds)
  BY <1>4, <1>5, <1>6
<1>8. KOTypes'
  BY <1>1, <1>2, <1>5, <1>7 DEF KOTypes
<1>9. KOListed'
  BY <1>1, <1>2 DEF KOListed
<1>10. Item' = Item
  BY <1>2 DEF Item
<1>11. KODone'
  <2> SUFFICES ASSUME koOp.todo # <<>>, Item.name \notin koTouched', ~koOp.failed, ~koDry,
                      NEW j \in 1 .. 3, j < koOp.kind
               PROVE  KOFits(koObj'[Item.name][KOKinds[j]], Item.spec, KOKinds[j])
    BY <1>2, <1>10 DEF KODone
  <2>1. Item.name \in KONames
    BY <1>1, ItemTyped
  <2>2. Item.name # c /\ Item.name \notin koTouched
    BY <1>2
  <2>3. KOFits(koObj[Item.name][KOKinds[j]], Item.spec, KOKinds[j])
    BY <1>1, <2>2 DEF KODone
  <2> QED BY <1>6, <2>1, <2>2, <2>3
<1> QED BY <1>1, <1>2, <1>8, <1>9, <1>11 DEF KOInv, KOMute

\* Every step keeps the invariant.
LEMMA OperatorInvariant ==
    ASSUME KOInv, [KONext]_koVars
    PROVE  KOInv'
<1>1. CASE OperatorStep
  BY <1>1, ListStep, EndStep, PatchStep, PostStep, StatusStep DEF OperatorStep
<1>2. CASE KOStopCall \/ UNCHANGED koVars
  <2>1. UNCHANGED <<koDry, koCR, koObj, koStatus, koOp, koFaults, koTouched>>
    BY <1>2 DEF KOStopCall, koVars
  <2> QED BY <2>1 DEF KOInv, KOTypes, KOListed, KODone, KOMute, Item
<1>3. CASE \E c \in KONames : \E s \in KOSpec \cup {KOGone} : KOEdit(c, s)
  BY <1>3, EditStep
<1>4. CASE \E c \in KONames : \E k \in ToSet(KOKinds) : KODeleteObject(c, k)
  BY <1>4, DeleteObjectStep
<1> QED BY <1>1, <1>2, <1>3, <1>4 DEF KONext, KONames

\* A status written as Ready: every kind was applied with the values of the
\* item, and the item is still the cluster's specification.
LEMMA ReadyStep ==
    ASSUME KOInv, [KONext]_koVars, NEW c \in KONames,
           koOp.kind = 4, koOp'.kind = 1, koStatus'[c] = "Ready", koFaults' = koFaults,
           Working, Item.name = c, c \notin koTouched
    PROVE  Matches3(c)
<1>1. KOTypes /\ KOListed /\ KODone /\ KOMute
  BY DEF KOInv
<1>2. koOp.pc = "apply" /\ koOp.todo # <<>>
  BY DEF Working
<1>3. Item.spec # KOGone /\ koCR[c] = Item.spec
  BY <1>1, <1>2, ItemTyped
<1>4. koOp \in KOOperator
  BY <1>1 DEF KOTypes
<1>5. _update_status \/ Unbuildable
  <2>1. koOp' # koOp
    OBVIOUS
  <2>2. ~_reconcile_all /\ ~TurnEnds
    BY <1>2 DEF _reconcile_all, TurnEnds
  <2>3. ~Patch /\ ~Post
    BY <1>1 DEF Patch, Post, KOTypes
  <2> QED BY <2>1, <2>2, <2>3 DEF KONext, koVars, OperatorStep, KOStopCall, KOEdit, KODeleteObject
<1>6. _update_status
  BY <1>5 DEF Unbuildable
<1>7. ~koDry
  <2>1. koDry => koStatus' = koStatus
    BY <1>6 DEF _update_status
  <2> QED BY <1>1, <2>1 DEF KOMute
<1>8. ~koOp.failed
  <2>1. koFaults \in Nat
    BY <1>1 DEF KOTypes
  <2>2. ~Fault
    BY <2>1 DEF Fault
  <2>3. koStatus' = [koStatus EXCEPT ![c] = IF koOp.failed THEN "Error" ELSE "Ready"]
    BY <1>3, <1>6, <1>7, <2>2 DEF _update_status
  <2>4. DOMAIN koStatus = KONames
    BY <1>1 DEF KOTypes
  <2>5. koStatus'[c] = IF koOp.failed THEN "Error" ELSE "Ready"
    BY <2>3, <2>4
  <2> QED BY <2>5
<1>9. \A j \in 1 .. 3 : KOFits(koObj[c][KOKinds[j]], koCR[c], KOKinds[j])
  BY <1>1, <1>2, <1>3, <1>7, <1>8 DEF KODone
<1>10. \A k \in ToSet(KOKinds) : KOFits(koObj[c][k], koCR[c], k)
  BY <1>9, Kinds
<1> QED BY <1>10 DEF Matches3, KOFits

\* KOReadyIsTrue for every list of clusters, every set of specifications and
\* any number of edits and failed requests: a cluster reported as Ready whose
\* listing is not overtaken by a user has the three objects of its
\* specification (SketchLogOperator.reconcile).
THEOREM ReadyIsTrue == KOSpecification => KOReadyIsTrue
<1>1. KOInit => KOInv
  <2> SUFFICES ASSUME KOInit PROVE KOInv
    OBVIOUS
  <2>1. /\ koOp = KOWait /\ koCR \in KOStart /\ koFaults = 0
        /\ koObj = [c \in KONames |-> [k \in ToSet(KOKinds) |-> KOGone]]
        /\ koStatus = [c \in KONames |-> "none"]
    BY DEF KOInit, KONames
  <2>2. koOp \in KOOperator /\ koOp.todo = <<>> /\ koOp.post = FALSE
    BY <2>1 DEF KOWait, KOOperator
  <2>3. koCR \in [KONames -> KOSpec \cup {KOGone}]
    BY <2>1, KOAssumption DEF KONames
  <2>4. KOTypes
    BY <2>1, <2>2, <2>3 DEF KOTypes
  <2>5. KOListed /\ KODone
    BY <2>2 DEF KOListed, KODone
  <2>6. KOMute
    BY <2>1 DEF KOMute
  <2> QED BY <2>4, <2>5, <2>6 DEF KOInv
<1>2. KOInv /\ [KONext]_koVars => KOInv'
  BY OperatorInvariant
<1>3. KOInv /\ [KONext]_koVars =>
        [\A c \in ToSet(KOOrder) :
            (koOp.kind = 4 /\ koOp'.kind = 1 /\ koStatus'[c] = "Ready" /\ koFaults' = koFaults
               /\ Working /\ Item.name = c /\ c \notin koTouched) => Matches3(c)]_koVars
  BY ReadyStep DEF KONames
<1> QED BY <1>1, <1>2, <1>3, PTL DEF KOSpecification, KOReadyIsTrue

-----------------------------------------------------------------------------
(* AlertManager: the store on disk, incidents and routing.                  *)

AMSpecification == AMInit /\ [][AMNext]_amVars

\* Sets of natural numbers have a least element.
LEMMA LeastPosition ==
    ASSUME NEW S \in SUBSET Nat, S # {}
    PROVE  \E m \in S : \A y \in S : m <= y
<1>1. IsWellFoundedOn(OpToRel(<, Nat), Nat)
  BY NatLessThanWellFounded
<1>2. PICK m \in S : \A y \in S : ~(<<y, m>> \in OpToRel(<, Nat))
  BY <1>1, WFMin
<1>3. \A y \in S : <<y, m>> \in OpToRel(<, Nat) <=> y < m
  BY DEF OpToRel
<1>4. \A y \in S : ~(y < m)
  BY <1>2, <1>3
<1> QED BY <1>4

\* What the loop of extend() computes, as an equation, and a solution of it.
Extends(matched, channels, n, f) ==
    f = [k \in 0 .. n |-> IF k = 0 THEN matched ELSE ExtendStep(f[k - 1], channels[k])]

\* The loop has a result for every number of channels read.
LEMMA ExtendsExists ==
    ASSUME NEW matched, NEW channels, NEW n \in Nat
    PROVE  \E f : Extends(matched, channels, n, f)
<1> DEFINE Bad == {m \in Nat : ~\E f : Extends(matched, channels, m, f)}
<1>1. SUFFICES ASSUME Bad # {} PROVE FALSE
  OBVIOUS
<1>2. PICK m \in Bad : \A y \in Bad : m <= y
  BY <1>1, LeastPosition
<1>3. CASE m = 0
  <2> DEFINE f == [i \in 0 .. m |-> matched]
  <2>1. Extends(matched, channels, m, f)
    BY <1>3 DEF Extends
  <2> QED BY <1>2, <2>1
<1>4. CASE m # 0
  <2>1. m \in Nat /\ m - 1 \in Nat /\ ~(m <= m - 1)
    BY <1>2, <1>4
  <2>2. m - 1 \notin Bad
    BY <1>2, <2>1
  <2>3. PICK f : Extends(matched, channels, m - 1, f)
    BY <2>1, <2>2
  <2> DEFINE g == [i \in 0 .. m |-> IF i = m THEN ExtendStep(f[m - 1], channels[m]) ELSE f[i]]
  <2>4. \A i \in 0 .. m : g[i] = IF i = 0 THEN matched ELSE ExtendStep(g[i - 1], channels[i])
    <3> SUFFICES ASSUME NEW i \in 0 .. m
                 PROVE  g[i] = IF i = 0 THEN matched ELSE ExtendStep(g[i - 1], channels[i])
      OBVIOUS
    <3>1. CASE i = m
      BY <2>1, <3>1, <1>4
    <3>2. CASE i # m
      <4>1. i \in 0 .. m - 1 /\ g[i] = f[i] /\ (i # 0 => i - 1 \in 0 .. m /\ i - 1 # m)
        BY <2>1, <3>2
      <4>2. f[i] = IF i = 0 THEN matched ELSE ExtendStep(f[i - 1], channels[i])
        BY <2>3, <4>1 DEF Extends
      <4>3. i # 0 => g[i - 1] = f[i - 1]
        BY <4>1
      <4> QED BY <4>1, <4>2, <4>3
    <3> QED BY <3>1, <3>2
  <2>5. Extends(matched, channels, m, g)
    BY <2>4 DEF Extends
  <2> QED BY <1>2, <2>5
<1> QED BY <1>3, <1>4

\* A list of channels in which none occurs twice.
Listed(m) == m \in Seq(AMChannels) /\ IsInjective(m)

\* One channel more: the list holds it once.
LEMMA ExtendOne ==
    ASSUME NEW m, Listed(m), NEW c \in AMChannels
    PROVE  /\ Listed(ExtendStep(m, c)) /\ ToSet(ExtendStep(m, c)) = ToSet(m) \cup {c}
           /\ ExtendStep(m, c) # <<>>
<1>1. m \in Seq(AMChannels) /\ Len(m) \in Nat /\ DOMAIN m = 1 .. Len(m)
  BY DEF Listed
<1>2. \A i, j \in DOMAIN m : m[i] = m[j] => i = j
  BY DEF Listed, IsInjective
<1>3. CASE c \in ToSet(m)
  <2>1. ExtendStep(m, c) = m
    BY <1>3 DEF ExtendStep
  <2>2. m # <<>>
    BY <1>1, <1>3 DEF ToSet
  <2>3. ToSet(m) \cup {c} = ToSet(m)
    BY <1>3
  <2> QED BY <2>1, <2>2, <2>3
<1>4. CASE c \notin ToSet(m)
  <2> DEFINE s == Append(m, c)
  <2>1. ExtendStep(m, c) = s
    BY <1>4 DEF ExtendStep
  <2>2. /\ s \in Seq(AMChannels) /\ Len(s) = Len(m) + 1 /\ DOMAIN s = 1 .. Len(m) + 1
        /\ s[Len(m) + 1] = c /\ \A i \in 1 .. Len(m) : s[i] = m[i]
    BY <1>1
  <2> HIDE DEF s
  <2>3. \A i \in 1 .. Len(m) : m[i] # c
    BY <1>1, <1>4 DEF ToSet
  <2>4. ASSUME NEW i \in DOMAIN s, NEW j \in DOMAIN s, s[i] = s[j] PROVE i = j
    BY <1>1, <1>2, <2>2, <2>3, <2>4
  <2>5. ToSet(s) = ToSet(m) \cup {c}
    <3>1. \A x : x \in ToSet(s) <=> \E i \in 1 .. Len(m) + 1 : s[i] = x
      BY <2>2 DEF ToSet
    <3>2. \A x : x \in ToSet(m) <=> \E i \in 1 .. Len(m) : m[i] = x
      BY <1>1 DEF ToSet
    <3>3. \A i \in 1 .. Len(m) + 1 : i \in 1 .. Len(m) \/ i = Len(m) + 1
      BY <1>1
    <3>4. Len(m) + 1 \in 1 .. Len(m) + 1 /\ \A i \in 1 .. Len(m) : i \in 1 .. Len(m) + 1
      BY <1>1
    <3>5. \A x : x \in ToSet(s) => x \in ToSet(m) \/ x = c
      BY <2>2, <3>1, <3>2, <3>3
    <3>6. \A x : x \in ToSet(m) => x \in ToSet(s)
      BY <2>2, <3>1, <3>2, <3>4
    <3>7. c \in ToSet(s)
      BY <2>2, <3>1, <3>4
    <3> QED BY <3>5, <3>6, <3>7
  <2>6. s # <<>>
    BY <1>1, <2>2
  <2> QED BY <2>1, <2>2, <2>4, <2>5, <2>6 DEF Listed, IsInjective
<1> QED BY <1>3, <1>4

\* extend() adds the channels of a route, each once.
LEMMA ExtendAll ==
    ASSUME NEW m, Listed(m), NEW channels \in Seq(AMChannels), channels # <<>>
    PROVE  LET new == ExtendMatched(m, channels)
           IN  Listed(new) /\ new # <<>> /\ ToSet(new) = ToSet(m) \cup ToSet(channels)
<1> DEFINE n == Len(channels)
<1>1. n \in Nat /\ n # 0 /\ DOMAIN channels = 1 .. n /\ \A i \in 1 .. n : channels[i] \in AMChannels
  OBVIOUS
<1>2. PICK f : Extends(m, channels, n, f) /\ ExtendMatched(m, channels) = f[n]
  <2>1. \E g : Extends(m, channels, Len(channels), g)
    BY <1>1, ExtendsExists
  <2>2. \E g : g = [k \in 0 .. Len(channels) |->
                      IF k = 0 THEN m ELSE ExtendStep(g[k - 1], channels[k])]
    BY <2>1, Zenon DEF Extends
  <2> QED BY <2>2, Zenon DEF ExtendMatched, Extends
<1> HIDE DEF n
<1>3. f[0] = m /\ \A i \in 1 .. n : f[i] = ExtendStep(f[i - 1], channels[i])
  <2>1. \A i \in 0 .. n : f[i] = IF i = 0 THEN m ELSE ExtendStep(f[i - 1], channels[i])
    BY <1>2 DEF Extends
  <2> QED BY <1>1, <2>1
<1> DEFINE Of(k) == {channels[i] : i \in 1 .. k}
           Good(k) == Listed(f[k]) /\ (k # 0 => f[k] # <<>>) /\ ToSet(f[k]) = ToSet(m) \cup Of(k)
           Bad == {k \in 0 .. n : ~Good(k)}
<1>4. Bad = {}
  <2>1. SUFFICES ASSUME Bad # {} PROVE FALSE
    OBVIOUS
  <2>2. PICK k \in Bad : \A y \in Bad : k <= y
    <3>1. Bad \in SUBSET Nat
      BY <1>1
    <3> QED BY <2>1, <3>1, LeastPosition
  <2>3. k # 0
    <3>1. Good(0)
      BY <1>3
    <3> QED BY <2>2, <3>1
  <2>4. k \in 1 .. n /\ k - 1 \in 0 .. n /\ ~(k <= k - 1)
    BY <1>1, <2>2, <2>3
  <2>5. Good(k - 1)
    BY <2>2, <2>4
  <2>6. f[k] = ExtendStep(f[k - 1], channels[k]) /\ channels[k] \in AMChannels
    BY <1>1, <1>3, <2>4
  <2>7. Of(k) = Of(k - 1) \cup {channels[k]}
    <3>1. \A i \in 1 .. k : i \in 1 .. k - 1 \/ i = k
      BY <2>4
    <3>2. k \in 1 .. k /\ \A i \in 1 .. k - 1 : i \in 1 .. k
      BY <2>4
    <3> QED BY <3>1, <3>2
  <2> HIDE DEF Of, Bad
  <2>8. Good(k)
    BY <2>5, <2>6, <2>7, ExtendOne
  <2> QED BY <2>2, <2>8 DEF Bad
<1>5. Good(n)
  BY <1>1, <1>4
<1>6. Of(n) = ToSet(channels)
  BY <1>1 DEF ToSet
<1> QED BY <1>1, <1>2, <1>5, <1>6


\* What the walk over the routes computes, as an equation, and a solution.
Walks(a, n, f) ==
    f = [k \in 0 .. n |-> IF k = 0 THEN <<<<>>, FALSE>> ELSE RouteStep(a, f[k - 1], amRoutes[k])]

\* The walk has a result for every number of routes read.
LEMMA WalksExists ==
    ASSUME NEW a, NEW n \in Nat
    PROVE  \E f : Walks(a, n, f)
<1> DEFINE Bad == {m \in Nat : ~\E f : Walks(a, m, f)}
<1>1. SUFFICES ASSUME Bad # {} PROVE FALSE
  OBVIOUS
<1>2. PICK m \in Bad : \A y \in Bad : m <= y
  BY <1>1, LeastPosition
<1>3. CASE m = 0
  <2> DEFINE f == [i \in 0 .. m |-> <<<<>>, FALSE>>]
  <2>1. Walks(a, m, f)
    BY <1>3 DEF Walks
  <2> QED BY <1>2, <2>1
<1>4. CASE m # 0
  <2>1. m \in Nat /\ m - 1 \in Nat /\ ~(m <= m - 1)
    BY <1>2, <1>4
  <2>2. m - 1 \notin Bad
    BY <1>2, <2>1
  <2>3. PICK f : Walks(a, m - 1, f)
    BY <2>1, <2>2
  <2> DEFINE g == [i \in 0 .. m |-> IF i = m THEN RouteStep(a, f[m - 1], amRoutes[m]) ELSE f[i]]
  <2>4. \A i \in 0 .. m : g[i] = IF i = 0 THEN <<<<>>, FALSE>> ELSE RouteStep(a, g[i - 1], amRoutes[i])
    <3> SUFFICES ASSUME NEW i \in 0 .. m
                 PROVE  g[i] = IF i = 0 THEN <<<<>>, FALSE>> ELSE RouteStep(a, g[i - 1], amRoutes[i])
      OBVIOUS
    <3>1. CASE i = m
      BY <2>1, <3>1, <1>4
    <3>2. CASE i # m
      <4>1. i \in 0 .. m - 1 /\ g[i] = f[i] /\ (i # 0 => i - 1 \in 0 .. m /\ i - 1 # m)
        BY <2>1, <3>2
      <4>2. f[i] = IF i = 0 THEN <<<<>>, FALSE>> ELSE RouteStep(a, f[i - 1], amRoutes[i])
        BY <2>3, <4>1 DEF Walks
      <4>3. i # 0 => g[i - 1] = f[i - 1]
        BY <4>1
      <4> QED BY <4>1, <4>2, <4>3
    <3> QED BY <3>1, <3>2
  <2>5. Walks(a, m, g)
    BY <2>4 DEF Walks
  <2> QED BY <1>2, <2>5
<1> QED BY <1>3, <1>4

\* Route i applies to the alert, and is reached within the first k routes.
Hit(a, i) == Matches(amRoutes[i].match, a)
UsedTo(a, k) ==
    {i \in 1 .. k : Hit(a, i) /\ \A j \in 1 .. k : Hit(a, j) /\ j < i => amRoutes[j].continue}
ChannelsOf(S) == UNION {ToSet(amRoutes[i].channels) : i \in S}

\* After k routes: the list holds the channels of those reached, each once, and
\* the walk has stopped if one of the matching ones does not continue.
WalkOK(a, k, w) ==
    /\ Listed(w[1]) /\ ToSet(w[1]) = ChannelsOf(UsedTo(a, k))
    /\ (\E i \in 1 .. k : Hit(a, i)) => w[1] # <<>>
    /\ w[2] \in BOOLEAN
    /\ IF w[2] THEN \E i \in 1 .. k : Hit(a, i) /\ ~amRoutes[i].continue
       ELSE \A i \in 1 .. k : Hit(a, i) => amRoutes[i].continue

\* Routes are lists of channels.
LEMMA RouteShape ==
    ASSUME NEW r \in AMRoute
    PROVE  r.channels \in Seq(AMChannels) /\ r.channels # <<>> /\ r.continue \in BOOLEAN
<1>1. r.channels \in Seq(ToSet(r.channels)) /\ r.channels # <<>> /\ r.continue \in BOOLEAN
  BY AMAssumption
<1>2. ToSet(r.channels) \subseteq AMChannels
  BY DEF AMChannels
<1> DEFINE S == ToSet(r.channels)
           s == r.channels
<1>3. Len(s) \in Nat /\ s \in [1 .. Len(s) -> S]
  BY <1>1
<1>4. S \subseteq AMChannels
  BY <1>2
<1> HIDE DEF S, s
<1>5. s \in Seq(AMChannels)
  BY <1>3, <1>4
<1> QED BY <1>1, <1>5 DEF s

\* One route more.
LEMMA WalkOne ==
    ASSUME amRoutes \in Seq(AMRoute), NEW a, NEW k \in 1 .. Len(amRoutes), NEW w,
           WalkOK(a, k - 1, w)
    PROVE  WalkOK(a, k, RouteStep(a, w, amRoutes[k]))
<1> DEFINE r == amRoutes[k]
           new == RouteStep(a, w, r)
<1>1. r \in AMRoute /\ k \in Nat /\ k # 0
  BY DEF r
<1>2. \A i \in 1 .. k : i \in 1 .. k - 1 \/ i = k
  BY <1>1
<1>3. k \in 1 .. k /\ \A i \in 1 .. k - 1 : i \in 1 .. k /\ i < k /\ ~(k < i)
  BY <1>1
<1>4. CASE w[2]
  <2>1. new = w
    BY <1>4 DEF RouteStep
  <2>2. PICK i \in 1 .. k - 1 : Hit(a, i) /\ ~amRoutes[i].continue
    BY <1>4 DEF WalkOK
  <2>3. UsedTo(a, k) = UsedTo(a, k - 1)
    BY <1>2, <1>3, <2>2 DEF UsedTo
  <2>4. w[1] # <<>>
    BY <2>2 DEF WalkOK
  <2> QED BY <1>3, <1>4, <2>1, <2>2, <2>3, <2>4 DEF WalkOK
<1>5. CASE ~w[2] /\ ~Hit(a, k)
  <2>1. new = w
    BY <1>5 DEF RouteStep, Hit
  <2>2. UsedTo(a, k) = UsedTo(a, k - 1)
    BY <1>2, <1>3, <1>5 DEF UsedTo
  <2> QED BY <1>2, <1>3, <1>5, <2>1, <2>2 DEF WalkOK
<1>6. CASE ~w[2] /\ Hit(a, k)
  <2> DEFINE list == ExtendMatched(w[1], r.channels)
  <2>1. new = <<list, ~r.continue>>
    BY <1>6 DEF RouteStep, Hit
  <2>2. Listed(list) /\ list # <<>> /\ ToSet(list) = ToSet(w[1]) \cup ToSet(r.channels)
    <3>1. r.channels \in Seq(AMChannels) /\ r.channels # <<>>
      BY <1>1, RouteShape
    <3>2. Listed(w[1])
      BY DEF WalkOK
    <3> QED BY <3>1, <3>2, ExtendAll
  <2>3. \A i \in 1 .. k - 1 : Hit(a, i) => amRoutes[i].continue
    BY <1>6 DEF WalkOK
  <2>4. UsedTo(a, k) = UsedTo(a, k - 1) \cup {k}
    BY <1>2, <1>3, <1>6, <2>3 DEF UsedTo
  <2>5. ChannelsOf(UsedTo(a, k)) = ChannelsOf(UsedTo(a, k - 1)) \cup ToSet(r.channels)
    <3>1. \A S : ChannelsOf(S \cup {k}) = ChannelsOf(S) \cup ToSet(amRoutes[k].channels)
      BY DEF ChannelsOf
    <3> QED BY <2>4, <3>1
  <2>6. ToSet(list) = ChannelsOf(UsedTo(a, k))
    BY <2>2, <2>5 DEF WalkOK
  <2>7. r.continue \in BOOLEAN
    BY <1>1, RouteShape
  <2> HIDE DEF list
  <2>8. new[1] = list /\ new[2] = ~r.continue
    BY <2>1
  <2> HIDE DEF new
  <2>9. CASE r.continue
    <3>1. new[2] = FALSE
      BY <2>7, <2>8, <2>9
    <3>2. \A i \in 1 .. k : Hit(a, i) => amRoutes[i].continue
      BY <1>2, <2>3, <2>9
    <3>3. WalkOK(a, k, new)
      BY <2>2, <2>6, <2>8, <3>1, <3>2 DEF WalkOK
    <3> QED BY <3>3 DEF new
  <2>10. CASE ~r.continue
    <3>1. new[2] = TRUE
      BY <2>7, <2>8, <2>10
    <3>2. \E i \in 1 .. k : Hit(a, i) /\ ~amRoutes[i].continue
      BY <1>3, <1>6, <2>10
    <3>3. WalkOK(a, k, new)
      BY <2>2, <2>6, <2>8, <3>1, <3>2 DEF WalkOK
    <3> QED BY <3>3 DEF new
  <2> QED BY <2>9, <2>10
<1>7. w[2] \in BOOLEAN
  BY DEF WalkOK
<1> QED BY <1>4, <1>5, <1>6, <1>7

\* The whole walk.
LEMMA WalkAll ==
    ASSUME amRoutes \in Seq(AMRoute), NEW a
    PROVE  WalkOK(a, Len(amRoutes), RouteWalk(a))
<1> DEFINE n == Len(amRoutes)
<1>1. n \in Nat
  OBVIOUS
<1>2. PICK f : Walks(a, n, f) /\ RouteWalk(a) = f[n]
  <2>1. \E g : Walks(a, Len(amRoutes), g)
    BY <1>1, WalksExists
  <2>2. \E g : g = [k \in 0 .. Len(amRoutes) |->
                      IF k = 0 THEN <<<<>>, FALSE>> ELSE RouteStep(a, g[k - 1], amRoutes[k])]
    BY <2>1, Zenon DEF Walks
  <2> QED BY <2>2, Zenon DEF RouteWalk, Walks
<1>3. f[0] = <<<<>>, FALSE>> /\ \A i \in 1 .. n : f[i] = RouteStep(a, f[i - 1], amRoutes[i])
  <2> HIDE DEF n
  <2> DEFINE start == <<<<>>, FALSE>>
  <2>1. \A i \in 0 .. n : f[i] = IF i = 0 THEN start ELSE RouteStep(a, f[i - 1], amRoutes[i])
    BY <1>2 DEF Walks
  <2> HIDE DEF start
  <2>2. f[0] = start /\ \A i \in 1 .. n : f[i] = RouteStep(a, f[i - 1], amRoutes[i])
    BY <1>1, <2>1
  <2> QED BY <2>2 DEF start
<1> DEFINE Bad == {k \in 0 .. n : ~WalkOK(a, k, f[k])}
<1>4. Bad = {}
  <2> HIDE DEF n
  <2>1. SUFFICES ASSUME Bad # {} PROVE FALSE
    OBVIOUS
  <2>2. PICK k \in Bad : \A y \in Bad : k <= y
    <3>1. Bad \in SUBSET Nat
      BY <1>1
    <3> QED BY <2>1, <3>1, LeastPosition
  <2>3. k # 0
    <3>1. \A i \in 1 .. 0 : FALSE
      OBVIOUS
    <3>2. Listed(<<>>) /\ ToSet(<<>>) = {}
      BY DEF Listed, IsInjective, ToSet
    <3>3. UsedTo(a, 0) = {} /\ ChannelsOf({}) = {}
      BY <3>1 DEF UsedTo, ChannelsOf
    <3>4. f[0][1] = <<>> /\ f[0][2] = FALSE
      BY <1>3
    <3>5. WalkOK(a, 0, f[0])
      BY <3>1, <3>2, <3>3, <3>4 DEF WalkOK
    <3> QED BY <2>2, <3>5
  <2>4. k \in 1 .. n /\ k - 1 \in 0 .. n /\ ~(k <= k - 1)
    BY <1>1, <2>2, <2>3
  <2>5. WalkOK(a, k - 1, f[k - 1])
    BY <2>2, <2>4
  <2>6. f[k] = RouteStep(a, f[k - 1], amRoutes[k])
    BY <1>3, <2>4
  <2>7. WalkOK(a, k, f[k])
    BY <2>4, <2>5, <2>6, WalkOne DEF n
  <2> QED BY <2>2, <2>7
<1>5. n \in 0 .. n
  BY <1>1
<1> QED BY <1>2, <1>4, <1>5

\* Routing follows the order of the routes, and names channels.
LEMMA Routed ==
    ASSUME amRoutes \in Seq(AMRoute)
    PROVE  AMFirstMatchWins /\ \A a : resolve_channels(a) \in Seq(AMChannels)
<1>1. AMDefault \in Seq(AMChannels)
  <2> DEFINE S == ToSet(AMDefault)
  <2>1. Len(AMDefault) \in Nat /\ AMDefault \in [1 .. Len(AMDefault) -> S]
    BY AMAssumption
  <2>2. S \subseteq AMChannels
    <3> DEFINE U == UNION {ToSet(r.channels) : r \in AMRoute}
    <3>1. AMChannels = U \cup S
      BY DEF AMChannels
    <3> HIDE DEF U, S
    <3> QED BY <3>1
  <2> HIDE DEF S
  <2> QED BY <2>1, <2>2
<1>2. \A a : resolve_channels(a) \in Seq(AMChannels)
  BY <1>1, WalkAll DEF WalkOK, Listed, resolve_channels
<1>3. DOMAIN amRoutes = 1 .. Len(amRoutes)
  OBVIOUS
<1>4. ASSUME NEW a \in AMAlert
      PROVE  LET got == resolve_channels(a)
                 hit == {i \in DOMAIN amRoutes : Matches(amRoutes[i].match, a)}
                 used == {i \in hit : \A j \in hit : j < i => amRoutes[j].continue}
             IN  IF hit = {} THEN got = AMDefault
                 ELSE /\ ToSet(got) = UNION {ToSet(amRoutes[i].channels) : i \in used}
                      /\ IsInjective(got)
  <2> DEFINE hit == {i \in DOMAIN amRoutes : Matches(amRoutes[i].match, a)}
             used == {i \in hit : \A j \in hit : j < i => amRoutes[j].continue}
             list == RouteWalk(a)[1]
  <2>1. /\ Listed(list) /\ ToSet(list) = ChannelsOf(UsedTo(a, Len(amRoutes)))
        /\ (\E i \in 1 .. Len(amRoutes) : Hit(a, i)) => list # <<>>
    BY WalkAll DEF WalkOK
  <2>2. resolve_channels(a) = IF list # <<>> THEN list ELSE AMDefault
    BY DEF resolve_channels
  <2> HIDE DEF list
  <2>3. used = UsedTo(a, Len(amRoutes))
    BY <1>3 DEF UsedTo, Hit
  <2>4. CASE hit = {}
    <3>1. UsedTo(a, Len(amRoutes)) = {}
      BY <2>3, <2>4
    <3>2. ToSet(list) = {}
      BY <2>1, <3>1 DEF ChannelsOf
    <3>3. list = <<>>
      <4>1. list \in Seq(AMChannels)
        BY <2>1 DEF Listed
      <4>2. ASSUME Len(list) # 0 PROVE FALSE
        <5>1. 1 \in DOMAIN list
          BY <4>1, <4>2
        <5>2. list[1] \in ToSet(list)
          BY <5>1, Zenon DEF ToSet
        <5> QED BY <3>2, <5>2
      <4> QED BY <4>1, <4>2
    <3> QED BY <2>2, <2>4, <3>3
  <2>5. CASE hit # {}
    <3>1. list # <<>>
      BY <1>3, <2>1, <2>5 DEF Hit
    <3>2. resolve_channels(a) = list
      BY <2>2, <3>1
    <3>3. ToSet(list) = UNION {ToSet(amRoutes[i].channels) : i \in used}
      BY <2>1, <2>3 DEF ChannelsOf
    <3> HIDE DEF used
    <3> QED BY <2>1, <2>5, <3>2, <3>3 DEF Listed, used
  <2> QED BY <2>4, <2>5
<1> QED BY <1>2, <1>4 DEF AMFirstMatchWins


AMFile == [active : SUBSET AMAlert, history : Seq(AMAlert \X AMStatus)]
AMRecord == [pc : {"check", "upsert", "save", "deliver", "post"}, alert : AMAlert,
             status : AMStatus, todo : Seq(AMChannels), attempt : Nat, data : AMFile]
Posting(t) == amCall[t].pc \in {"deliver", "post"}

\* The types of the store, the routes and the calls.
AMTypes ==
    /\ amActive \in SUBSET AMAlert /\ amHistory \in Seq(AMAlert \X AMStatus) /\ amDisk \in AMFile
    /\ amRoutes \in Seq(AMRoute) /\ amCalls \in Nat /\ amOverlap \in SUBSET AMAlert
    /\ amLast \in [AMAlert -> AMStatus \cup {"none"}]
    /\ amRec \in [AMAlert -> [AMChannels -> {"none", "failed", "skipped", "pending", "sent"}]]
    /\ amAt \in [AMAlert -> [AMChannels -> {"none", "open", "closed"}]]
    /\ amCall \in [AMThread -> AMRecord \cup {AMIdle}]

\* What an upsert of alert a makes of the store.
After(file, a, st) ==
    [active  |-> IF st = "firing" THEN file.active \cup {a} ELSE file.active \ {a},
     history |-> IF st = "firing" THEN file.history ELSE Append(file.history, <<a, st>>)]

\* The thread that saves holds the lock, and what it saves is the file with
\* its own upsert; while the lock is free the file is the store.
StoreLocked ==
    /\ amLock \in AMThread \cup {"free"}
    /\ \A t \in AMThread : amCall[t].pc = "save" <=> amLock = t
    /\ amLock = "free" => amDisk = [active |-> amActive, history |-> amHistory]
    /\ \A t \in AMThread : amCall[t].pc = "save" =>
         /\ amCall[t].data = [active |-> amActive, history |-> amHistory]
         /\ amCall[t].data = After(amDisk, amCall[t].alert, amCall[t].status)

\* Nothing is recorded but for channels that the routes name, and these do
\* not change after the first call.
RoutesKept ==
    /\ \A t \in AMThread : amCall[t].pc # "idle" => amCalls # 0
    /\ \A a \in AMAlert, c \in AMChannels : amRec[a][c] # "none" =>
         amCalls # 0 /\ c \in ToSet(resolve_channels(a))
    /\ \A t \in AMThread : Posting(t) =>
         /\ amCall[t].todo # <<>>
         /\ ToSet(amCall[t].todo) \subseteq ToSet(resolve_channels(amCall[t].alert))

\* An alert that no two calls worked on at once has one call at most, which
\* delivers the status of the last upsert.
CallsApart ==
    \A a \in AMAlert \ amOverlap :
        /\ \A t, u \in AMThread : t # u /\ amCall[t].pc # "idle" /\ amCall[t].alert = a
                /\ amCall[u].pc # "idle" => amCall[u].alert # a
        /\ \A t \in AMThread : Posting(t) /\ amCall[t].alert = a => amCall[t].status = amLast[a]

\* A channel that the resolution is recorded as sent to, and that no call has
\* still to post to, has heard of it.
Waiting(a, c) == \E t \in AMThread : Posting(t) /\ amCall[t].alert = a /\ c \in ToSet(amCall[t].todo)
Told ==
    \A a \in AMAlert \ amOverlap, c \in AMChannels :
        amLast[a] = "resolved" /\ amRec[a][c] = "sent" /\ ~Waiting(a, c) => amAt[a][c] = "closed"

AMInv == AMTypes /\ StoreLocked /\ AMStoreDurable /\ RoutesKept /\ CallsApart /\ Told

\* A call that is not idle is a record.
LEMMA CallShape ==
    ASSUME AMTypes, NEW t \in AMThread, amCall[t].pc # "idle"
    PROVE  amCall[t] \in AMRecord
BY DEF AMTypes, AMIdle

\* What a list of channels still to post to becomes.
LEMMA Rest ==
    ASSUME NEW s \in Seq(AMChannels), s # <<>>
    PROVE  /\ Head(s) \in AMChannels /\ Head(s) \in ToSet(s)
           /\ Tail(s) \in Seq(AMChannels) /\ ToSet(Tail(s)) \subseteq ToSet(s)
           /\ \A c \in ToSet(s) : c = Head(s) \/ c \in ToSet(Tail(s))
           /\ Len(s) = 1 => \A c \in ToSet(s) : c = Head(s)
           /\ Len(s) # 1 => Tail(s) # <<>>
<1>1. /\ Len(s) \in Nat /\ Len(s) # 0 /\ DOMAIN s = 1 .. Len(s) /\ Head(s) = s[1]
      /\ \A i \in 1 .. Len(s) : s[i] \in AMChannels
  OBVIOUS
<1>2. /\ Tail(s) \in Seq(AMChannels) /\ DOMAIN Tail(s) = 1 .. Len(s) - 1
      /\ \A i \in 1 .. Len(s) - 1 : Tail(s)[i] = s[i + 1]
      /\ Len(Tail(s)) = Len(s) - 1
  OBVIOUS
<1>3. 1 \in 1 .. Len(s) /\ \A i \in 1 .. Len(s) - 1 : i + 1 \in 1 .. Len(s)
  BY <1>1
<1>4. \A c : c \in ToSet(s) <=> \E i \in 1 .. Len(s) : s[i] = c
  BY <1>1 DEF ToSet
<1> DEFINE r == Tail(s)
<1>5. \A c : c \in ToSet(r) <=> \E i \in 1 .. Len(s) - 1 : r[i] = c
  BY <1>2 DEF ToSet
<1> HIDE DEF r
<1>6. ToSet(r) \subseteq ToSet(s)
  BY <1>2, <1>3, <1>4, <1>5 DEF r
<1>7. ASSUME NEW c \in ToSet(s), c # Head(s) PROVE c \in ToSet(r)
  <2>1. PICK i \in 1 .. Len(s) : s[i] = c
    BY <1>4
  <2>2. i - 1 \in 1 .. Len(s) - 1 /\ (i - 1) + 1 = i
    BY <1>1, <1>7, <2>1
  <2>3. r[i - 1] = c
    BY <1>2, <2>1, <2>2 DEF r
  <2> QED BY <1>5, <2>2, <2>3
<1>8. Len(s) = 1 => \A c \in ToSet(s) : c = Head(s)
  BY <1>1, <1>4
<1>9. Len(s) # 1 => r # <<>>
  BY <1>1, <1>2 DEF r
<1> QED BY <1>1, <1>2, <1>3, <1>4, <1>6, <1>7, <1>8, <1>9 DEF r

\* A thread that posts stays with the routes as they are.
LEMMA SameRoutes ==
    ASSUME amRoutes' = amRoutes
    PROVE  /\ \A a : resolve_channels(a)' = resolve_channels(a)
           /\ \A t : resolve_channels(amCall[t].alert)' = resolve_channels(amCall'[t].alert)
BY DEF resolve_channels, RouteWalk, RouteStep


\* A call that begins, or goes on before its deliveries, disturbs none.
LEMMA QuietMove ==
    ASSUME AMInv, NEW t \in AMThread, NEW r \in AMRecord, r.pc \in {"check", "upsert", "save"},
           amCall' = [amCall EXCEPT ![t] = r], ~Posting(t),
           amRoutes' = amRoutes, amRec' = amRec, amAt' = amAt, amLast' = amLast,
           amCalls' # 0, amOverlap \subseteq amOverlap',
           \/ amCall[t].pc # "idle" /\ r.alert = amCall[t].alert
           \/ r.alert \in amOverlap'
           \/ \A u \in AMThread \ {t} : amCall[u].pc # "idle" => amCall[u].alert # r.alert
    PROVE  RoutesKept' /\ CallsApart' /\ Told'
<1>1. \A u \in AMThread : amCall'[u] = IF u = t THEN r ELSE amCall[u]
  BY DEF AMInv, AMTypes
<1>2. \A u \in AMThread : /\ Posting(u)' <=> Posting(u)
                          /\ Posting(u) => amCall'[u] = amCall[u]
  BY <1>1 DEF Posting
<1>3. /\ \A a : resolve_channels(a)' = resolve_channels(a)
      /\ \A u : resolve_channels(amCall[u].alert)' = resolve_channels(amCall'[u].alert)
  BY SameRoutes
<1>4. RoutesKept'
  <2>1. \A u \in AMThread : amCall'[u].pc # "idle" => amCalls' # 0
    OBVIOUS
  <2>2. \A a \in AMAlert, c \in AMChannels : amRec'[a][c] # "none" =>
           amCalls' # 0 /\ c \in ToSet(resolve_channels(a)')
    BY <1>3 DEF AMInv, RoutesKept
  <2>3. \A u \in AMThread : Posting(u)' =>
         /\ amCall'[u].todo # <<>>
         /\ ToSet(amCall'[u].todo) \subseteq ToSet(resolve_channels(amCall'[u].alert))
    BY <1>2, <1>3 DEF AMInv, RoutesKept
  <2> QED BY <1>3, <2>1, <2>2, <2>3 DEF RoutesKept
<1>5. CallsApart'
  <2> SUFFICES ASSUME NEW a \in AMAlert \ amOverlap'
               PROVE  /\ \A u, w \in AMThread : u # w /\ amCall'[u].pc # "idle" /\ amCall'[u].alert = a
                            /\ amCall'[w].pc # "idle" => amCall'[w].alert # a
                      /\ \A u \in AMThread : Posting(u)' /\ amCall'[u].alert = a
                            => amCall'[u].status = amLast'[a]
    BY DEF CallsApart
  <2>1. a \in AMAlert \ amOverlap
    OBVIOUS
  <2>2. \A u, w \in AMThread : u # w /\ amCall[u].pc # "idle" /\ amCall[u].alert = a
            /\ amCall[w].pc # "idle" => amCall[w].alert # a
    BY <2>1 DEF AMInv, CallsApart
  <2>3. \A u \in AMThread \ {t} : amCall[u].pc # "idle" /\ r.alert = a => amCall[u].alert # a
    BY <2>2
  <2>4. \A u, w \in AMThread : u # w /\ amCall'[u].pc # "idle" /\ amCall'[u].alert = a
            /\ amCall'[w].pc # "idle" => amCall'[w].alert # a
    BY <1>1, <2>2, <2>3
  <2>5. \A u \in AMThread : Posting(u)' /\ amCall'[u].alert = a => amCall'[u].status = amLast'[a]
    BY <1>2, <2>1 DEF AMInv, CallsApart
  <2> QED BY <2>4, <2>5
<1>6. Told'
  <2>1. \A a, c : Waiting(a, c)' <=> Waiting(a, c)
    BY <1>2 DEF Waiting
  <2> QED BY <2>1 DEF AMInv, Told
<1> QED BY <1>4, <1>5, <1>6

\* A step of the delivery: to the next channel, or to the next attempt.
LEMMA PostMove ==
    ASSUME AMInv, NEW t \in AMThread, Posting(t), NEW r,
           \/ r = AMIdle /\ Len(amCall[t].todo) = 1
           \/ /\ r \in AMRecord /\ r.pc \in {"deliver", "post"} /\ r.alert = amCall[t].alert
              /\ r.status = amCall[t].status
              /\ \/ r.todo = amCall[t].todo
                 \/ r.todo = Tail(amCall[t].todo) /\ Len(amCall[t].todo) # 1,
           amCall' = [amCall EXCEPT ![t] = r],
           NEW s \in {"none", "failed", "skipped", "pending", "sent"},
           amRec' = [amRec EXCEPT ![amCall[t].alert][Head(amCall[t].todo)] = s],
           NEW v \in {"none", "open", "closed"},
           amAt' = [amAt EXCEPT ![amCall[t].alert][Head(amCall[t].todo)] = v],
           \/ r # AMIdle /\ r.todo = amCall[t].todo
           \/ s # "sent" \/ amCall[t].status # "resolved" \/ v = "closed",
           UNCHANGED <<amStore, amRoutes, amCalls, amOverlap>>
    PROVE  AMInv'
<1> DEFINE a == amCall[t].alert
           todo == amCall[t].todo
           c == Head(todo)
<1>1. amCall[t] \in AMRecord /\ amCall[t].pc \in {"deliver", "post"}
  BY CallShape DEF AMInv, Posting
<1>2. a \in AMAlert /\ todo \in Seq(AMChannels) /\ todo # <<>>
      /\ ToSet(todo) \subseteq ToSet(resolve_channels(a))
  BY <1>1 DEF AMRecord, AMInv, RoutesKept
<1>3. /\ c \in AMChannels /\ c \in ToSet(todo) /\ ToSet(Tail(todo)) \subseteq ToSet(todo)
      /\ \A d \in ToSet(todo) : d = c \/ d \in ToSet(Tail(todo))
      /\ Len(todo) = 1 => \A d \in ToSet(todo) : d = c
      /\ Len(todo) # 1 => Tail(todo) # <<>>
  BY <1>2, Rest
<1>4. \A u \in AMThread : amCall'[u] = IF u = t THEN r ELSE amCall[u]
  BY DEF AMInv, AMTypes
<1>5. /\ amActive' = amActive /\ amHistory' = amHistory /\ amDisk' = amDisk /\ amLock' = amLock
      /\ amLast' = amLast /\ amRoutes' = amRoutes /\ amCalls' = amCalls /\ amOverlap' = amOverlap
  BY DEF amStore
<1>6. /\ \A b \in AMAlert, d \in AMChannels : amRec'[b][d] = IF b = a /\ d = c THEN s ELSE amRec[b][d]
      /\ \A b \in AMAlert, d \in AMChannels : amAt'[b][d] = IF b = a /\ d = c THEN v ELSE amAt[b][d]
  BY <1>2, <1>3 DEF AMInv, AMTypes
<1>7. AMTypes'
  <2>1. amRec' \in [AMAlert -> [AMChannels -> {"none", "failed", "skipped", "pending", "sent"}]]
    BY <1>2, <1>3 DEF AMInv, AMTypes
  <2>2. amAt' \in [AMAlert -> [AMChannels -> {"none", "open", "closed"}]]
    BY <1>2, <1>3 DEF AMInv, AMTypes
  <2>3. amCall' \in [AMThread -> AMRecord \cup {AMIdle}]
    BY DEF AMInv, AMTypes
  <2> QED BY <1>5, <2>1, <2>2, <2>3 DEF AMInv, AMTypes
<1>8. r.pc # "save" /\ (r.pc \in {"deliver", "post"} <=> r # AMIdle) /\ (r = AMIdle => r.pc = "idle")
  BY DEF AMIdle, AMRecord
<1>9. StoreLocked'
  <2>1. \A u \in AMThread : /\ amCall'[u].pc = "save" <=> amCall[u].pc = "save"
                            /\ amCall[u].pc = "save" => amCall'[u] = amCall[u]
    BY <1>1, <1>4, <1>8
  <2> QED BY <1>5, <2>1, SMTT(60) DEF AMInv, StoreLocked, After
<1>10. AMStoreDurable'
  BY <1>5 DEF AMInv, AMStoreDurable
<1>11. /\ \A b : resolve_channels(b)' = resolve_channels(b)
       /\ \A u : resolve_channels(amCall[u].alert)' = resolve_channels(amCall'[u].alert)
  BY <1>5, SameRoutes
<1> HIDE DEF a, todo, c
<1>12. RoutesKept'
  <2>1. amCalls' # 0 /\ amCalls # 0
    BY <1>1, <1>5 DEF AMInv, RoutesKept
  <2>2. \A b \in AMAlert, d \in AMChannels : amRec'[b][d] # "none" =>
           d \in ToSet(resolve_channels(b)')
    BY <1>2, <1>3, <1>6, <1>11 DEF AMInv, RoutesKept
  <2>3. ASSUME NEW u \in AMThread, Posting(u)'
        PROVE  /\ amCall'[u].todo # <<>>
               /\ ToSet(amCall'[u].todo) \subseteq ToSet(resolve_channels(amCall'[u].alert))
    <3>1. CASE u # t
      BY <1>4, <1>11, <2>3, <3>1 DEF AMInv, RoutesKept, Posting
    <3>2. CASE u = t
      <4>1. amCall'[u] = r /\ r # AMIdle
        BY <1>4, <1>8, <2>3, <3>2 DEF Posting
      <4>2. r.alert = a /\ (r.todo = todo \/ (r.todo = Tail(todo) /\ Len(todo) # 1))
        BY <4>1 DEF a, todo
      <4> QED BY <1>2, <1>3, <1>11, <4>1, <4>2
    <3> QED BY <3>1, <3>2
  <2> QED BY <1>11, <2>1, <2>2, <2>3 DEF RoutesKept
<1>13. r # AMIdle => r.alert = a /\ r.status = amCall[t].status
  BY DEF a
<1>14. CallsApart'
  <2> SUFFICES ASSUME NEW b \in AMAlert \ amOverlap
               PROVE  /\ \A u, w \in AMThread : u # w /\ amCall'[u].pc # "idle" /\ amCall'[u].alert = b
                            /\ amCall'[w].pc # "idle" => amCall'[w].alert # b
                      /\ \A u \in AMThread : Posting(u)' /\ amCall'[u].alert = b
                            => amCall'[u].status = amLast[b]
    BY <1>5 DEF CallsApart
  <2>1. /\ \A u, w \in AMThread : u # w /\ amCall[u].pc # "idle" /\ amCall[u].alert = b
              /\ amCall[w].pc # "idle" => amCall[w].alert # b
        /\ \A u \in AMThread : Posting(u) /\ amCall[u].alert = b => amCall[u].status = amLast[b]
    BY DEF AMInv, CallsApart
  <2>2. \A u \in AMThread : /\ amCall'[u].pc # "idle" => amCall[u].pc # "idle"
                            /\ amCall'[u].pc # "idle" => amCall'[u].alert = amCall[u].alert
                            /\ amCall'[u].pc # "idle" => amCall'[u].status = amCall[u].status
                            /\ Posting(u)' => Posting(u)
    BY <1>1, <1>4, <1>8, <1>13 DEF Posting, a
  <2>3. \A u \in AMThread : Posting(u)' => amCall'[u].pc # "idle"
    BY DEF Posting
  <2> QED BY <2>1, <2>2, <2>3
<1>15. Told'
  <2> SUFFICES ASSUME NEW b \in AMAlert \ amOverlap, NEW d \in AMChannels, amLast[b] = "resolved",
                      amRec'[b][d] = "sent", ~Waiting(b, d)'
               PROVE  amAt'[b][d] = "closed"
    BY <1>5 DEF Told
  <2>1. CASE b = a /\ d = c
    <3>1. amCall[t].status = "resolved"
      BY <2>1 DEF AMInv, CallsApart, a
    <3>2. s = "sent" /\ amAt'[b][d] = v
      BY <1>6, <2>1
    <3>3. ASSUME r # AMIdle, r.todo = todo PROVE FALSE
      <4>1. Posting(t)' /\ amCall'[t] = r /\ r.alert = a /\ c \in ToSet(r.todo)
        BY <1>3, <1>4, <1>8, <1>13, <3>3 DEF Posting
      <4> QED BY <2>1, <4>1 DEF Waiting
    <3> QED BY <3>1, <3>2, <3>3 DEF todo
  <2>2. CASE ~(b = a /\ d = c)
    <3>1. amRec[b][d] = "sent" /\ amAt'[b][d] = amAt[b][d]
      BY <1>6, <2>2
    <3>2. ASSUME NEW u \in AMThread, Posting(u), amCall[u].alert = b, d \in ToSet(amCall[u].todo)
          PROVE  FALSE
      <4>1. CASE u # t
        <5>1. amCall'[u] = amCall[u] /\ Posting(u)'
          BY <1>4, <3>2, <4>1 DEF Posting
        <5> QED BY <3>2, <5>1 DEF Waiting
      <4>2. CASE u = t
        <5>1. b = a /\ d # c /\ d \in ToSet(todo)
          BY <2>2, <3>2, <4>2 DEF a, todo
        <5>2. d \in ToSet(Tail(todo)) /\ Len(todo) # 1
          BY <1>3, <5>1
        <5>3. r # AMIdle /\ (r.todo = todo \/ r.todo = Tail(todo))
          BY <1>8, <5>2 DEF todo
        <5>4. Posting(t)' /\ amCall'[t] = r /\ r.alert = a
          BY <1>4, <1>8, <1>13, <5>3 DEF Posting
        <5> QED BY <5>1, <5>2, <5>3, <5>4 DEF Waiting
      <4> QED BY <4>1, <4>2
    <3>3. ~Waiting(b, d)
      BY <3>2 DEF Waiting
    <3> QED BY <3>1, <3>3 DEF AMInv, Told
  <2> QED BY <2>1, <2>2
<1> QED BY <1>7, <1>9, <1>10, <1>12, <1>14, <1>15 DEF AMInv


\* Silences and the clock are read by no part of the invariant.
LEMMA SetupStep ==
    ASSUME AMInv, UNCHANGED <<amStore, amRoutes, amOut, amThreads>>
    PROVE  AMInv'
<1>1. /\ amActive' = amActive /\ amHistory' = amHistory /\ amDisk' = amDisk /\ amLock' = amLock
      /\ amLast' = amLast /\ amRoutes' = amRoutes /\ amCalls' = amCalls /\ amOverlap' = amOverlap
      /\ amCall' = amCall /\ amRec' = amRec /\ amAt' = amAt
  BY DEF amStore, amOut, amThreads
<1>2. AMTypes' /\ StoreLocked' /\ AMStoreDurable' /\ CallsApart' /\ Told'
  <2>1. AMTypes'
    BY <1>1 DEF AMInv, AMTypes
  <2>2. StoreLocked'
    BY <1>1 DEF AMInv, StoreLocked, After
  <2>3. AMStoreDurable'
    BY <1>1 DEF AMInv, AMStoreDurable
  <2>4. CallsApart' /\ Told'
    BY <1>1 DEF AMInv, CallsApart, Told, Waiting, Posting
  <2> QED BY <2>1, <2>2, <2>3, <2>4
<1>3. RoutesKept'
  BY <1>1, SameRoutes DEF AMInv, RoutesKept, Posting
<1> QED BY <1>2, <1>3 DEF AMInv

\* Routes are added before the first call.
LEMMA RouteStepKeeps ==
    ASSUME AMInv, NEW r \in AMRoute, add_route(r)
    PROVE  AMInv'
<1>1. /\ amActive' = amActive /\ amHistory' = amHistory /\ amDisk' = amDisk /\ amLock' = amLock
      /\ amLast' = amLast /\ amCalls' = amCalls /\ amOverlap' = amOverlap
      /\ amCall' = amCall /\ amRec' = amRec /\ amAt' = amAt
      /\ amRoutes' = Append(amRoutes, r) /\ amCalls = 0
  BY DEF add_route, amStore, amOut, amThreads
<1>2. amRoutes' \in Seq(AMRoute)
  BY <1>1 DEF AMInv, AMTypes
<1>3. AMTypes' /\ StoreLocked' /\ AMStoreDurable' /\ CallsApart' /\ Told'
  <2>1. AMTypes'
    BY <1>1, <1>2 DEF AMInv, AMTypes
  <2>2. StoreLocked'
    BY <1>1 DEF AMInv, StoreLocked, After
  <2>3. AMStoreDurable'
    BY <1>1 DEF AMInv, AMStoreDurable
  <2>4. CallsApart' /\ Told'
    BY <1>1 DEF AMInv, CallsApart, Told, Waiting, Posting
  <2> QED BY <2>1, <2>2, <2>3, <2>4
<1>4. /\ \A t \in AMThread : amCall'[t].pc = "idle"
      /\ \A a \in AMAlert, c \in AMChannels : amRec'[a][c] = "none"
  BY <1>1 DEF AMInv, RoutesKept
<1>5. RoutesKept'
  BY <1>4 DEF RoutesKept, Posting
<1> QED BY <1>3, <1>5 DEF AMInv

\* After a restart no call is in progress and nothing is recorded.
LEMMA CrashStep ==
    ASSUME AMInv, AMCrash
    PROVE  AMInv'
<1>1. /\ amActive' = amDisk.active /\ amHistory' = amDisk.history /\ amDisk' = amDisk
      /\ amLock' = "free" /\ amLast' = amLast /\ amRoutes' = amRoutes /\ amCalls' = amCalls
      /\ amCall' = [t \in AMThread |-> AMIdle] /\ amAt' = amAt
      /\ amRec' = [a \in AMAlert |-> [c \in AMChannels |-> "none"]]
      /\ amOverlap' = amOverlap \cup {amCall[t].alert : t \in {u \in AMThread : amCall[u].pc # "idle"}}
  BY DEF AMCrash
<1>2. amDisk \in AMFile /\ amDisk.active \in SUBSET AMAlert /\ amDisk.history \in Seq(AMAlert \X AMStatus)
      /\ amDisk = [active |-> amDisk.active, history |-> amDisk.history]
  BY DEF AMInv, AMTypes, AMFile
<1>3. amOverlap' \in SUBSET AMAlert
  <2>1. \A t \in AMThread : amCall[t].pc # "idle" => amCall[t].alert \in AMAlert
    BY CallShape DEF AMInv, AMRecord
  <2>2. amOverlap \subseteq AMAlert
    BY DEF AMInv, AMTypes
  <2> QED BY <1>1, <2>1, <2>2
<1>4. \A t \in AMThread : amCall'[t] = AMIdle /\ amCall'[t].pc = "idle"
  BY <1>1 DEF AMIdle
<1>5. AMTypes'
  <2>1. amCall' \in [AMThread -> AMRecord \cup {AMIdle}]
    BY <1>1
  <2>2. amRec' \in [AMAlert -> [AMChannels -> {"none", "failed", "skipped", "pending", "sent"}]]
    BY <1>1
  <2> QED BY <1>1, <1>2, <1>3, <2>1, <2>2 DEF AMInv, AMTypes
<1>6. StoreLocked'
  <2>1. \A t \in AMThread : amLock' # t
    BY <1>1, AMAssumption
  <2> QED BY <1>1, <1>2, <1>4, <2>1 DEF StoreLocked
<1>7. AMStoreDurable'
  BY <1>1 DEF AMInv, AMStoreDurable
<1>8. \A a \in AMAlert, c \in AMChannels : amRec'[a][c] = "none"
  BY <1>1
<1>9. RoutesKept' /\ CallsApart' /\ Told'
  <2>1. \A t \in AMThread : ~Posting(t)'
    BY <1>4 DEF Posting
  <2> QED BY <1>4, <1>8, <2>1 DEF RoutesKept, CallsApart, Told
<1> QED BY <1>5, <1>6, <1>7, <1>9 DEF AMInv

\* A call begins.
LEMMA BeginStep ==
    ASSUME AMInv, NEW t \in AMThread, NEW a \in AMAlert, NEW pc \in {"check", "upsert"},
           NEW st \in AMStatus, amCall[t].pc = "idle", Begin(t, a, pc, st),
           UNCHANGED <<amStore, amSetup, amOut>>
    PROVE  AMInv'
<1> DEFINE r == [pc |-> pc, alert |-> a, status |-> st, todo |-> <<>>, attempt |-> 0, data |-> amDisk]
<1>1. /\ amActive' = amActive /\ amHistory' = amHistory /\ amDisk' = amDisk /\ amLock' = amLock
      /\ amLast' = amLast /\ amRoutes' = amRoutes /\ amRec' = amRec /\ amAt' = amAt
      /\ amCalls' = amCalls + 1 /\ amCall' = [amCall EXCEPT ![t] = r]
      /\ amOverlap' = IF \E u \in AMThread \ {t} : amCall[u].pc # "idle" /\ amCall[u].alert = a
                      THEN amOverlap \cup {a} ELSE amOverlap
  BY DEF Begin, amStore, amSetup, amOut
<1>2. r \in AMRecord /\ r.pc = pc /\ r.alert = a
  BY DEF AMRecord, AMInv, AMTypes
<1> HIDE DEF r
<1>3. amCalls' \in Nat /\ amCalls' # 0 /\ amOverlap \subseteq amOverlap' /\ amOverlap' \in SUBSET AMAlert
  BY <1>1 DEF AMInv, AMTypes
<1>4. \/ r.alert \in amOverlap'
      \/ \A u \in AMThread \ {t} : amCall[u].pc # "idle" => amCall[u].alert # r.alert
  BY <1>1, <1>2
<1>5. RoutesKept' /\ CallsApart' /\ Told'
  BY <1>1, <1>2, <1>3, <1>4, QuietMove DEF Posting
<1>6. AMTypes'
  <2>1. amCall' \in [AMThread -> AMRecord \cup {AMIdle}]
    BY <1>1, <1>2 DEF AMInv, AMTypes
  <2> QED BY <1>1, <1>3, <2>1 DEF AMInv, AMTypes
<1>7. \A u \in AMThread : /\ amCall'[u].pc = "save" <=> amCall[u].pc = "save"
                          /\ amCall[u].pc = "save" => amCall'[u] = amCall[u]
  BY <1>1, <1>2 DEF AMInv, AMTypes
<1>8. StoreLocked' /\ AMStoreDurable'
  <2>1. StoreLocked'
    BY <1>1, <1>7 DEF AMInv, StoreLocked, After
  <2>2. AMStoreDurable'
    BY <1>1 DEF AMInv, AMStoreDurable
  <2> QED BY <2>1, <2>2
<1> QED BY <1>5, <1>6, <1>8 DEF AMInv

\* The silence check.
LEMMA CheckStep ==
    ASSUME AMInv, NEW t \in AMThread, CheckSilenced(t)
    PROVE  AMInv'
<1> DEFINE old == amCall[t]
           st == IF is_silenced(old.alert) THEN "silenced" ELSE old.status
           r == [old EXCEPT !.pc = "upsert", !.status = st]
<1>1. old \in AMRecord /\ old.pc = "check"
  BY CallShape DEF AMInv, CheckSilenced
<1>2. /\ amActive' = amActive /\ amHistory' = amHistory /\ amDisk' = amDisk /\ amLock' = amLock
      /\ amLast' = amLast /\ amRoutes' = amRoutes /\ amRec' = amRec /\ amAt' = amAt
      /\ amCalls' = amCalls /\ amOverlap' = amOverlap
  BY DEF CheckSilenced, amStore, amSetup, amOut
<1>3. amCall' = [amCall EXCEPT ![t] = r]
  <2>1. amCall' = [amCall EXCEPT ![t].pc = "upsert",
                                 ![t].status = IF is_silenced(amCall[t].alert) THEN "silenced" ELSE @]
    BY DEF CheckSilenced
  <2> QED BY <1>1, <2>1 DEF AMInv, AMTypes, AMRecord
<1>4. st \in AMStatus
  BY <1>1 DEF AMRecord, AMStatus
<1> HIDE DEF st
<1>5. r \in AMRecord /\ r.pc = "upsert" /\ r.alert = old.alert
  BY <1>1, <1>4 DEF AMRecord
<1> HIDE DEF r
<1>6. amCalls # 0
  BY <1>1 DEF AMInv, RoutesKept
<1>7. RoutesKept' /\ CallsApart' /\ Told'
  BY <1>1, <1>2, <1>3, <1>5, <1>6, QuietMove DEF Posting
<1>8. AMTypes'
  <2>1. amCall' \in [AMThread -> AMRecord \cup {AMIdle}]
    BY <1>3, <1>5 DEF AMInv, AMTypes
  <2> QED BY <1>2, <2>1 DEF AMInv, AMTypes
<1>9. \A u \in AMThread : /\ amCall'[u].pc = "save" <=> amCall[u].pc = "save"
                          /\ amCall[u].pc = "save" => amCall'[u] = amCall[u]
  BY <1>1, <1>3, <1>5 DEF AMInv, AMTypes
<1>10. StoreLocked' /\ AMStoreDurable'
  <2>1. StoreLocked'
    BY <1>2, <1>9 DEF AMInv, StoreLocked, After
  <2>2. AMStoreDurable'
    BY <1>2 DEF AMInv, AMStoreDurable
  <2> QED BY <2>1, <2>2
<1> QED BY <1>7, <1>8, <1>10 DEF AMInv

\* The upsert, up to the temporary file.
LEMMA UpsertStep ==
    ASSUME AMInv, NEW t \in AMThread, upsert(t)
    PROVE  AMInv'
<1> DEFINE old == amCall[t]
           file == [active |-> amActive', history |-> amHistory']
           r == [old EXCEPT !.pc = "save", !.data = file]
<1>1. old \in AMRecord /\ old.pc = "upsert" /\ amLock = "free"
  BY CallShape DEF AMInv, upsert, UpsertBody
<1>2. /\ amDisk' = amDisk /\ amLock' = t
      /\ amLast' = amLast /\ amRoutes' = amRoutes /\ amRec' = amRec /\ amAt' = amAt
      /\ amCalls' = amCalls /\ amOverlap' = amOverlap
  BY DEF upsert, UpsertBody, amSetup, amOut
<1>3. amCall' = [amCall EXCEPT ![t] = r]
  <2>1. amCall' = [amCall EXCEPT ![t].pc = "save",
                                 ![t].data = [active |-> amActive', history |-> amHistory']]
    BY DEF upsert, UpsertBody
  <2> QED BY <1>1, <2>1 DEF AMInv, AMTypes, AMRecord
<1>4. old.alert \in AMAlert /\ old.status \in AMStatus
  BY <1>1 DEF AMRecord
<1>5. amDisk = [active |-> amActive, history |-> amHistory]
  BY <1>1 DEF AMInv, StoreLocked
<1>6. file = After(amDisk, old.alert, old.status)
  <2>1. IF old.status \in {"resolved", "silenced"}
        THEN amActive' = amActive \ {old.alert}
             /\ amHistory' = Append(amHistory, <<old.alert, old.status>>)
        ELSE amActive' = amActive \cup {old.alert} /\ amHistory' = amHistory
    BY DEF upsert, UpsertBody
  <2>2. old.status \in {"resolved", "silenced"} <=> old.status # "firing"
    BY <1>4 DEF AMStatus
  <2> QED BY <1>5, <2>1, <2>2 DEF After
<1>7. file \in AMFile /\ amActive' \in SUBSET AMAlert /\ amHistory' \in Seq(AMAlert \X AMStatus)
  <2>1. amActive \in SUBSET AMAlert /\ amHistory \in Seq(AMAlert \X AMStatus)
    BY DEF AMInv, AMTypes
  <2>2. <<old.alert, old.status>> \in AMAlert \X AMStatus
    BY <1>4
  <2>3. Append(amHistory, <<old.alert, old.status>>) \in Seq(AMAlert \X AMStatus)
    BY <2>1, <2>2
  <2>4. amActive' \in SUBSET AMAlert /\ amHistory' \in Seq(AMAlert \X AMStatus)
    BY <1>4, <2>1, <2>3 DEF upsert, UpsertBody
  <2> QED BY <2>4 DEF AMFile
<1> HIDE DEF file
<1>8. r \in AMRecord /\ r.pc = "save" /\ r.alert = old.alert /\ r.status = old.status /\ r.data = file
  BY <1>1, <1>7 DEF AMRecord
<1> HIDE DEF r
<1>9. amCalls # 0
  BY <1>1 DEF AMInv, RoutesKept
<1>10. RoutesKept' /\ CallsApart' /\ Told'
  BY <1>1, <1>2, <1>3, <1>8, <1>9, QuietMove DEF Posting
<1>11. AMTypes'
  <2>1. amCall' \in [AMThread -> AMRecord \cup {AMIdle}]
    BY <1>3, <1>8 DEF AMInv, AMTypes
  <2> QED BY <1>2, <1>7, <2>1 DEF AMInv, AMTypes
<1>12. \A u \in AMThread : amCall'[u] = IF u = t THEN r ELSE amCall[u]
  BY <1>3 DEF AMInv, AMTypes
<1>13. \A u \in AMThread : amCall[u].pc # "save"
  BY <1>1, AMAssumption DEF AMInv, StoreLocked
<1>14. StoreLocked'
  <2>1. t # "free"
    BY AMAssumption
  <2>2. \A u \in AMThread : amCall'[u].pc = "save" <=> amLock' = u
    BY <1>2, <1>8, <1>12, <1>13
  <2>3. \A u \in AMThread : amCall'[u].pc = "save" =>
          /\ amCall'[u].data = file
          /\ amCall'[u].data = After(amDisk', amCall'[u].alert, amCall'[u].status)
    BY <1>2, <1>6, <1>8, <1>12, <1>13
  <2>4. file = [active |-> amActive', history |-> amHistory']
    BY DEF file
  <2> QED BY <1>2, <2>1, <2>2, <2>3, <2>4 DEF StoreLocked, After
<1>15. AMStoreDurable'
  BY <1>2 DEF AMInv, AMStoreDurable
<1> QED BY <1>10, <1>11, <1>14, <1>15 DEF AMInv


\* The file is replaced, the lock released and the channels found.
LEMMA ReplaceStep ==
    ASSUME AMInv, NEW t \in AMThread, Replace(t)
    PROVE  AMInv'
<1> DEFINE old == amCall[t]
           a == old.alert
           st == old.status
           found == resolve_channels(a)
           channels == IF st = "silenced" THEN <<>> ELSE found
           r == IF channels = <<>> THEN AMIdle ELSE [old EXCEPT !.pc = "deliver", !.todo = channels]
<1>1. old \in AMRecord /\ old.pc = "save" /\ amLock = t
  BY CallShape DEF AMInv, Replace, StoreLocked
<1>2. /\ amActive' = amActive /\ amHistory' = amHistory /\ amDisk' = old.data /\ amLock' = "free"
      /\ amRoutes' = amRoutes /\ amRec' = amRec /\ amAt' = amAt /\ amCalls' = amCalls
      /\ amOverlap' = amOverlap /\ amLast' = [amLast EXCEPT ![a] = st]
  BY DEF Replace, amSetup, amOut
<1>3. amCall' = [amCall EXCEPT ![t] = r]
  BY DEF Replace
<1>4. a \in AMAlert /\ st \in AMStatus /\ old.data \in AMFile
  BY <1>1 DEF AMRecord
<1>5. found \in Seq(AMChannels) /\ channels \in Seq(AMChannels)
  <2>1. amRoutes \in Seq(AMRoute)
    BY DEF AMInv, AMTypes
  <2>2. found \in Seq(AMChannels)
    BY <2>1, Routed
  <2> HIDE DEF found
  <2> QED BY <2>2
<1>6. /\ r \in AMRecord \cup {AMIdle} /\ r.pc \in {"idle", "deliver"}
      /\ r.pc = "deliver" <=> channels # <<>>
      /\ r.pc = "deliver" => r.alert = a /\ r.status = st /\ r.todo = channels
  <2> HIDE DEF channels, found
  <2>1. CASE channels = <<>>
    BY <2>1 DEF AMIdle
  <2>2. CASE channels # <<>>
    BY <1>1, <1>5, <2>2 DEF AMRecord
  <2> QED BY <2>1, <2>2
<1>7. \A u \in AMThread : amCall'[u] = IF u = t THEN r ELSE amCall[u]
  BY <1>3 DEF AMInv, AMTypes
<1>8. channels # <<>> => channels = found /\ st # "silenced"
  OBVIOUS
<1>9. st = "resolved" => channels = found
  OBVIOUS
<1> HIDE DEF r, channels
<1>10. AMTypes'
  <2>1. amCall' \in [AMThread -> AMRecord \cup {AMIdle}]
    BY <1>3, <1>6 DEF AMInv, AMTypes
  <2>2. amLast' \in [AMAlert -> AMStatus \cup {"none"}]
    BY <1>2, <1>4 DEF AMInv, AMTypes
  <2> QED BY <1>2, <1>4, <2>1, <2>2 DEF AMInv, AMTypes
<1>11. /\ old.data = [active |-> amActive, history |-> amHistory]
       /\ old.data = After(amDisk, a, st)
  BY <1>1 DEF AMInv, StoreLocked
<1>12. StoreLocked'
  <2>1. \A u \in AMThread : amCall'[u].pc # "save" /\ amLock' # u
    BY <1>1, <1>2, <1>6, <1>7, AMAssumption DEF AMInv, StoreLocked
  <2> QED BY <1>2, <1>11, <2>1 DEF StoreLocked
<1>13. AMStoreDurable'
  <2> SUFFICES ASSUME NEW b \in AMAlert, amLast'[b] # "none"
               PROVE  /\ (b \in amDisk'.active) = (amLast'[b] = "firing")
                      /\ amLast'[b] # "firing" =>
                           \E i \in DOMAIN amDisk'.history : amDisk'.history[i] = <<b, amLast'[b]>>
    BY DEF AMStoreDurable
  <2>1. /\ amDisk'.active = IF st = "firing" THEN amDisk.active \cup {a} ELSE amDisk.active \ {a}
        /\ amDisk'.history = IF st = "firing" THEN amDisk.history
                             ELSE Append(amDisk.history, <<a, st>>)
    BY <1>2, <1>11 DEF After
  <2>2. amLast'[b] = IF b = a THEN st ELSE amLast[b]
    BY <1>2 DEF AMInv, AMTypes
  <2>3. amDisk.history \in Seq(AMAlert \X AMStatus)
    BY DEF AMInv, AMTypes, AMFile
  <2> DEFINE h == amDisk.history
             e == <<a, st>>
  <2>4. /\ DOMAIN h = 1 .. Len(h) /\ Len(h) \in Nat
        /\ DOMAIN Append(h, e) = 1 .. Len(h) + 1
        /\ \A i \in 1 .. Len(h) : Append(h, e)[i] = h[i]
        /\ Append(h, e)[Len(h) + 1] = e
    <3>1. e \in AMAlert \X AMStatus
      BY <1>4
    <3> HIDE DEF e
    <3> QED BY <2>3, <3>1
  <2>5. \A i \in 1 .. Len(h) : i \in 1 .. Len(h) + 1
    BY <2>4
  <2>6. Len(h) + 1 \in 1 .. Len(h) + 1
    BY <2>4
  <2>7. CASE b = a
    <3>1. (b \in amDisk'.active) <=> (st = "firing")
      BY <2>1, <2>7
    <3>2. st # "firing" => \E i \in DOMAIN amDisk'.history : amDisk'.history[i] = e
      BY <2>1, <2>4, <2>6
    <3> QED BY <2>2, <2>7, <3>1, <3>2
  <2>8. CASE b # a
    <3>1. /\ (b \in amDisk.active) = (amLast[b] = "firing")
          /\ amLast[b] # "firing" => \E i \in DOMAIN h : h[i] = <<b, amLast[b]>>
      BY <2>2, <2>8 DEF AMInv, AMStoreDurable
    <3>2. b \in amDisk'.active <=> b \in amDisk.active
      BY <2>1, <2>8
    <3>3. amLast[b] # "firing" => \E i \in DOMAIN amDisk'.history :
                                     amDisk'.history[i] = <<b, amLast[b]>>
      <4> SUFFICES ASSUME amLast[b] # "firing"
                   PROVE  \E i \in DOMAIN amDisk'.history : amDisk'.history[i] = <<b, amLast[b]>>
        OBVIOUS
      <4> DEFINE x == <<b, amLast[b]>>
      <4>1. PICK i \in DOMAIN h : h[i] = x
        BY <3>1
      <4> HIDE DEF h, e, x
      <4>2. amDisk'.history = IF st = "firing" THEN h ELSE Append(h, e)
        BY <2>1 DEF h, e
      <4>3. CASE st = "firing"
        BY <4>1, <4>2, <4>3 DEF x
      <4>4. CASE st # "firing"
        <5>1. i \in DOMAIN Append(h, e) /\ Append(h, e)[i] = x
          BY <2>4, <2>5, <4>1
        <5> QED BY <4>2, <4>4, <5>1 DEF x
      <4> QED BY <4>3, <4>4
    <3> QED BY <2>2, <2>8, <3>1, <3>2, <3>3
  <2> QED BY <2>7, <2>8
<1>14. /\ \A b : resolve_channels(b)' = resolve_channels(b)
       /\ \A u : resolve_channels(amCall[u].alert)' = resolve_channels(amCall'[u].alert)
  BY <1>2, SameRoutes
<1>15. \A u \in AMThread : Posting(u)' => \/ u # t /\ amCall'[u] = amCall[u] /\ Posting(u)
                                          \/ u = t /\ amCall'[u] = r /\ r.pc = "deliver"
  BY <1>6, <1>7 DEF Posting
<1>16. RoutesKept'
  <2>1. amCalls' # 0
    BY <1>1, <1>2 DEF AMInv, RoutesKept
  <2>2. \A b \in AMAlert, d \in AMChannels : amRec'[b][d] # "none" =>
           d \in ToSet(resolve_channels(b)')
    BY <1>2, <1>14 DEF AMInv, RoutesKept
  <2>3. ASSUME NEW u \in AMThread, Posting(u)'
        PROVE  /\ amCall'[u].todo # <<>>
               /\ ToSet(amCall'[u].todo) \subseteq ToSet(resolve_channels(amCall'[u].alert))
    <3>1. CASE u # t
      BY <1>15, <2>3, <3>1 DEF AMInv, RoutesKept
    <3>2. CASE u = t
      <4>1. amCall'[u] = r /\ r.alert = a /\ r.todo = channels /\ channels # <<>> /\ channels = found
        BY <1>6, <1>8, <1>15, <2>3, <3>2
      <4> QED BY <4>1 DEF found
    <3> QED BY <3>1, <3>2
  <2> QED BY <1>14, <2>1, <2>2, <2>3 DEF RoutesKept
<1>17. CallsApart'
  <2> SUFFICES ASSUME NEW b \in AMAlert \ amOverlap
               PROVE  /\ \A u, w \in AMThread : u # w /\ amCall'[u].pc # "idle" /\ amCall'[u].alert = b
                            /\ amCall'[w].pc # "idle" => amCall'[w].alert # b
                      /\ \A u \in AMThread : Posting(u)' /\ amCall'[u].alert = b
                            => amCall'[u].status = amLast'[b]
    BY <1>2 DEF CallsApart
  <2>1. /\ \A u, w \in AMThread : u # w /\ amCall[u].pc # "idle" /\ amCall[u].alert = b
              /\ amCall[w].pc # "idle" => amCall[w].alert # b
        /\ \A u \in AMThread : Posting(u) /\ amCall[u].alert = b => amCall[u].status = amLast[b]
    BY DEF AMInv, CallsApart
  <2>2. \A u \in AMThread : amCall'[u].pc # "idle" =>
             amCall[u].pc # "idle" /\ amCall'[u].alert = amCall[u].alert
    BY <1>1, <1>6, <1>7
  <2>3. \A u, w \in AMThread : u # w /\ amCall'[u].pc # "idle" /\ amCall'[u].alert = b
            /\ amCall'[w].pc # "idle" => amCall'[w].alert # b
    BY <2>1, <2>2
  <2>4. ASSUME NEW u \in AMThread, Posting(u)', amCall'[u].alert = b
        PROVE  amCall'[u].status = amLast'[b]
    <3>1. amLast'[b] = IF b = a THEN st ELSE amLast[b]
      BY <1>2 DEF AMInv, AMTypes
    <3>2. CASE u = t
      <4>1. amCall'[u] = r /\ r.alert = a /\ r.status = st
        BY <1>6, <1>15, <2>4, <3>2
      <4> QED BY <2>4, <3>1, <4>1
    <3>3. CASE u # t
      <4>1. amCall'[u] = amCall[u] /\ Posting(u) /\ amCall[u].pc # "idle" /\ amCall[u].alert = b
        BY <1>15, <2>4, <3>3 DEF Posting
      <4>2. b # a
        BY <1>1, <2>1, <3>3, <4>1
      <4> QED BY <2>1, <3>1, <4>1, <4>2
    <3> QED BY <3>2, <3>3
  <2> QED BY <2>3, <2>4
<1>18. Told'
  <2> SUFFICES ASSUME NEW b \in AMAlert \ amOverlap, NEW d \in AMChannels, amLast'[b] = "resolved",
                      amRec[b][d] = "sent", ~Waiting(b, d)'
               PROVE  amAt[b][d] = "closed"
    BY <1>2 DEF Told
  <2>1. amLast'[b] = IF b = a THEN st ELSE amLast[b]
    BY <1>2 DEF AMInv, AMTypes
  <2>2. CASE b = a
    <3>1. st = "resolved" /\ channels = found
      BY <1>9, <2>1, <2>2
    <3>2. d \in ToSet(found)
      BY <2>2 DEF AMInv, RoutesKept, found
    <3>3. channels # <<>>
      <4>1. ASSUME found = <<>> PROVE FALSE
        BY <3>2, <4>1 DEF ToSet
      <4> QED BY <3>1, <4>1
    <3>4. Posting(t)' /\ amCall'[t].alert = b /\ d \in ToSet(amCall'[t].todo)
      <4>1. r.pc = "deliver" /\ r.alert = a /\ r.todo = found /\ amCall'[t] = r
        BY <1>6, <1>7, <3>1, <3>3
      <4> QED BY <2>2, <3>2, <4>1 DEF Posting
    <3> QED BY <3>4 DEF Waiting
  <2>3. CASE b # a
    <3>1. ASSUME NEW u \in AMThread, Posting(u), amCall[u].alert = b, d \in ToSet(amCall[u].todo)
          PROVE  FALSE
      <4>1. u # t
        BY <2>3, <3>1
      <4>2. amCall'[u] = amCall[u] /\ Posting(u)'
        BY <1>7, <3>1, <4>1 DEF Posting
      <4> QED BY <3>1, <4>2 DEF Waiting
    <3>2. ~Waiting(b, d)
      BY <3>1 DEF Waiting
    <3> QED BY <2>1, <2>3, <3>2 DEF AMInv, Told
  <2> QED BY <2>2, <2>3
<1> QED BY <1>10, <1>12, <1>13, <1>16, <1>17, <1>18 DEF AMInv

\* The record of the delivery at hand.
LEMMA Delivering ==
    ASSUME AMInv, NEW t \in AMThread, Posting(t)
    PROVE  LET old == amCall[t]
               c == Head(old.todo)
           IN  /\ old \in AMRecord /\ old.todo # <<>> /\ c \in AMChannels
               /\ Len(old.todo) # 1 => Tail(old.todo) \in Seq(AMChannels)
               /\ amRec[old.alert][c] \in {"none", "failed", "skipped", "pending", "sent"}
               /\ amAt[old.alert][c] \in {"none", "open", "closed"}
               /\ amRec = [amRec EXCEPT ![old.alert][c] = amRec[old.alert][c]]
               /\ amAt = [amAt EXCEPT ![old.alert][c] = amAt[old.alert][c]]
<1> DEFINE old == amCall[t]
           c == Head(old.todo)
<1>1. old \in AMRecord /\ old.todo # <<>>
  BY CallShape DEF AMInv, Posting, RoutesKept
<1>2. old.todo \in Seq(AMChannels) /\ old.alert \in AMAlert
  BY <1>1 DEF AMRecord
<1>3. c \in AMChannels /\ Tail(old.todo) \in Seq(AMChannels)
  BY <1>1, <1>2, Rest
<1> HIDE DEF c
<1>4. /\ amRec \in [AMAlert -> [AMChannels -> {"none", "failed", "skipped", "pending", "sent"}]]
      /\ amAt \in [AMAlert -> [AMChannels -> {"none", "open", "closed"}]]
  BY DEF AMInv, AMTypes
<1>5. /\ amRec = [amRec EXCEPT ![old.alert][c] = amRec[old.alert][c]]
      /\ amAt = [amAt EXCEPT ![old.alert][c] = amAt[old.alert][c]]
  BY <1>2, <1>3, <1>4
<1>6. /\ amRec[old.alert][c] \in {"none", "failed", "skipped", "pending", "sent"}
      /\ amAt[old.alert][c] \in {"none", "open", "closed"}
  BY <1>2, <1>3, <1>4
<1> QED BY <1>1, <1>3, <1>5, <1>6 DEF c

\* What NextChannel makes of the call.
LEMMA NextMove ==
    ASSUME AMInv, NEW t \in AMThread, Posting(t), NextChannel(t)
    PROVE  \E r : /\ amCall' = [amCall EXCEPT ![t] = r]
                  /\ \/ r = AMIdle /\ Len(amCall[t].todo) = 1
                     \/ /\ r \in AMRecord /\ r.pc \in {"deliver", "post"}
                        /\ r.alert = amCall[t].alert /\ r.status = amCall[t].status
                        /\ r.todo = Tail(amCall[t].todo) /\ Len(amCall[t].todo) # 1
<1> DEFINE old == amCall[t]
<1>1. old \in AMRecord /\ (Len(old.todo) # 1 => Tail(old.todo) \in Seq(AMChannels))
  BY Delivering
<1>2. CASE Len(old.todo) = 1
  BY <1>2 DEF NextChannel
<1>3. CASE Len(old.todo) # 1
  <2> DEFINE rest == Tail(old.todo)
             r == [old EXCEPT !.pc = "deliver", !.todo = rest, !.attempt = 0]
             new == IF Len(old.todo) = 1 THEN AMIdle
                    ELSE [old EXCEPT !.pc = "deliver", !.todo = Tail(old.todo), !.attempt = 0]
  <2>1. amCall' = [amCall EXCEPT ![t] = r]
    <3>1. amCall' = [amCall EXCEPT ![t] = new]
      BY DEF NextChannel
    <3>2. new = r
      BY <1>1, <1>3 DEF AMRecord
    <3> QED BY <3>1, <3>2
  <2> HIDE DEF rest
  <2>2. /\ r \in AMRecord /\ r.pc = "deliver" /\ r.alert = old.alert /\ r.status = old.status
        /\ r.todo = rest
    BY <1>1, <1>3 DEF AMRecord, rest
  <2> HIDE DEF r
  <2> QED BY <1>3, <2>1, <2>2 DEF rest
<1> QED BY <1>2, <1>3

\* The pending record and the channels that are passed over.
LEMMA DeliverStep ==
    ASSUME AMInv, NEW t \in AMThread, deliver(t)
    PROVE  AMInv'
<1> DEFINE old == amCall[t]
           c == Head(old.todo)
           v == amAt[old.alert][c]
<1>1. old.pc = "deliver" /\ Posting(t)
  BY DEF deliver, Posting
<1>2. /\ old \in AMRecord /\ v \in {"none", "open", "closed"}
      /\ amAt = [amAt EXCEPT ![old.alert][c] = v]
  BY <1>1, Delivering
<1>3. UNCHANGED <<amStore, amRoutes, amCalls, amOverlap>> /\ amAt' = amAt
  BY DEF deliver, amSetup
<1>4. amAt' = [amAt EXCEPT ![old.alert][c] = v]
  BY <1>2, <1>3
<1>5. ASSUME NEW s \in {"failed", "skipped"}, _store(t, s), NextChannel(t)
      PROVE  AMInv'
  <2>1. amRec' = [amRec EXCEPT ![old.alert][c] = s]
    BY <1>5 DEF _store
  <2>2. PICK r : /\ amCall' = [amCall EXCEPT ![t] = r]
                 /\ \/ r = AMIdle /\ Len(amCall[t].todo) = 1
                    \/ /\ r \in AMRecord /\ r.pc \in {"deliver", "post"}
                       /\ r.alert = amCall[t].alert /\ r.status = amCall[t].status
                       /\ r.todo = Tail(amCall[t].todo) /\ Len(amCall[t].todo) # 1
    BY <1>1, <1>5, NextMove
  <2> HIDE DEF v
  <2> QED BY <1>1, <1>2, <1>3, <1>4, <2>1, <2>2, PostMove
<1>6. ASSUME _store(t, "pending"), amCall' = [amCall EXCEPT ![t].pc = "post", ![t].attempt = 1]
      PROVE  AMInv'
  <2> DEFINE r == [old EXCEPT !.pc = "post", !.attempt = 1]
  <2>1. amRec' = [amRec EXCEPT ![old.alert][c] = "pending"]
    BY <1>6 DEF _store
  <2>2. amCall' = [amCall EXCEPT ![t] = r]
    BY <1>2, <1>6 DEF AMInv, AMTypes, AMRecord
  <2>3. /\ r \in AMRecord /\ r.pc = "post" /\ r.alert = old.alert /\ r.status = old.status
        /\ r.todo = old.todo
    BY <1>2 DEF AMRecord
  <2> HIDE DEF v, r
  <2> QED BY <1>1, <1>2, <1>3, <1>4, <2>1, <2>2, <2>3, PostMove
<1> QED BY <1>5, <1>6 DEF deliver

\* An attempt, whether it reaches the receiver and whether that is known.
LEMMA AttemptStep ==
    ASSUME AMInv, NEW t \in AMThread, NEW reached \in BOOLEAN, NEW answered \in BOOLEAN,
           Attempt(t, reached, answered)
    PROVE  AMInv'
<1> DEFINE old == amCall[t]
           c == Head(old.todo)
           now == IF old.status = "resolved" THEN "closed" ELSE "open"
           v == IF reached THEN now ELSE amAt[old.alert][c]
           s0 == amRec[old.alert][c]
<1>1. old.pc = "post" /\ Posting(t)
  BY DEF Attempt, Posting
<1>2. /\ old \in AMRecord /\ v \in {"none", "open", "closed"}
      /\ s0 \in {"none", "failed", "skipped", "pending", "sent"}
      /\ amAt = [amAt EXCEPT ![old.alert][c] = amAt[old.alert][c]]
      /\ amRec = [amRec EXCEPT ![old.alert][c] = s0]
  BY <1>1, Delivering
<1>3. UNCHANGED <<amStore, amRoutes, amCalls, amOverlap>>
  BY DEF Attempt, amSetup
<1>4. amAt' = [amAt EXCEPT ![old.alert][c] = v]
  <2>1. amAt' = IF ~reached THEN amAt ELSE [amAt EXCEPT ![old.alert][c] = now]
    BY DEF Attempt, _deliver_to_channel
  <2>2. CASE reached
    BY <2>1, <2>2
  <2>3. CASE ~reached
    BY <1>2, <2>1, <2>3
  <2> QED BY <2>2, <2>3
<1>5. reached => old.status # "resolved" \/ v = "closed"
  OBVIOUS
<1> HIDE DEF v, s0
<1>6. ASSUME NEW s \in {"failed", "sent"}, _store(t, s), NextChannel(t), s = "sent" => reached
      PROVE  AMInv'
  <2>1. amRec' = [amRec EXCEPT ![old.alert][c] = s]
    BY <1>6 DEF _store
  <2>2. PICK r : /\ amCall' = [amCall EXCEPT ![t] = r]
                 /\ \/ r = AMIdle /\ Len(amCall[t].todo) = 1
                    \/ /\ r \in AMRecord /\ r.pc \in {"deliver", "post"}
                       /\ r.alert = amCall[t].alert /\ r.status = amCall[t].status
                       /\ r.todo = Tail(amCall[t].todo) /\ Len(amCall[t].todo) # 1
    BY <1>1, <1>6, NextMove
  <2>3. s # "sent" \/ old.status # "resolved" \/ v = "closed"
    BY <1>5, <1>6
  <2> QED BY <1>1, <1>2, <1>3, <1>4, <2>1, <2>2, <2>3, PostMove
<1>7. ASSUME amCall' = [amCall EXCEPT ![t].attempt = @ + 1], amRec' = amRec
      PROVE  AMInv'
  <2> DEFINE r == [old EXCEPT !.attempt = @ + 1]
  <2>1. amRec' = [amRec EXCEPT ![old.alert][c] = s0]
    BY <1>2, <1>7
  <2>2. amCall' = [amCall EXCEPT ![t] = r]
    BY <1>2, <1>7 DEF AMInv, AMTypes, AMRecord
  <2>3. /\ r \in AMRecord /\ r.pc = "post" /\ r.alert = old.alert /\ r.status = old.status
        /\ r.todo = old.todo /\ r # AMIdle
    BY <1>1, <1>2 DEF AMRecord, AMIdle
  <2> HIDE DEF r
  <2> QED BY <1>1, <1>2, <1>3, <1>4, <2>1, <2>2, <2>3, PostMove
<1> QED BY <1>6, <1>7 DEF Attempt

\* However calls of ingest and resolve, their lock regions and posts, routes,
\* silences, failing receivers and restarts interleave: the file follows the
\* last completed upsert, no resolved incident stays open behind a record that
\* says "sent" (unless two calls overlapped on the alert), and
\* resolve_channels takes the routes in order and each channel once.
THEOREM AlertsKept == AMSpecification => []AMSafe
<1>1. AMInit => AMInv
  <2> SUFFICES ASSUME AMInit PROVE AMInv
    OBVIOUS
  <2>1. /\ amActive = {} /\ amHistory = <<>> /\ amDisk = [active |-> {}, history |-> <<>>]
        /\ amLock = "free" /\ amRoutes = <<>> /\ amCalls = 0 /\ amOverlap = {}
        /\ amRec = [a \in AMAlert |-> [c \in AMChannels |-> "none"]]
        /\ amAt = [a \in AMAlert |-> [c \in AMChannels |-> "none"]]
        /\ amCall = [t \in AMThread |-> AMIdle] /\ amLast = [a \in AMAlert |-> "none"]
    BY DEF AMInit
  <2>2. \A t \in AMThread : amCall[t].pc = "idle" /\ ~Posting(t)
    BY <2>1 DEF AMIdle, Posting
  <2>3. AMTypes
    <3>1. amDisk \in AMFile
      BY <2>1 DEF AMFile
    <3> QED BY <2>1, <3>1 DEF AMTypes
  <2>4. StoreLocked
    <3>1. \A t \in AMThread : amLock # t
      BY <2>1, AMAssumption
    <3> QED BY <2>1, <2>2, <3>1 DEF StoreLocked
  <2>5. AMStoreDurable /\ RoutesKept /\ CallsApart /\ Told
    BY <2>1, <2>2 DEF AMStoreDurable, RoutesKept, CallsApart, Told
  <2> QED BY <2>3, <2>4, <2>5 DEF AMInv
<1>2. AMInv /\ [AMNext]_amVars => AMInv'
  <2> SUFFICES ASSUME AMInv, [AMNext]_amVars PROVE AMInv'
    OBVIOUS
  <2>1. ASSUME UNCHANGED amVars PROVE AMInv'
    BY <2>1, SetupStep DEF amVars, amSetup
  <2>2. ASSUME NEW x \in AMSilence, add_silence(x) \/ remove_silence(x) PROVE AMInv'
    BY <2>2, SetupStep DEF add_silence, remove_silence
  <2>3. ASSUME AMTick PROVE AMInv'
    BY <2>3, SetupStep DEF AMTick
  <2>4. ASSUME NEW t \in AMThread, NEW a \in AMAlert, NEW st \in {"firing", "resolved"},
               ingest(t, a, st)
        PROVE  AMInv'
    <3>1. st \in AMStatus
      BY DEF AMStatus
    <3> QED BY <2>4, <3>1, BeginStep DEF ingest
  <2>5. ASSUME NEW t \in AMThread, NEW a \in AMAlert, resolve(t, a) PROVE AMInv'
    <3>1. "resolved" \in AMStatus
      BY DEF AMStatus
    <3> QED BY <2>5, <3>1, BeginStep DEF resolve
  <2>6. ASSUME NEW t \in AMThread, AMStep(t) PROVE AMInv'
    BY <2>6, CheckStep, UpsertStep, ReplaceStep, DeliverStep, AttemptStep DEF AMStep
  <2> QED BY <2>1, <2>2, <2>3, <2>4, <2>5, <2>6, RouteStepKeeps, CrashStep DEF AMNext
<1>3. AMInv => AMSafe
  <2> SUFFICES ASSUME AMInv PROVE AMSafe
    OBVIOUS
  <2>1. AMFirstMatchWins
    BY Routed DEF AMInv, AMTypes
  <2>2. AMNoStuckIncident
    <3> SUFFICES ASSUME NEW a \in AMAlert \ amOverlap, NEW c \in DOMAIN AMChannel \cap AMChannels,
                        AMQuiet(a), amLast[a] = "resolved", amRec[a][c] = "sent"
                 PROVE  amAt[a][c] = "closed"
      BY DEF AMNoStuckIncident
    <3>1. ~Waiting(a, c)
      BY DEF AMQuiet, Waiting, Posting
    <3> QED BY <3>1 DEF AMInv, Told
  <2> QED BY <2>1, <2>2 DEF AMInv, AMSafe
<1> QED
  BY <1>1, <1>2, <1>3, PTL DEF AMSpecification

-----------------------------------------------------------------------------
(* EbpfCollector: every latency is counted once, in its bucket.             *)

EBSpec == EBInit /\ [][EBNext]_ebVars

\* A function that is built up in steps, as an equation: step n reads what
\* step n - 1 left.
BuiltSum(s, n, f) == f = [k \in 0 .. n |-> IF k = 0 THEN 0 ELSE f[k - 1] + s[k]]
BuiltSize(n, f) == f = [k \in 0 .. n |-> IF k = 0 THEN 1 ELSE 2 * f[k - 1]]
BuiltRange(v, b, n, f) ==
    f = [k \in 0 .. n |-> IF k = 0 THEN [low |-> 1, high |-> b, done |-> FALSE]
                          ELSE SearchStep(v, f[k - 1])]

\* The sums of the prefixes of a list exist.
LEMMA BuiltSumExists ==
    ASSUME NEW s, NEW n \in Nat
    PROVE  \E f : BuiltSum(s, n, f)
<1> DEFINE Bad == {m \in Nat : ~\E f : BuiltSum(s, m, f)}
<1>1. SUFFICES ASSUME Bad # {} PROVE FALSE
  OBVIOUS
<1>2. PICK m \in Bad : \A y \in Bad : m <= y
  BY <1>1, LeastPosition
<1>3. CASE m = 0
  <2> DEFINE f == [i \in 0 .. m |-> 0]
  <2>1. BuiltSum(s, m, f)
    BY <1>3 DEF BuiltSum
  <2> QED BY <1>2, <2>1
<1>4. CASE m # 0
  <2>1. m \in Nat /\ m - 1 \in Nat /\ ~(m <= m - 1)
    BY <1>2, <1>4
  <2>2. m - 1 \notin Bad
    BY <1>2, <2>1
  <2>3. PICK f : BuiltSum(s, m - 1, f)
    BY <2>1, <2>2
  <2> DEFINE g == [i \in 0 .. m |-> IF i = m THEN f[m - 1] + s[m] ELSE f[i]]
  <2>4. \A i \in 0 .. m : g[i] = IF i = 0 THEN 0 ELSE g[i - 1] + s[i]
    <3> SUFFICES ASSUME NEW i \in 0 .. m
                 PROVE  g[i] = IF i = 0 THEN 0 ELSE g[i - 1] + s[i]
      OBVIOUS
    <3>1. CASE i = m
      BY <2>1, <3>1, <1>4
    <3>2. CASE i # m
      <4>1. i \in 0 .. m - 1 /\ g[i] = f[i] /\ (i # 0 => i - 1 \in 0 .. m /\ i - 1 # m)
        BY <2>1, <3>2
      <4>2. f[i] = IF i = 0 THEN 0 ELSE f[i - 1] + s[i]
        BY <2>3, <4>1 DEF BuiltSum
      <4>3. i # 0 => g[i - 1] = f[i - 1]
        BY <4>1
      <4> QED BY <4>1, <4>2, <4>3
    <3> QED BY <3>1, <3>2
  <2>5. BuiltSum(s, m, g)
    BY <2>4 DEF BuiltSum
  <2> QED BY <1>2, <2>5
<1> QED BY <1>3, <1>4

\* The powers of two up to any exponent exist.
LEMMA BuiltSizeExists ==
    ASSUME NEW n \in Nat
    PROVE  \E f : BuiltSize(n, f)
<1> DEFINE Bad == {m \in Nat : ~\E f : BuiltSize(m, f)}
<1>1. SUFFICES ASSUME Bad # {} PROVE FALSE
  OBVIOUS
<1>2. PICK m \in Bad : \A y \in Bad : m <= y
  BY <1>1, LeastPosition
<1>3. CASE m = 0
  <2> DEFINE f == [i \in 0 .. m |-> 1]
  <2>1. BuiltSize(m, f)
    BY <1>3 DEF BuiltSize
  <2> QED BY <1>2, <2>1
<1>4. CASE m # 0
  <2>1. m \in Nat /\ m - 1 \in Nat /\ ~(m <= m - 1)
    BY <1>2, <1>4
  <2>2. m - 1 \notin Bad
    BY <1>2, <2>1
  <2>3. PICK f : BuiltSize(m - 1, f)
    BY <2>1, <2>2
  <2> DEFINE g == [i \in 0 .. m |-> IF i = m THEN 2 * f[m - 1] ELSE f[i]]
  <2>4. \A i \in 0 .. m : g[i] = IF i = 0 THEN 1 ELSE 2 * g[i - 1]
    <3> SUFFICES ASSUME NEW i \in 0 .. m
                 PROVE  g[i] = IF i = 0 THEN 1 ELSE 2 * g[i - 1]
      OBVIOUS
    <3>1. CASE i = m
      BY <2>1, <3>1, <1>4
    <3>2. CASE i # m
      <4>1. i \in 0 .. m - 1 /\ g[i] = f[i] /\ (i # 0 => i - 1 \in 0 .. m /\ i - 1 # m)
        BY <2>1, <3>2
      <4>2. f[i] = IF i = 0 THEN 1 ELSE 2 * f[i - 1]
        BY <2>3, <4>1 DEF BuiltSize
      <4>3. i # 0 => g[i - 1] = f[i - 1]
        BY <4>1
      <4> QED BY <4>1, <4>2, <4>3
    <3> QED BY <3>1, <3>2
  <2>5. BuiltSize(m, g)
    BY <2>4 DEF BuiltSize
  <2> QED BY <1>2, <2>5
<1> QED BY <1>3, <1>4

\* The ranges that the iterations of the search leave exist.
LEMMA BuiltRangeExists ==
    ASSUME NEW v, NEW b, NEW n \in Nat
    PROVE  \E f : BuiltRange(v, b, n, f)
<1> DEFINE first == [low |-> 1, high |-> b, done |-> FALSE]
           Bad == {m \in Nat : ~\E f : BuiltRange(v, b, m, f)}
<1>1. SUFFICES ASSUME Bad # {} PROVE FALSE
  OBVIOUS
<1>2. PICK m \in Bad : \A y \in Bad : m <= y
  BY <1>1, LeastPosition
<1>3. CASE m = 0
  <2> DEFINE f == [i \in 0 .. m |-> first]
  <2>1. BuiltRange(v, b, m, f)
    BY <1>3 DEF BuiltRange
  <2> QED BY <1>2, <2>1
<1>4. CASE m # 0
  <2>1. m \in Nat /\ m - 1 \in Nat /\ ~(m <= m - 1)
    BY <1>2, <1>4
  <2>2. m - 1 \notin Bad
    BY <1>2, <2>1
  <2>3. PICK f : BuiltRange(v, b, m - 1, f)
    BY <2>1, <2>2
  <2> DEFINE g == [i \in 0 .. m |-> IF i = m THEN SearchStep(v, f[m - 1]) ELSE f[i]]
  <2>4. \A i \in 0 .. m : g[i] = IF i = 0 THEN first ELSE SearchStep(v, g[i - 1])
    <3> SUFFICES ASSUME NEW i \in 0 .. m
                 PROVE  g[i] = IF i = 0 THEN first ELSE SearchStep(v, g[i - 1])
      OBVIOUS
    <3>1. CASE i = m
      BY <2>1, <3>1, <1>4
    <3>2. CASE i # m
      <4>1. i \in 0 .. m - 1 /\ g[i] = f[i] /\ (i # 0 => i - 1 \in 0 .. m /\ i - 1 # m)
        BY <2>1, <3>2
      <4>2. f[i] = IF i = 0 THEN first ELSE SearchStep(v, f[i - 1])
        BY <2>3, <4>1 DEF BuiltRange
      <4>3. i # 0 => g[i - 1] = f[i - 1]
        BY <4>1
      <4> QED BY <4>1, <4>2, <4>3
    <3> QED BY <3>1, <3>2
  <2>5. BuiltRange(v, b, m, g)
    BY <2>4 DEF BuiltRange
  <2> QED BY <1>2, <2>5
<1> QED BY <1>3, <1>4

\* The sum of s and the sums f of its prefixes.
SumBy(s, n, f) ==
    /\ SumOf(s) = f[n] /\ f[0] = 0
    /\ \A k \in 1 .. n : f[k] = f[k - 1] + s[k]
    /\ \A k \in 0 .. n : f[k] \in Nat

\* What is summed: counts per CPU or per bucket.
LEMMA SumKnown ==
    ASSUME NEW n \in Nat, NEW s \in [1 .. n -> Nat]
    PROVE  \E f : SumBy(s, n, f)
<1>1. s \in Seq(Nat) /\ Len(s) = n
  OBVIOUS
<1>2. PICK f : BuiltSum(s, n, f) /\ SumOf(s) = f[n]
  <2>1. \E g : g = [k \in 0 .. Len(s) |-> IF k = 0 THEN 0 ELSE g[k - 1] + s[k]]
    BY <1>1, BuiltSumExists DEF BuiltSum
  <2>2. PICK f : f = [k \in 0 .. Len(s) |-> IF k = 0 THEN 0 ELSE f[k - 1] + s[k]] /\ SumOf(s) = f[Len(s)]
    BY <2>1, Zenon DEF SumOf
  <2> QED BY <1>1, <2>2 DEF BuiltSum
<1>3. \A k \in 0 .. n : f[k] = IF k = 0 THEN 0 ELSE f[k - 1] + s[k]
  BY <1>2 DEF BuiltSum
<1>4. f[0] = 0 /\ \A k \in 1 .. n : f[k] = f[k - 1] + s[k]
  BY <1>3
<1>5. \A k \in 0 .. n : f[k] \in Nat
  <2> DEFINE Bad == {k \in 0 .. n : f[k] \notin Nat}
  <2>1. SUFFICES ASSUME Bad # {} PROVE FALSE
    OBVIOUS
  <2>2. PICK m \in Bad : \A y \in Bad : m <= y
    <3>1. Bad \in SUBSET Nat
      OBVIOUS
    <3> QED BY <2>1, <3>1, LeastPosition, Zenon
  <2>3. m \in 1 .. n /\ m - 1 \in 0 .. n /\ ~(m <= m - 1)
    BY <1>4, <2>2
  <2>4. f[m - 1] \in Nat
    BY <2>2, <2>3
  <2> QED BY <1>4, <2>2, <2>3, <2>4
<1> QED BY <1>2, <1>4, <1>5 DEF SumBy

\* The sum of counts is a count; that of zeros is zero.
LEMMA SumCounts ==
    ASSUME NEW n \in Nat, NEW s \in [1 .. n -> Nat]
    PROVE  SumOf(s) \in Nat /\ ((\A k \in 1 .. n : s[k] = 0) => SumOf(s) = 0)
<1>0. PICK f : SumBy(s, n, f)
  BY SumKnown
<1>1. /\ SumOf(s) = f[n] /\ f[0] = 0
      /\ \A k \in 1 .. n : f[k] = f[k - 1] + s[k]
      /\ \A k \in 0 .. n : f[k] \in Nat
  BY <1>0 DEF SumBy
<1>2. ASSUME \A k \in 1 .. n : s[k] = 0 PROVE \A k \in 0 .. n : f[k] = 0
  <2> DEFINE Bad == {k \in 0 .. n : f[k] # 0}
  <2>1. SUFFICES ASSUME Bad # {} PROVE FALSE
    OBVIOUS
  <2>2. PICK m \in Bad : \A y \in Bad : m <= y
    <3>1. Bad \in SUBSET Nat
      OBVIOUS
    <3> QED BY <2>1, <3>1, LeastPosition, Zenon
  <2>3. m \in 1 .. n /\ m - 1 \in 0 .. n /\ ~(m <= m - 1)
    BY <1>1, <2>2
  <2>4. f[m - 1] = 0
    BY <2>2, <2>3
  <2> QED BY <1>1, <1>2, <2>2, <2>3, <2>4
<1> QED BY <1>1, <1>2

\* One more at one place is one more in the sum.
LEMMA SumBumped ==
    ASSUME NEW n \in Nat, NEW s \in [1 .. n -> Nat], NEW c \in 1 .. n
    PROVE  SumOf([s EXCEPT ![c] = s[c] + 1]) = SumOf(s) + 1
<1> DEFINE t == [s EXCEPT ![c] = s[c] + 1]
<1>0. PICK f : SumBy(s, n, f)
  BY SumKnown
<1>1. /\ SumOf(s) = f[n] /\ f[0] = 0
      /\ \A k \in 1 .. n : f[k] = f[k - 1] + s[k]
      /\ \A k \in 0 .. n : f[k] \in Nat
  BY <1>0 DEF SumBy
<1>2. t \in [1 .. n -> Nat]
  OBVIOUS
<1>3. \A k \in 1 .. n : t[k] = IF k = c THEN s[k] + 1 ELSE s[k]
  OBVIOUS
<1> HIDE DEF t
<1>8. PICK g : SumBy(t, n, g)
  BY <1>2, SumKnown
<1>4. /\ SumOf(t) = g[n] /\ g[0] = 0
      /\ \A k \in 1 .. n : g[k] = g[k - 1] + t[k]
      /\ \A k \in 0 .. n : g[k] \in Nat
  BY <1>8 DEF SumBy
<1>5. \A k \in 0 .. n : g[k] = IF k < c THEN f[k] ELSE f[k] + 1
  <2> DEFINE Bad == {k \in 0 .. n : ~(g[k] = IF k < c THEN f[k] ELSE f[k] + 1)}
  <2>1. SUFFICES ASSUME Bad # {} PROVE FALSE
    OBVIOUS
  <2>2. PICK m \in Bad : \A y \in Bad : m <= y
    <3>1. Bad \in SUBSET Nat
      OBVIOUS
    <3> QED BY <2>1, <3>1, LeastPosition, Zenon
  <2>3. m \in 1 .. n /\ m - 1 \in 0 .. n /\ ~(m <= m - 1)
    BY <1>1, <1>4, <2>2
  <2>4. g[m - 1] = IF m - 1 < c THEN f[m - 1] ELSE f[m - 1] + 1
    BY <2>2, <2>3
  <2>5. /\ f[m] = f[m - 1] + s[m] /\ g[m] = g[m - 1] + t[m]
        /\ t[m] = (IF m = c THEN s[m] + 1 ELSE s[m]) /\ s[m] \in Nat /\ f[m - 1] \in Nat
    BY <1>1, <1>3, <1>4, <2>3
  <2>6. g[m] = IF m < c THEN f[m] ELSE f[m] + 1
    BY <2>3, <2>4, <2>5
  <2> QED BY <2>2, <2>6
<1>6. n \in 0 .. n /\ ~(n < c)
  OBVIOUS
<1>7. SumOf(t) = SumOf(s) + 1
  BY <1>1, <1>4, <1>5, <1>6
<1> QED BY <1>7 DEF t

\* The number of buckets that k iterations cover.
LEMMA Doubles ==
    \E f : /\ Doubled(EBSteps) = f[EBSteps] /\ f[0] = 1
           /\ \A k \in 1 .. EBSteps : f[k] = 2 * f[k - 1]
           /\ \A k \in 0 .. EBSteps : f[k] \in Nat \ {0}
<1>1. EBSteps \in Nat
  BY EBAssumption
<1>2. PICK f : BuiltSize(EBSteps, f) /\ Doubled(EBSteps) = f[EBSteps]
  <2>1. \E g : g = [k \in 0 .. EBSteps |-> IF k = 0 THEN 1 ELSE 2 * g[k - 1]]
    BY <1>1, BuiltSizeExists DEF BuiltSize
  <2> QED BY <2>1, Zenon DEF Doubled, BuiltSize
<1>3. \A k \in 0 .. EBSteps : f[k] = IF k = 0 THEN 1 ELSE 2 * f[k - 1]
  BY <1>2 DEF BuiltSize
<1>4. f[0] = 1 /\ \A k \in 1 .. EBSteps : f[k] = 2 * f[k - 1]
  BY <1>1, <1>3
<1>5. \A k \in 0 .. EBSteps : f[k] \in Nat \ {0}
  <2> DEFINE Bad == {k \in 0 .. EBSteps : f[k] \notin Nat \ {0}}
  <2>1. SUFFICES ASSUME Bad # {} PROVE FALSE
    OBVIOUS
  <2>2. PICK m \in Bad : \A y \in Bad : m <= y
    <3>1. Bad \in SUBSET Nat
      BY <1>1
    <3> QED BY <2>1, <3>1, LeastPosition, Zenon
  <2>3. m \in 1 .. EBSteps /\ m - 1 \in 0 .. EBSteps /\ ~(m <= m - 1)
    BY <1>1, <1>4, <2>2
  <2>4. f[m - 1] \in Nat \ {0}
    BY <2>2, <2>3
  <2> QED BY <1>4, <2>2, <2>3, <2>4
<1> QED BY <1>2, <1>4, <1>5

\* A range of the search: below it every bound is at most the latency, above
\* it every bound is larger, and its size is within the given cap, one less
\* once the search has gone left.
Narrowed(v, b, cap, r) ==
    /\ r = [low |-> r.low, high |-> r.high, done |-> r.done]
    /\ r.low \in 1 .. b + 1 /\ r.high \in 0 .. b /\ r.low <= r.high + 1 /\ r.done \in BOOLEAN
    /\ \A i \in 1 .. b : i < r.low => v >= EBBounds[i]
    /\ \A i \in 1 .. b : i > r.high => v < EBBounds[i]
    /\ r.done => r.low = 1 /\ v < EBBounds[1]
    /\ ~r.done => /\ r.high - r.low + 1 <= cap
                  /\ r.high < b => r.high - r.low + 1 < cap

\* An iteration halves the cap.
LEMMA StepNarrows ==
    ASSUME NEW v \in Nat, NEW b \in EBBuckets, NEW cap \in Nat \ {0}, NEW r, Narrowed(v, b, 2 * cap, r)
    PROVE  Narrowed(v, b, cap, SearchStep(v, r))
<1> DEFINE x == r.high - r.low
           h == x \div 2
           mid == r.low + h
           q == SearchStep(v, r)
<1>1. /\ b \in Nat /\ b >= 1 /\ \A i \in 1 .. b : EBBounds[i] \in Nat
      /\ \A i, j \in 1 .. b : i <= j => EBBounds[i] <= EBBounds[j]
  BY EBAssumption DEF EBBuckets
<1>2. q = IF r.done \/ r.low > r.high THEN r
          ELSE IF v >= EBBounds[mid] THEN [r EXCEPT !.low = mid + 1]
          ELSE IF mid = 1 THEN [r EXCEPT !.done = TRUE]
          ELSE [r EXCEPT !.high = mid - 1]
  BY Zenon DEF SearchStep
<1> SUFFICES Narrowed(v, b, cap, q)
  OBVIOUS
<1> HIDE DEF q
<1>3. /\ r = [low |-> r.low, high |-> r.high, done |-> r.done]
      /\ r.low \in 1 .. b + 1 /\ r.high \in 0 .. b /\ r.low <= r.high + 1 /\ r.done \in BOOLEAN
      /\ \A i \in 1 .. b : i < r.low => v >= EBBounds[i]
      /\ \A i \in 1 .. b : i > r.high => v < EBBounds[i]
      /\ r.done => r.low = 1 /\ v < EBBounds[1]
      /\ ~r.done => /\ r.high - r.low + 1 <= 2 * cap
                    /\ r.high < b => r.high - r.low + 1 < 2 * cap
  BY DEF Narrowed
<1>4. CASE r.done \/ r.low > r.high
  <2>1. q = r
    BY <1>2, <1>4
  <2>2. ~r.done => r.high - r.low + 1 <= cap /\ (r.high < b => r.high - r.low + 1 < cap)
    BY <1>1, <1>3, <1>4
  <2> QED BY <1>3, <2>1, <2>2 DEF Narrowed
<1>5. CASE ~r.done /\ ~(r.low > r.high)
  <2>1. /\ x \in Nat /\ h \in Nat /\ 2 * h <= x /\ x <= 2 * h + 1 /\ x + 1 <= 2 * cap
        /\ r.high < b => x + 1 < 2 * cap
    <3>1. x \in Nat /\ x + 1 <= 2 * cap /\ (r.high < b => x + 1 < 2 * cap)
      BY <1>1, <1>3, <1>5
    <3> HIDE DEF x
    <3>2. h \in Nat /\ 2 * h <= x /\ x <= 2 * h + 1
      BY <3>1
    <3> HIDE DEF h
    <3> QED BY <3>1, <3>2
  <2>2. mid \in 1 .. b /\ mid >= r.low /\ mid <= r.high
    BY <1>1, <1>3, <1>5, <2>1
  <2>3. CASE v >= EBBounds[mid]
    <3>1. q = [low |-> mid + 1, high |-> r.high, done |-> FALSE]
      <4> HIDE DEF mid
      <4> QED BY <1>2, <1>3, <1>5, <2>3
    <3>2. \A i \in 1 .. b : i < mid + 1 => v >= EBBounds[i]
      <4> HIDE DEF mid
      <4> SUFFICES ASSUME NEW i \in 1 .. b, i < mid + 1 PROVE v >= EBBounds[i]
        OBVIOUS
      <4>1. EBBounds[i] <= EBBounds[mid] /\ EBBounds[i] \in Nat /\ EBBounds[mid] \in Nat
        BY <1>1, <2>2
      <4> QED BY <2>3, <4>1
    <3>3. r.high - (mid + 1) + 1 <= cap /\ (r.high < b => r.high - (mid + 1) + 1 < cap)
      <4>1. r.high - (mid + 1) + 1 = x - h
        BY <1>1, <1>3, <2>1
      <4> HIDE DEF x, h, mid
      <4> QED BY <2>1, <4>1
    <3>4. mid + 1 \in 1 .. b + 1 /\ mid + 1 <= r.high + 1
      <4> HIDE DEF mid
      <4> QED BY <1>1, <1>3, <2>2
    <3> HIDE DEF mid
    <3> QED BY <1>3, <3>1, <3>2, <3>3, <3>4 DEF Narrowed
  <2>4. CASE ~(v >= EBBounds[mid]) /\ mid = 1
    <3>1. q = [low |-> r.low, high |-> r.high, done |-> TRUE]
      <4> HIDE DEF mid
      <4> QED BY <1>2, <1>3, <1>5, <2>4
    <3>2. r.low = 1 /\ v < EBBounds[1]
      <4> HIDE DEF mid
      <4> QED BY <1>1, <1>3, <2>2, <2>4
    <3> HIDE DEF mid
    <3> QED BY <1>3, <3>1, <3>2 DEF Narrowed
  <2>5. CASE ~(v >= EBBounds[mid]) /\ mid # 1
    <3>1. q = [low |-> r.low, high |-> mid - 1, done |-> FALSE]
      <4> HIDE DEF mid
      <4> QED BY <1>2, <1>3, <1>5, <2>5
    <3>2. \A i \in 1 .. b : i > mid - 1 => v < EBBounds[i]
      <4> HIDE DEF mid
      <4> SUFFICES ASSUME NEW i \in 1 .. b, i > mid - 1 PROVE v < EBBounds[i]
        OBVIOUS
      <4>1. EBBounds[mid] <= EBBounds[i] /\ EBBounds[i] \in Nat /\ EBBounds[mid] \in Nat
        BY <1>1, <2>2
      <4> QED BY <2>5, <4>1
    <3>3. (mid - 1) - r.low + 1 < cap
      <4>1. (mid - 1) - r.low + 1 = h
        BY <1>1, <1>3, <2>1
      <4> HIDE DEF x, h, mid
      <4> QED BY <2>1, <4>1
    <3>4. mid - 1 \in 0 .. b /\ r.low <= (mid - 1) + 1
      <4> HIDE DEF mid
      <4> QED BY <1>1, <1>3, <2>2
    <3> HIDE DEF mid
    <3>5. /\ (mid - 1) - r.low + 1 <= cap
          /\ mid - 1 < b => (mid - 1) - r.low + 1 < cap
      BY <1>3, <2>2, <3>3
    <3> QED BY <1>3, <3>1, <3>2, <3>4, <3>5 DEF Narrowed
  <2> QED BY <2>3, <2>4, <2>5
<1> QED BY <1>4, <1>5

\* The search finds the first bucket whose bound is above the latency, or the
\* last one: record_latency's comment "11 iterations covers up to 2048 buckets".
LEMMA SearchFinds ==
    ASSUME NEW v \in Nat, NEW b \in EBBuckets
    PROVE  Search(v, b) = BucketMeant(v, b) /\ Search(v, b) \in 1 .. b
<1>1. /\ EBSteps \in Nat /\ b \in Nat /\ b >= 1 /\ b <= Doubled(EBSteps)
      /\ \A i \in 1 .. b : EBBounds[i] \in Nat
  <2>1. Len(EBBounds) \in Nat /\ b \in 1 .. Len(EBBounds) /\ Len(EBBounds) <= Doubled(EBSteps)
    BY EBAssumption DEF EBBuckets
  <2>2. Doubled(EBSteps) \in Nat
    BY Doubles, EBAssumption
  <2> QED BY <2>1, <2>2, EBAssumption DEF EBBuckets
<1>2. PICK cap : /\ Doubled(EBSteps) = cap[EBSteps] /\ cap[0] = 1
                 /\ \A k \in 1 .. EBSteps : cap[k] = 2 * cap[k - 1]
                 /\ \A k \in 0 .. EBSteps : cap[k] \in Nat \ {0}
  BY Doubles
<1>3. PICK f : BuiltRange(v, b, EBSteps, f) /\ RangeAfter(v, b) = f[EBSteps]
  <2>1. \E g : g = [n \in 0 .. EBSteps |-> IF n = 0 THEN [low |-> 1, high |-> b, done |-> FALSE]
                                           ELSE SearchStep(v, g[n - 1])]
    <3>1. \E g : BuiltRange(v, b, EBSteps, g)
      BY <1>1, BuiltRangeExists
    <3> QED BY <3>1, Zenon DEF BuiltRange
  <2> QED BY <2>1, Zenon DEF RangeAfter, BuiltRange
<1>4. /\ f[0] = [low |-> 1, high |-> b, done |-> FALSE]
      /\ \A k \in 1 .. EBSteps : f[k] = SearchStep(v, f[k - 1])
  <2>1. \A k \in 0 .. EBSteps : f[k] = IF k = 0 THEN [low |-> 1, high |-> b, done |-> FALSE]
                                       ELSE SearchStep(v, f[k - 1])
    BY <1>3 DEF BuiltRange
  <2>2. 0 \in 0 .. EBSteps /\ \A k \in 1 .. EBSteps : k \in 0 .. EBSteps /\ k # 0
    BY <1>1
  <2> QED BY <2>1, <2>2
<1>5. \A k \in 0 .. EBSteps : Narrowed(v, b, cap[EBSteps - k], f[k])
  <2> DEFINE Bad == {k \in 0 .. EBSteps : ~Narrowed(v, b, cap[EBSteps - k], f[k])}
  <2>1. SUFFICES ASSUME Bad # {} PROVE FALSE
    OBVIOUS
  <2>2. PICK m \in Bad : \A y \in Bad : m <= y
    <3>1. Bad \in SUBSET Nat
      BY <1>1
    <3> QED BY <2>1, <3>1, LeastPosition, Zenon
  <2>3. CASE m = 0
    <3>1. cap[EBSteps - m] = Doubled(EBSteps) /\ f[m] = [low |-> 1, high |-> b, done |-> FALSE]
      BY <1>1, <1>2, <1>4, <2>3
    <3>2. Narrowed(v, b, Doubled(EBSteps), [low |-> 1, high |-> b, done |-> FALSE])
      BY <1>1 DEF Narrowed
    <3> QED BY <2>2, <3>1, <3>2
  <2>4. CASE m # 0
    <3>1. /\ m \in 1 .. EBSteps /\ m - 1 \in 0 .. EBSteps /\ ~(m <= m - 1)
          /\ EBSteps - m \in 0 .. EBSteps /\ EBSteps - (m - 1) \in 1 .. EBSteps
          /\ EBSteps - (m - 1) - 1 = EBSteps - m
      BY <1>1, <2>2, <2>4
    <3>2. m - 1 \notin Bad
      BY <2>2, <3>1
    <3>3. Narrowed(v, b, cap[EBSteps - (m - 1)], f[m - 1])
      BY <3>1, <3>2
    <3>4. cap[EBSteps - (m - 1)] = 2 * cap[EBSteps - m] /\ cap[EBSteps - m] \in Nat \ {0}
      BY <1>2, <3>1
    <3> DEFINE c == cap[EBSteps - m]
               r == f[m - 1]
    <3>5. c \in Nat \ {0} /\ Narrowed(v, b, 2 * c, r)
      BY <3>3, <3>4
    <3> HIDE DEF c, r
    <3>6. Narrowed(v, b, c, SearchStep(v, r))
      BY <3>5, StepNarrows
    <3>7. f[m] = SearchStep(v, r)
      BY <1>4, <3>1 DEF r
    <3> QED BY <2>2, <3>6, <3>7 DEF c
  <2> QED BY <2>3, <2>4
<1> DEFINE r == RangeAfter(v, b)
<1>6. Narrowed(v, b, 1, r)
  <2>1. EBSteps \in 0 .. EBSteps /\ EBSteps - EBSteps = 0
    BY <1>1
  <2> QED BY <1>2, <1>3, <1>5, <2>1
<1> HIDE DEF r
<1> DEFINE above == {i \in 1 .. b : v < EBBounds[i]}
           s == IF r.low > b THEN b ELSE r.low
<1>7. Search(v, b) = s /\ BucketMeant(v, b) = IF above = {} THEN b ELSE Min(above)
  BY DEF Search, BucketMeant, r
<1>8. /\ r.low \in 1 .. b + 1 /\ r.high \in 0 .. b /\ r.low <= r.high + 1
      /\ \A i \in 1 .. b : i < r.low => v >= EBBounds[i]
      /\ \A i \in 1 .. b : i > r.high => v < EBBounds[i]
      /\ r.done => r.low = 1 /\ v < EBBounds[1]
      /\ ~r.done => /\ r.high - r.low + 1 <= 1
                    /\ r.high < b => r.high - r.low + 1 < 1
  BY <1>6 DEF Narrowed
<1>9. s \in 1 .. b /\ \A i \in 1 .. b : i < s => ~(v < EBBounds[i])
  BY <1>1, <1>8
<1>10. s \in above \/ (above = {} /\ s = b)
  <2>1. CASE r.done
    BY <1>1, <1>8, <2>1
  <2>2. CASE ~r.done /\ r.low > r.high /\ r.low <= b
    BY <1>1, <1>8, <2>2
  <2>3. CASE ~r.done /\ r.low > r.high /\ r.low > b
    <3>1. s = b /\ \A i \in 1 .. b : i < r.low
      BY <1>1, <1>8, <2>3
    <3>2. \A i \in 1 .. b : ~(v < EBBounds[i])
      BY <1>1, <1>8, <3>1
    <3> QED BY <3>1, <3>2
  <2>4. CASE ~r.done /\ ~(r.low > r.high)
    <3>1. r.high = b /\ r.low = b /\ s = b
      BY <1>1, <1>8, <2>4
    <3>2. \A i \in 1 .. b : i # b => ~(v < EBBounds[i])
      BY <1>1, <1>9, <3>1
    <3> QED BY <1>1, <3>1, <3>2
  <2> QED BY <1>1, <1>8, <2>1, <2>2, <2>3, <2>4
<1>11. CASE s \in above
  <2>1. \A i \in above : s <= i
    BY <1>1, <1>9
  <2> HIDE DEF s
  <2>2. \A x \in above : (\A i \in above : x <= i) => x = s
    BY <1>11, <2>1
  <2>3. Min(above) = s
    BY <1>11, <2>1, <2>2 DEF Min
  <2> QED BY <1>7, <1>9, <1>11, <2>3
<1> QED BY <1>7, <1>9, <1>10, <1>11

EBCounts == [EBBuckets -> Nat]
EBTypes ==
    /\ ebKernel \in [EBBuckets -> [EBCpu -> Nat]]
    /\ ebPoll = [pc |-> ebPoll.pc, i |-> ebPoll.i, total |-> ebPoll.total, left |-> ebPoll.left]
    /\ ebPoll.i \in EBBuckets /\ ebPoll.total \in Nat /\ ebPoll.left \in Nat
    /\ ebLog \in EBCounts /\ ebServer \in EBCounts /\ ebRecorded \in EBCounts
    /\ ebMain = [pc |-> ebMain.pc, snap |-> ebMain.snap, error |-> ebMain.error]
    /\ ebMain.snap \in EBCounts /\ ebRaced \in BOOLEAN /\ ebFaults.unsure \in BOOLEAN

\* The polling thread works on a bucket that it has read and not zeroed; only
\* a probe that counts into it meanwhile makes the bucket larger than the
\* total that was read.
Polling == ebPoll.pc \in {"add", "zero"}
PollKnows ==
    /\ Polling => /\ ebPoll.left <= ebPoll.total /\ ebPoll.total <= SumOf(ebKernel[ebPoll.i])
                  /\ ~ebRaced => ebPoll.total = SumOf(ebKernel[ebPoll.i])
    /\ ebPoll.pc = "zero" => ebPoll.left = 0
    /\ ebMain.pc # "post" => ebMain.snap = Zeros

\* Where the latencies of a bucket are: still to be read from the kernel, in
\* the log, in the snapshot being posted, on the server.
Unread(i) == SumOf(ebKernel[i]) - (IF Polling /\ ebPoll.i = i THEN ebPoll.total - ebPoll.left ELSE 0)
Whereabouts(i) == Unread(i) + ebLog[i] + ebMain.snap[i] + ebServer[i]
EBAccount ==
    ~ebFaults.unsure => \A i \in EBBuckets : /\ Whereabouts(i) <= ebRecorded[i]
                                             /\ ~ebRaced => Whereabouts(i) = ebRecorded[i]

EBInv == EBTypes /\ PollKnows /\ EBAccount

\* The buckets are 1 to n, and the sums over the CPUs are natural numbers.
LEMMA Tables ==
    /\ Len(EBBounds) \in Nat \ {0} /\ EBBuckets = 1 .. Len(EBBounds) /\ 1 \in EBBuckets
    /\ EBCpus \in Nat /\ EBCpu = 1 .. EBCpus /\ Zeros \in EBCounts
    /\ \A f \in [EBCpu -> Nat] : SumOf(f) \in Nat
    /\ SumOf([c \in EBCpu |-> 0]) = 0
<1>1. /\ Len(EBBounds) \in Nat \ {0} /\ EBBuckets = 1 .. Len(EBBounds) /\ EBCpus \in Nat
      /\ EBCpu = 1 .. EBCpus
  BY EBAssumption DEF EBBuckets, EBCpu
<1>2. 1 \in EBBuckets /\ Zeros \in EBCounts
  BY <1>1 DEF Zeros, EBCounts
<1>3. \A f \in [EBCpu -> Nat] : SumOf(f) \in Nat
  BY <1>1, SumCounts
<1>4. SumOf([c \in EBCpu |-> 0]) = 0
  <2> DEFINE z == [c \in EBCpu |-> 0]
  <2>1. z \in [1 .. EBCpus -> Nat] /\ \A k \in 1 .. EBCpus : z[k] = 0
    BY <1>1
  <2> HIDE DEF z
  <2>2. SumOf(z) = 0
    BY <1>1, <2>1, SumCounts
  <2> QED BY <2>2 DEF z
<1> QED BY <1>1, <1>2, <1>3, <1>4

\* A read never takes more than the bucket holds.
LEMMA UnreadCounts ==
    ASSUME EBInv, NEW i \in EBBuckets
    PROVE  /\ Unread(i) \in Nat /\ SumOf(ebKernel[i]) \in Nat /\ Unread(i) <= SumOf(ebKernel[i])
           /\ ebLog[i] \in Nat /\ ebMain.snap[i] \in Nat /\ ebServer[i] \in Nat /\ ebRecorded[i] \in Nat
<1>1. SumOf(ebKernel[i]) \in Nat
  BY Tables DEF EBInv, EBTypes
<1> DEFINE S == SumOf(ebKernel[i])
<1> HIDE DEF S
<1>2. S \in Nat /\ (Polling /\ ebPoll.i = i => ebPoll.left <= ebPoll.total /\ ebPoll.total <= S)
  BY <1>1 DEF EBInv, PollKnows, S
<1>3. ebPoll.left \in Nat /\ ebPoll.total \in Nat
  BY DEF EBInv, EBTypes
<1>4. Unread(i) = S - (IF Polling /\ ebPoll.i = i THEN ebPoll.total - ebPoll.left ELSE 0)
  BY DEF Unread, S
<1>5. Unread(i) \in Nat /\ Unread(i) <= S
  BY <1>2, <1>3, <1>4
<1> QED BY <1>1, <1>5 DEF EBInv, EBTypes, EBCounts, S

\* EBInv says what the collector promises.
LEMMA EBInvSafe ==
    ASSUME EBInv
    PROVE  EBSafe
<1>1. EBSearchExact
  <2> SUFFICES ASSUME NEW b \in EBBuckets, NEW v \in 0 .. EBBounds[Len(EBBounds)] + 1
               PROVE  Search(v, b) = BucketMeant(v, b)
    BY DEF EBSearchExact
  <2>1. EBBounds[Len(EBBounds)] \in Nat
    BY Tables, EBAssumption DEF EBBuckets
  <2>2. v \in Nat
    BY <2>1
  <2> QED BY <2>2, SearchFinds
<1>2. EBNeverInvented
  <2> SUFFICES ASSUME ~ebFaults.unsure, NEW i \in EBBuckets
               PROVE  ebLog[i] + ebMain.snap[i] + ebServer[i] <= ebRecorded[i]
    BY DEF EBNeverInvented
  <2>1. Unread(i) + ebLog[i] + ebMain.snap[i] + ebServer[i] <= ebRecorded[i]
    BY DEF EBInv, EBAccount, Whereabouts
  <2> QED BY <2>1, UnreadCounts
<1>3. EBConserved
  <2> SUFFICES ASSUME ~ebRaced, ~ebFaults.unsure, NEW i \in EBBuckets
               PROVE  ebRecorded[i] = Unread(i) + ebLog[i] + ebMain.snap[i] + ebServer[i]
    BY Zenon DEF EBConserved, Unread, Polling
  <2> QED BY DEF EBInv, EBAccount, Whereabouts
<1> QED BY <1>1, <1>2, <1>3 DEF EBSafe

\* A probe counts a latency, on some CPU, in the bucket it belongs to.
LEMMA ProbeStep ==
    ASSUME EBInv, NEW sk \in EBSock, NEW v \in EBLatency, NEW cpu \in EBCpu,
           trace_tcp_cleanup_rbuf(sk, v, cpu)
    PROVE  EBInv'
<1> DEFINE b == BucketOf(v)
           old == ebKernel[b]
           new == [old EXCEPT ![cpu] = old[cpu] + 1]
<1>1. b \in EBBuckets /\ BucketMeant(v, Len(EBBounds)) = b
  <2>1. v \in Nat /\ Len(EBBounds) \in EBBuckets /\ EBBuckets = 1 .. Len(EBBounds)
    BY Tables, EBAssumption
  <2> QED BY <2>1, SearchFinds DEF BucketOf
<1> HIDE DEF b
<1>2. /\ ebKernel \in [EBBuckets -> [EBCpu -> Nat]] /\ ebRecorded \in EBCounts /\ old \in [EBCpu -> Nat]
  BY <1>1 DEF EBInv, EBTypes
<1>3. /\ ebKernel' = [ebKernel EXCEPT ![b] = new]
      /\ ebRecorded' = [ebRecorded EXCEPT ![b] = ebRecorded[b] + 1]
      /\ ebRaced' = (ebRaced \/ (Polling /\ ebPoll.i = b))
      /\ UNCHANGED <<ebPoll, ebLog, ebMain, ebServer, ebFaults>>
  BY <1>1 DEF trace_tcp_cleanup_rbuf, b, Polling
<1>4. new \in [EBCpu -> Nat] /\ SumOf(new) = SumOf(old) + 1
  <2>1. EBCpus \in Nat /\ EBCpu = 1 .. EBCpus
    BY Tables
  <2>2. old \in [1 .. EBCpus -> Nat] /\ cpu \in 1 .. EBCpus
    BY <1>2, <2>1
  <2> HIDE DEF old
  <2>3. new \in [EBCpu -> Nat]
    BY <2>1, <2>2
  <2>4. SumOf(new) = SumOf(old) + 1
    BY <2>1, <2>2, SumBumped
  <2> QED BY <2>3, <2>4
<1> HIDE DEF new
<1>5. /\ ebKernel'[b] = new /\ ebRecorded'[b] = ebRecorded[b] + 1
      /\ \A i \in EBBuckets \ {b} : ebKernel'[i] = ebKernel[i] /\ ebRecorded'[i] = ebRecorded[i]
      /\ ebKernel' \in [EBBuckets -> [EBCpu -> Nat]] /\ ebRecorded' \in EBCounts
  BY <1>1, <1>2, <1>3, <1>4 DEF EBCounts
<1>6. /\ SumOf(ebKernel'[b]) = SumOf(ebKernel[b]) + 1 /\ SumOf(ebKernel[b]) \in Nat
      /\ \A i \in EBBuckets \ {b} : SumOf(ebKernel'[i]) = SumOf(ebKernel[i])
  <2>1. SumOf(ebKernel[b]) \in Nat
    BY <1>1, UnreadCounts
  <2> QED BY <1>4, <1>5, <2>1
<1>7. EBTypes'
  BY <1>3, <1>5 DEF EBInv, EBTypes
<1>8. PollKnows'
  <2>1. ebPoll.i \in EBBuckets /\ ebPoll.total \in Nat
    BY DEF EBInv, EBTypes
  <2>2. /\ Polling => /\ ebPoll.left <= ebPoll.total /\ ebPoll.total <= SumOf(ebKernel[ebPoll.i])
                      /\ ~ebRaced => ebPoll.total = SumOf(ebKernel[ebPoll.i])
        /\ ebPoll.pc = "zero" => ebPoll.left = 0
        /\ ebMain.pc # "post" => ebMain.snap = Zeros
    BY DEF EBInv, PollKnows
  <2> DEFINE S == SumOf(ebKernel[ebPoll.i])
             T == SumOf(ebKernel'[ebPoll.i])
  <2>3. S \in Nat /\ (ebPoll.i = b => T = S + 1) /\ (ebPoll.i # b => T = S)
    BY <1>6, <2>1, UnreadCounts
  <2>4. T = SumOf(ebKernel[ebPoll.i])' /\ Polling' = Polling
    BY <1>3 DEF Polling
  <2>5. ~ebRaced' /\ Polling => ~ebRaced /\ ebPoll.i # b
    BY <1>3
  <2> HIDE DEF S, T
  <2>6. Polling => /\ ebPoll.left <= ebPoll.total /\ ebPoll.total <= T
                   /\ ~ebRaced' => ebPoll.total = T
    BY <2>1, <2>2, <2>3, <2>5 DEF S
  <2> QED BY <1>3, <2>2, <2>4, <2>6 DEF PollKnows
<1>9. EBAccount'
  <2> SUFFICES ASSUME ~ebFaults.unsure, NEW i \in EBBuckets
               PROVE  /\ Whereabouts(i)' <= ebRecorded'[i]
                      /\ ~ebRaced' => Whereabouts(i)' = ebRecorded'[i]
    BY <1>3 DEF EBAccount
  <2>0. ~ebRaced' => ~ebRaced
    BY <1>3
  <2>1. /\ Whereabouts(i) <= ebRecorded[i] /\ (~ebRaced => Whereabouts(i) = ebRecorded[i])
        /\ Whereabouts(i) = Unread(i) + ebLog[i] + ebMain.snap[i] + ebServer[i]
    BY DEF EBInv, EBAccount, Whereabouts
  <2>2. /\ Unread(i) \in Nat /\ ebLog[i] \in Nat /\ ebMain.snap[i] \in Nat /\ ebServer[i] \in Nat
        /\ ebRecorded[i] \in Nat /\ SumOf(ebKernel[i]) \in Nat
    BY UnreadCounts
  <2>3. Whereabouts(i)' = Unread(i)' + ebLog[i] + ebMain.snap[i] + ebServer[i]
    BY <1>3 DEF Whereabouts
  <2> DEFINE taken == IF Polling /\ ebPoll.i = i THEN ebPoll.total - ebPoll.left ELSE 0
  <2>4. taken \in Int /\ Unread(i) = SumOf(ebKernel[i]) - taken /\ Unread(i)' = SumOf(ebKernel'[i]) - taken
    BY <1>3 DEF Unread, Polling, EBInv, EBTypes
  <2> HIDE DEF taken
  <2>5. CASE i = b
    <3>1. Unread(i)' = Unread(i) + 1 /\ ebRecorded'[i] = ebRecorded[i] + 1
      BY <1>5, <1>6, <2>2, <2>4, <2>5
    <3> QED BY <2>0, <2>1, <2>2, <2>3, <3>1
  <2>6. CASE i # b
    <3>1. Unread(i)' = Unread(i) /\ ebRecorded'[i] = ebRecorded[i]
      BY <1>5, <1>6, <2>4, <2>6
    <3> QED BY <2>0, <2>1, <2>2, <2>3, <3>1
  <2> QED BY <2>5, <2>6
<1> QED BY <1>7, <1>8, <1>9 DEF EBInv

\* A step that leaves the latencies of every bucket where they are counted, as
\* many as they were.
LEMMA SamePlaces ==
    ASSUME EBInv, UNCHANGED <<ebRecorded, ebRaced, ebFaults>>,
           \A i \in EBBuckets : Whereabouts(i)' = Whereabouts(i)
    PROVE  EBAccount'
  BY DEF EBInv, EBAccount

\* The bucket the polling thread goes on with is not being worked on yet.
LEMMA GoesOn ==
    ASSUME EBInv
    PROVE  /\ NextBucket.i \in EBBuckets /\ NextBucket.total = 0 /\ NextBucket.left = 0
           /\ NextBucket.pc \in {"wait", "read"}
           /\ NextBucket = [pc |-> NextBucket.pc, i |-> NextBucket.i, total |-> NextBucket.total,
                            left |-> NextBucket.left]
<1>1. ebPoll.i \in 1 .. Len(EBBounds) /\ Len(EBBounds) \in Nat \ {0} /\ EBBuckets = 1 .. Len(EBBounds)
  BY Tables DEF EBInv, EBTypes
<1>2. CASE ebPoll.i = Len(EBBounds)
  BY <1>1, <1>2 DEF NextBucket
<1>3. CASE ebPoll.i # Len(EBBounds)
  <2>1. ebPoll.i + 1 \in 1 .. Len(EBBounds)
    BY <1>1, <1>3
  <2> QED BY <1>1, <1>3, <2>1 DEF NextBucket
<1> QED BY <1>2, <1>3

\* The polling thread waits, or ends.
LEMMA PollWaitStep ==
    ASSUME EBInv, PollWait
    PROVE  EBInv'
<1>1. /\ ~Polling /\ ebPoll' = [ebPoll EXCEPT !.pc = IF ebStop THEN "ended" ELSE "read"]
      /\ UNCHANGED <<ebKernel, ebLog, ebMain, ebServer, ebRecorded, ebRaced, ebFaults>>
  BY DEF PollWait, Polling
<1>2. EBTypes /\ PollKnows
  BY DEF EBInv
<1>3. /\ ebPoll' = [pc |-> IF ebStop THEN "ended" ELSE "read", i |-> ebPoll.i,
                    total |-> ebPoll.total, left |-> ebPoll.left]
  BY <1>1, <1>2 DEF EBTypes
<1>4. ~Polling' /\ ebPoll'.pc # "zero"
  BY <1>3 DEF Polling
<1>5. EBTypes'
  BY <1>1, <1>2, <1>3 DEF EBTypes
<1>6. PollKnows'
  BY <1>1, <1>2, <1>4 DEF PollKnows
<1>7. \A i \in EBBuckets : Whereabouts(i)' = Whereabouts(i)
  BY <1>1, <1>4 DEF Whereabouts, Unread
<1> QED BY <1>1, <1>5, <1>6, <1>7, SamePlaces DEF EBInv

\* It reads a bucket: the counts of all CPUs, none of them taken yet.
LEMMA PollReadStep ==
    ASSUME EBInv, PollRead
    PROVE  EBInv'
<1> DEFINE total == SumOf(ebKernel[ebPoll.i])
<1>1. /\ ~Polling /\ UNCHANGED <<ebKernel, ebLog, ebMain, ebServer, ebRecorded, ebRaced, ebFaults>>
      /\ ebPoll' = IF total = 0 THEN NextBucket
                   ELSE [ebPoll EXCEPT !.pc = "add", !.total = total, !.left = total]
  BY DEF PollRead, Polling
<1>2. EBTypes /\ PollKnows /\ ebPoll.i \in EBBuckets
  BY DEF EBInv, EBTypes
<1>3. total \in Nat
  BY <1>2, UnreadCounts
<1>4. \A i \in EBBuckets : SumOf(ebKernel[i]) \in Nat
  BY UnreadCounts
<1>5. CASE total = 0
  <2>1. ebPoll' = NextBucket
    BY <1>1, <1>5
  <2>2. ~Polling' /\ ebPoll'.pc # "zero"
    BY <2>1, GoesOn DEF Polling
  <2>3. EBTypes'
    <3> DEFINE p == NextBucket
    <3>1. /\ p = [pc |-> p.pc, i |-> p.i, total |-> p.total, left |-> p.left]
          /\ p.i \in EBBuckets /\ p.total \in Nat /\ p.left \in Nat
      BY GoesOn
    <3> HIDE DEF p
    <3>2. ebPoll' = p
      BY <2>1 DEF p
    <3> QED BY <1>1, <1>2, <3>1, <3>2 DEF EBTypes
  <2>4. PollKnows'
    BY <1>1, <1>2, <2>2 DEF PollKnows
  <2>5. \A i \in EBBuckets : Whereabouts(i)' = Whereabouts(i)
    BY <1>1, <2>2 DEF Whereabouts, Unread
  <2> QED BY <1>1, <2>3, <2>4, <2>5, SamePlaces DEF EBInv
<1>6. CASE total # 0
  <2>1. ebPoll' = [pc |-> "add", i |-> ebPoll.i, total |-> total, left |-> total]
    BY <1>1, <1>2, <1>6 DEF EBTypes
  <2>2. EBTypes'
    <3> HIDE DEF total
    <3> QED BY <1>1, <1>2, <1>3, <2>1 DEF EBTypes
  <2>3. PollKnows'
    <3>1. SumOf(ebKernel'[ebPoll'.i]) = total /\ ebPoll'.pc = "add" /\ ebPoll'.left = total /\ ebPoll'.total = total
      BY <1>1, <2>1
    <3> HIDE DEF total
    <3> QED BY <1>1, <1>2, <1>3, <3>1 DEF PollKnows
  <2>4. \A i \in EBBuckets : Unread(i)' = Unread(i)
    <3>1. total - total = 0
      BY <1>3
    <3>2. \A i : (IF Polling /\ ebPoll.i = i THEN ebPoll.total - ebPoll.left ELSE 0)' = 0
      BY <2>1, <3>1
    <3>3. \A i : (IF Polling /\ ebPoll.i = i THEN ebPoll.total - ebPoll.left ELSE 0) = 0
      BY <1>1
    <3> QED BY <1>1, <3>2, <3>3 DEF Unread
  <2>5. \A i \in EBBuckets : Whereabouts(i)' = Whereabouts(i)
    BY <1>1, <2>4 DEF Whereabouts
  <2> QED BY <1>1, <2>2, <2>3, <2>5, SamePlaces DEF EBInv
<1> QED BY <1>5, <1>6

\* It adds a batch to the log; what it has added is not in the kernel any more.
LEMMA PollAddStep ==
    ASSUME EBInv, PollAdd
    PROVE  EBInv'
<1> DEFINE n == IF ebPoll.left < EBBatch THEN ebPoll.left ELSE EBBatch
           b == ebPoll.i
<1>1. EBTypes /\ PollKnows /\ b \in EBBuckets /\ ebPoll.left \in Nat /\ ebPoll.total \in Nat
  BY DEF EBInv, EBTypes
<1>2. n \in Nat /\ n <= ebPoll.left
  BY <1>1, EBAssumption
<1>3. /\ ebPoll.pc = "add" /\ Polling
      /\ ebLog' = [ebLog EXCEPT ![b] = ebLog[b] + n]
      /\ ebPoll' = [ebPoll EXCEPT !.left = ebPoll.left - n, !.pc = IF ebPoll.left = n THEN "zero" ELSE "add"]
      /\ UNCHANGED <<ebKernel, ebMain, ebServer, ebRecorded, ebRaced, ebFaults>>
  BY <1>1 DEF PollAdd, Polling, EBTypes
<1> HIDE DEF n
<1>4. ebPoll' = [pc |-> IF ebPoll.left = n THEN "zero" ELSE "add", i |-> b,
                 total |-> ebPoll.total, left |-> ebPoll.left - n]
  BY <1>1, <1>3 DEF EBTypes
<1>5. /\ Polling' /\ ebPoll'.i = b /\ ebPoll'.total = ebPoll.total /\ ebPoll'.left = ebPoll.left - n
      /\ ebPoll.left - n \in Nat /\ (ebPoll'.pc = "zero" => ebPoll.left = n)
  BY <1>1, <1>2, <1>4 DEF Polling
<1>6. ebLog' \in EBCounts
  BY <1>1, <1>2, <1>3 DEF EBTypes, EBCounts
<1>7. EBTypes'
  BY <1>1, <1>3, <1>4, <1>5, <1>6 DEF EBTypes
<1>8. PollKnows'
  <2>1. /\ ebPoll.left <= ebPoll.total /\ ebPoll.total <= SumOf(ebKernel[b])
        /\ ~ebRaced => ebPoll.total = SumOf(ebKernel[b])
        /\ ebMain.pc # "post" => ebMain.snap = Zeros
    BY <1>1, <1>3 DEF PollKnows
  <2>2. ebPoll'.left <= ebPoll'.total /\ (ebPoll'.pc = "zero" => ebPoll'.left = 0)
    BY <1>1, <1>2, <1>5, <2>1
  <2> QED BY <1>3, <1>5, <2>1, <2>2 DEF PollKnows
<1>9. ASSUME NEW i \in EBBuckets PROVE Whereabouts(i)' = Whereabouts(i)
  <2>1. /\ SumOf(ebKernel[i]) \in Nat /\ ebLog[i] \in Nat /\ ebMain.snap[i] \in Nat /\ ebServer[i] \in Nat
    BY UnreadCounts
  <2>2. /\ Whereabouts(i)' = Unread(i)' + ebLog'[i] + ebMain.snap[i] + ebServer[i]
        /\ Whereabouts(i) = Unread(i) + ebLog[i] + ebMain.snap[i] + ebServer[i]
    BY <1>3 DEF Whereabouts
  <2> DEFINE S == SumOf(ebKernel[i])
  <2>3. S \in Nat
    BY <2>1
  <2>4. /\ Unread(i) = S - (IF b = i THEN ebPoll.total - ebPoll.left ELSE 0)
        /\ Unread(i)' = S - (IF b = i THEN ebPoll.total - (ebPoll.left - n) ELSE 0)
    BY <1>3, <1>5 DEF Unread
  <2>5. ebLog'[i] = IF b = i THEN ebLog[i] + n ELSE ebLog[i]
    BY <1>1, <1>3 DEF EBTypes, EBCounts
  <2> HIDE DEF S
  <2> QED BY <1>1, <1>2, <2>1, <2>2, <2>3, <2>4, <2>5
<1> QED BY <1>3, <1>7, <1>8, <1>9, SamePlaces DEF EBInv

\* It zeroes the bucket.  What was read is in the log; what a probe counted
\* since the read is lost.
LEMMA PollZeroStep ==
    ASSUME EBInv, PollZero
    PROVE  EBInv'
<1> DEFINE b == ebPoll.i
           none == [c \in EBCpu |-> 0]
           p == NextBucket
<1>1. EBTypes /\ PollKnows /\ b \in EBBuckets /\ ebPoll.left \in Nat /\ ebPoll.total \in Nat
  BY DEF EBInv, EBTypes
<1>2. /\ Polling /\ ebPoll.pc = "zero" /\ ebKernel' = [ebKernel EXCEPT ![b] = none] /\ ebPoll' = p
      /\ UNCHANGED <<ebLog, ebMain, ebServer, ebRecorded, ebRaced, ebFaults>>
  BY DEF PollZero, Polling
<1>3. none \in [EBCpu -> Nat] /\ SumOf(none) = 0
  BY Tables
<1>4. /\ p = [pc |-> p.pc, i |-> p.i, total |-> p.total, left |-> p.left]
      /\ p.i \in EBBuckets /\ p.total \in Nat /\ p.left \in Nat /\ p.pc \in {"wait", "read"}
  BY GoesOn
<1> HIDE DEF none, p
<1>5. ~Polling' /\ ebPoll'.pc # "zero"
  BY <1>2, <1>4 DEF Polling
<1>6. /\ ebKernel' \in [EBBuckets -> [EBCpu -> Nat]] /\ ebKernel'[b] = none
      /\ \A i \in EBBuckets \ {b} : ebKernel'[i] = ebKernel[i]
  BY <1>1, <1>2, <1>3 DEF EBTypes
<1>7. EBTypes'
  BY <1>1, <1>2, <1>4, <1>6 DEF EBTypes
<1>8. PollKnows'
  BY <1>1, <1>2, <1>5 DEF PollKnows
<1>9. EBAccount'
  <2> SUFFICES ASSUME ~ebFaults.unsure, NEW i \in EBBuckets
               PROVE  /\ Whereabouts(i)' <= ebRecorded[i]
                      /\ ~ebRaced => Whereabouts(i)' = ebRecorded[i]
    BY <1>2 DEF EBAccount
  <2>1. /\ Whereabouts(i) <= ebRecorded[i] /\ (~ebRaced => Whereabouts(i) = ebRecorded[i])
        /\ Whereabouts(i) = Unread(i) + ebLog[i] + ebMain.snap[i] + ebServer[i]
    BY DEF EBInv, EBAccount, Whereabouts
  <2>2. /\ Unread(i) \in Nat /\ ebLog[i] \in Nat /\ ebMain.snap[i] \in Nat /\ ebServer[i] \in Nat
        /\ ebRecorded[i] \in Nat /\ SumOf(ebKernel[i]) \in Nat
    BY UnreadCounts
  <2>3. Whereabouts(i)' = Unread(i)' + ebLog[i] + ebMain.snap[i] + ebServer[i]
    BY <1>2 DEF Whereabouts
  <2>4. Unread(i)' = SumOf(ebKernel'[i]) - 0
    BY <1>5 DEF Unread
  <2>5. CASE i = b
    <3>1. Unread(i)' = 0
      BY <1>3, <1>6, <2>4, <2>5
    <3>2. ~ebRaced => Unread(i) = 0
      <4> DEFINE S == SumOf(ebKernel[i])
      <4>1. (~ebRaced => ebPoll.total = S) /\ ebPoll.left = 0 /\ Unread(i) = S - (ebPoll.total - ebPoll.left)
        BY <1>1, <1>2, <2>5 DEF PollKnows, Unread
      <4>2. S \in Nat
        BY <2>2
      <4> HIDE DEF S
      <4> QED BY <1>1, <4>1, <4>2
    <3> QED BY <2>1, <2>2, <2>3, <3>1, <3>2
  <2>6. CASE i # b
    <3>1. Unread(i)' = Unread(i)
      BY <1>6, <2>4, <2>6 DEF Unread
    <3> QED BY <2>1, <2>2, <2>3, <3>1
  <2> QED BY <2>5, <2>6
<1> QED BY <1>7, <1>8, <1>9 DEF EBInv

\* The main loop moves the log to the snapshot, and the snapshot to the server
\* or back to the log.
LEMMA MainStep ==
    ASSUME EBInv,
           \/ Drain \/ Posted202 \/ RequestStop
           \/ \E applied \in BOOLEAN : PostFails(applied)
    PROVE  EBInv'
<1>1. EBTypes /\ PollKnows
  BY DEF EBInv
<1>2. UNCHANGED <<ebKernel, ebPoll, ebRecorded, ebRaced>>
  BY DEF Drain, Posted202, RequestStop, PostFails
<1>3. /\ Polling' = Polling /\ \A i \in EBBuckets : Unread(i)' = Unread(i)
  BY <1>2 DEF Polling, Unread
<1>4. Zeros \in EBCounts /\ \A i \in EBBuckets : Zeros[i] = 0
  BY Tables DEF Zeros
<1>5. \A f, g \in EBCounts : Plus(f, g) \in EBCounts /\ \A i \in EBBuckets : Plus(f, g)[i] = f[i] + g[i]
  BY DEF Plus, EBCounts
<1>6. \A i \in EBBuckets : /\ Unread(i) \in Nat /\ ebLog[i] \in Nat /\ ebMain.snap[i] \in Nat
                           /\ ebServer[i] \in Nat /\ ebRecorded[i] \in Nat
  BY UnreadCounts
<1>7. ASSUME ebLog' \in EBCounts, ebServer' \in EBCounts,
             ebMain' = [pc |-> ebMain'.pc, snap |-> ebMain'.snap, error |-> ebMain'.error],
             ebMain'.snap \in EBCounts, ebMain'.pc # "post" => ebMain'.snap = Zeros,
             ebFaults'.unsure \in BOOLEAN, ~ebFaults'.unsure => ~ebFaults.unsure,
             ~ebFaults'.unsure => \A i \in EBBuckets : ebLog'[i] + ebMain'.snap[i] + ebServer'[i]
                                                       = ebLog[i] + ebMain.snap[i] + ebServer[i]
      PROVE  EBInv'
  <2>1. EBTypes'
    BY <1>1, <1>2, <1>7 DEF EBTypes
  <2>2. PollKnows'
    BY <1>1, <1>2, <1>3, <1>7 DEF PollKnows
  <2>3. EBAccount'
    <3> SUFFICES ASSUME ~ebFaults'.unsure, NEW i \in EBBuckets
                 PROVE  /\ Whereabouts(i)' <= ebRecorded[i]
                        /\ ~ebRaced => Whereabouts(i)' = ebRecorded[i]
      BY <1>2 DEF EBAccount
    <3>1. /\ Whereabouts(i) <= ebRecorded[i] /\ (~ebRaced => Whereabouts(i) = ebRecorded[i])
          /\ Whereabouts(i) = Unread(i) + ebLog[i] + ebMain.snap[i] + ebServer[i]
      BY <1>7 DEF EBInv, EBAccount, Whereabouts
    <3>2. Whereabouts(i)' = Unread(i) + ebLog'[i] + ebMain'.snap[i] + ebServer'[i]
      BY <1>3 DEF Whereabouts
    <3>3. ebLog'[i] \in Nat /\ ebMain'.snap[i] \in Nat /\ ebServer'[i] \in Nat
      BY <1>7 DEF EBCounts
    <3>4. ebLog'[i] + ebMain'.snap[i] + ebServer'[i] = ebLog[i] + ebMain.snap[i] + ebServer[i]
      BY <1>7
    <3> QED BY <1>6, <3>1, <3>2, <3>3, <3>4
  <2> QED BY <2>1, <2>2, <2>3 DEF EBInv
<1>8. CASE Drain
  <2>1. UNCHANGED <<ebServer, ebFaults>> /\ ebMain.snap = Zeros /\ ebMain.pc = "wait"
    BY <1>1, <1>8 DEF Drain, PollKnows
  <2>2. CASE UNCHANGED <<ebLog, ebMain>>
    BY <1>1, <1>7, <2>1, <2>2 DEF EBTypes
  <2>3. CASE ebLog' = Zeros /\ ebMain' = [ebMain EXCEPT !.pc = "post", !.snap = ebLog]
    <3>1. ebMain' = [pc |-> "post", snap |-> ebLog, error |-> ebMain.error]
      BY <1>1, <2>3 DEF EBTypes
    <3>2. \A i \in EBBuckets : ebLog'[i] + ebMain'.snap[i] + ebServer'[i]
                               = ebLog[i] + ebMain.snap[i] + ebServer[i]
      BY <1>4, <1>6, <2>1, <2>3, <3>1
    <3> QED BY <1>1, <1>4, <1>7, <2>1, <2>3, <3>1, <3>2 DEF EBTypes
  <2> QED BY <1>8, <2>2, <2>3 DEF Drain
<1>9. CASE Posted202
  <2>1. /\ ebServer' = Plus(ebServer, ebMain.snap) /\ UNCHANGED <<ebLog, ebFaults>>
        /\ ebMain' = [pc |-> "wait", snap |-> Zeros, error |-> FALSE]
    BY <1>9 DEF Posted202
  <2>2. ebServer' \in EBCounts /\ \A i \in EBBuckets : ebServer'[i] = ebServer[i] + ebMain.snap[i]
    BY <1>1, <1>5, <2>1 DEF EBTypes
  <2>3. \A i \in EBBuckets : ebLog'[i] + ebMain'.snap[i] + ebServer'[i]
                             = ebLog[i] + ebMain.snap[i] + ebServer[i]
    BY <1>4, <1>6, <2>1, <2>2
  <2> QED BY <1>1, <1>4, <1>7, <2>1, <2>2, <2>3 DEF EBTypes
<1>10. CASE RequestStop
  <2>1. /\ ebMain.snap = Zeros /\ UNCHANGED <<ebLog, ebServer, ebFaults>>
        /\ ebMain' = [ebMain EXCEPT !.pc = "ended"]
    BY <1>1, <1>10 DEF RequestStop, PollKnows
  <2>2. ebMain' = [pc |-> "ended", snap |-> ebMain.snap, error |-> ebMain.error]
    BY <1>1, <2>1 DEF EBTypes
  <2> QED BY <1>1, <1>7, <2>1, <2>2 DEF EBTypes
<1>11. ASSUME NEW applied \in BOOLEAN, PostFails(applied) PROVE EBInv'
  <2>1. /\ ebServer' = IF applied THEN Plus(ebServer, ebMain.snap) ELSE ebServer
        /\ ebFaults' = [n |-> ebFaults.n + 1, unsure |-> ebFaults.unsure \/ applied]
        /\ ebLog' = Plus(ebLog, ebMain.snap)
        /\ ebMain' = [pc |-> "wait", snap |-> Zeros, error |-> TRUE]
    BY <1>11 DEF PostFails
  <2>2. ebLog' \in EBCounts /\ \A i \in EBBuckets : ebLog'[i] = ebLog[i] + ebMain.snap[i]
    BY <1>1, <1>5, <2>1 DEF EBTypes
  <2>3. ebServer' \in EBCounts /\ (~applied => ebServer' = ebServer)
    BY <1>1, <1>5, <2>1 DEF EBTypes
  <2>4. ebFaults'.unsure \in BOOLEAN /\ (~ebFaults'.unsure => ~ebFaults.unsure /\ ~applied)
    BY <1>1, <2>1 DEF EBTypes
  <2>5. ~ebFaults'.unsure => \A i \in EBBuckets : ebLog'[i] + ebMain'.snap[i] + ebServer'[i]
                                                  = ebLog[i] + ebMain.snap[i] + ebServer[i]
    BY <1>4, <1>6, <2>1, <2>2, <2>3, <2>4
  <2> QED BY <1>1, <1>4, <1>7, <2>1, <2>2, <2>3, <2>4, <2>5 DEF EBTypes
<1> QED BY <1>8, <1>9, <1>10, <1>11

\* For any number of CPUs, buckets, sockets and batches, and however probes,
\* the polling thread, the main loop and failing posts interleave: every
\* latency is in the right bucket of one place unless a probe raced the poll
\* or a failed post had been applied, none is invented, and the unrolled
\* search of EBSteps iterations is exact for up to 2^EBSteps buckets.
THEOREM LatenciesCountedOnce == EBSpec => []EBSafe
<1>1. EBInit => EBInv
  <2> SUFFICES ASSUME EBInit PROVE EBInv
    OBVIOUS
  <2>1. Zeros \in EBCounts /\ 1 \in EBBuckets /\ \A i \in EBBuckets : Zeros[i] = 0
    BY Tables DEF Zeros
  <2>2. EBTypes
    BY <2>1 DEF EBInit, EBTypes
  <2>3. ~Polling /\ PollKnows
    BY DEF EBInit, Polling, PollKnows
  <2>4. \A i \in EBBuckets : Unread(i) = 0
    <3>1. \A i \in EBBuckets : SumOf(ebKernel[i]) = 0
      BY Tables DEF EBInit
    <3> QED BY <2>3, <3>1 DEF Unread
  <2>5. \A i \in EBBuckets : Whereabouts(i) = 0 /\ ebRecorded[i] = 0
    BY <2>1, <2>4 DEF EBInit, Whereabouts
  <2> QED BY <2>2, <2>3, <2>5 DEF EBInv, EBAccount
<1>2. EBInv /\ [EBNext]_ebVars => EBInv'
  <2> SUFFICES ASSUME EBInv, [EBNext]_ebVars PROVE EBInv'
    OBVIOUS
  <2>1. ASSUME UNCHANGED <<ebKernel, ebPoll, ebLog, ebMain, ebServer, ebRecorded, ebRaced, ebFaults>>
        PROVE  EBInv'
    BY <2>1 DEF EBInv, EBTypes, PollKnows, EBAccount, Whereabouts, Unread, Polling
  <2>2. ASSUME NEW sk \in EBSock, trace_tcp_sendmsg(sk) \/ trace_tcp_close(sk) PROVE EBInv'
    BY <2>1, <2>2 DEF trace_tcp_sendmsg, trace_tcp_close
  <2>3. ASSUME UNCHANGED ebVars PROVE EBInv'
    BY <2>1, <2>3 DEF ebVars
  <2>4. ASSUME PollStep PROVE EBInv'
    BY <2>4, PollWaitStep, PollReadStep, PollAddStep, PollZeroStep DEF PollStep
  <2> QED BY <2>2, <2>3, <2>4, ProbeStep, MainStep DEF EBNext
<1>3. EBInv => EBSafe
  BY EBInvSafe
<1> QED BY <1>1, <1>2, <1>3, PTL DEF EBSpec

=============================================================================
