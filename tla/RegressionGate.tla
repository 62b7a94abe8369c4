--------------------------- MODULE RegressionGate ---------------------------
(***************************************************************************)
(* The CI regression gate (ci_regression.py): two benchmark files are      *)
(* read, compared against percentage thresholds, the results are written   *)
(* and an exit code tells the pipeline to go on or to stop.                *)
(* A file is "broken" or an object with metrics at its root (flat) and     *)
(* below scenarios (lab); a metric is missing, not a number, or a natural. *)
(***************************************************************************)
EXTENDS Integers, FiniteSets

CONSTANTS
    CIFile,      \* the benchmark files
    CIConf,      \* thresholds, [p95, p99, rate in percent, burn]
    CIMissing,   \* a metric that is absent
    CIBad        \* a metric that is not a finite number

CIValue == Int \cup {CIMissing, CIBad}

(* A file is read as an object or not at all, and a number is one the       *)
(* comparisons can be made with; CIMissing and CIBad stand for the others.   *)
ASSUME CIAssumption ==
    /\ \A f \in CIFile : /\ f.kind \in {"object", "broken"}
                         /\ \A m \in {"p95", "p99", "rate"} : {f.flat[m], f.lab[m]} \subseteq CIValue
                         /\ f.flat.burn \in CIValue
    /\ \A c \in CIConf : /\ DOMAIN c = {"p95", "p99", "rate", "burn"}
                         /\ \A m \in DOMAIN c : c[m] \in CIValue

VARIABLES ciBase, ciCand, ciConf, ciPc, ciSeen, ciOut, ciExit
ciVars == <<ciBase, ciCand, ciConf, ciPc, ciSeen, ciOut, ciExit>>

-----------------------------------------------------------------------------
Number(x) == x \notin {CIMissing, CIBad}
_safe_float(x, default) == IF Number(x) THEN x ELSE default

(* Python's or: a missing value and a zero give way to the next one.       *)
Or(x, y) == IF x = CIMissing \/ x = 0 THEN y ELSE x

(* A latency at the root wins over the one of the scenario.                *)
LatencyOf(f, m) ==
    IF f.flat[m] # CIMissing THEN _safe_float(f.flat[m], 0)
    ELSE _safe_float(Or(f.lab[m], f.flat[m]), 0)
BurnOf(f) == _safe_float(f.flat.burn, 1)
_load_bench_file(f) ==
    [p95 |-> LatencyOf(f, "p95"), p99 |-> LatencyOf(f, "p99"),
     rate |-> _safe_float(Or(f.lab.rate, f.flat.rate), 0), burn |-> BurnOf(f)]

(* candidate more than limit percent above baseline; nothing is above a    *)
(* baseline of zero.                                                       *)
_pct_change(b, c, limit) == b # 0 /\ (c - b) * 100 > limit * b
RateDrops(b, c, limit) == b # 0 /\ (b - c) * 100 > limit * b
BurnAbove(b, c, limit) == IF b > 0 THEN c > limit * b ELSE 1 > limit

(* A threshold of zero switches its check off.                             *)
compare(b, c, conf) ==
    IF \/ conf.p95 > 0 /\ _pct_change(b.p95, c.p95, conf.p95)
       \/ conf.p99 > 0 /\ _pct_change(b.p99, c.p99, conf.p99)
       \/ conf.rate > 0 /\ RateDrops(b.rate, c.rate, conf.rate)
       \/ conf.burn > 0 /\ BurnAbove(b.burn, c.burn, conf.burn)
    THEN "FAIL" ELSE "PASS"

ValidThresholds(conf) == \A m \in DOMAIN conf : Number(conf[m]) /\ conf[m] >= 0

-----------------------------------------------------------------------------
CIInit ==
    /\ ciBase \in CIFile /\ ciCand \in CIFile /\ ciConf \in CIConf
    /\ ciPc = "config" /\ ciSeen = "none" /\ ciOut = {} /\ ciExit = 9

Exit(code) == ciPc' = "done" /\ ciExit' = code
Goto(pc) == ciPc' = pc /\ UNCHANGED ciExit

Config ==
    /\ ciPc = "config"
    /\ IF ValidThresholds(ciConf) THEN Goto("load") ELSE Exit(2)
    /\ UNCHANGED <<ciBase, ciCand, ciConf, ciSeen, ciOut>>
Load ==
    /\ ciPc = "load"
    /\ IF ciBase.kind = "broken" \/ ciCand.kind = "broken"
       THEN Exit(1) /\ UNCHANGED ciSeen
       ELSE /\ ciSeen' = compare(_load_bench_file(ciBase), _load_bench_file(ciCand), ciConf)
            /\ Goto("json")
    /\ UNCHANGED <<ciBase, ciCand, ciConf, ciOut>>
Write(what, next) ==
    /\ ciPc = what
    /\ \/ /\ ciOut' = ciOut \cup {what}
          /\ IF next = "exit" THEN Exit(IF ciSeen = "PASS" THEN 0 ELSE 1) ELSE Goto(next)
       \/ Exit(1) /\ UNCHANGED ciOut      \* OSError
    /\ UNCHANGED <<ciBase, ciCand, ciConf, ciSeen>>

CINext == Config \/ Load \/ Write("json", "summary") \/ Write("summary", "exit")

-----------------------------------------------------------------------------
(* The pipeline goes on only on evidence: exit code 0 means that both      *)
(* files were read, that no enabled threshold was exceeded and that both   *)
(* result files were written.                                              *)
CIExitHonest ==
    ciExit = 0 => /\ ciBase.kind = "object" /\ ciCand.kind = "object"
                  /\ ciSeen = "PASS" /\ ciOut = {"json", "summary"}

(* The gate is monotone: a candidate at least as good in every metric as   *)
(* one that passes passes too.                                             *)
CIMonotone ==
    ciPc = "json" /\ ciSeen = "PASS" =>
        LET b == _load_bench_file(ciBase)
            c == _load_bench_file(ciCand)
        IN \A f \in {x \in CIFile : x.kind = "object"} :
             LET d == _load_bench_file(f)
             IN d.p95 <= c.p95 /\ d.p99 <= c.p99 /\ d.rate >= c.rate /\ d.burn <= c.burn
                  => compare(b, d, ciConf) = "PASS"

(* What the regression gate promises: a pass rests on evidence, and a      *)
(* better candidate never fares worse.                                     *)
CISafe == CIExitHonest /\ CIMonotone

=============================================================================
