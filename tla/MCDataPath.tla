----------------------------- MODULE MCDataPath -----------------------------
(***************************************************************************)
(* The components on the way of the data, from the collectors to the       *)
(* answers: sketches, limits, request pipeline, reads, queries and tools.  *)
(* They share no state in the process (each works on its own log, file or  *)
(* table), so their interleavings with each other add nothing: a behaviour *)
(* picks one component and runs it alone, the others rest in one initial   *)
(* state.                                                                  *)
(***************************************************************************)
EXTENDS RateLimit, NativeSketch, GoSketch, WindowedLog, DriftSketch, Agent,
        OtelExporter, Rbac, ServerApi, StreamReads, Analysis, SqlEngine,
        ExitCodes, QueryStore

\* Rate limiter: the most specific quota, wildcards, each limit at its edge.
Quota(n, r, b, h, d) == [namespace |-> n, rate |-> r, burst |-> b, hourly |-> h, daily |-> d]
QuotaDefault == Quota("n", 2, 1, 0, 0)
QuotaFiles ==
    {[quotas |-> <<Quota("*", 2, 1, 0, 0), Quota("n", 2, 1, 1, 3), Quota("n", 2, 5, 5, 5)>>,
      default |-> QuotaDefault],
     [quotas |-> <<Quota("m", 2, 1, 0, 0), Quota("*", 2, 5, 0, 0), Quota("*", 1, 1, 1, 2)>>,
      default |-> QuotaDefault],
     [quotas |-> <<Quota("n", 2, 1, 3, 2)>>, default |-> QuotaDefault],
     [quotas |-> <<>>, default |-> Quota("n", 2, 2, 0, 2)],
     [quotas |-> <<>>, default |-> Quota("n", 2, 1, 3, 2)]}

\* Sketches: two logs of equal or of different accuracy, items that collide
\* in one row of the matrix and in one register, batches with bad values.
LogNames == {"a", "b"}
Alike == [l \in LogNames |-> 1]
Accuracies == {Alike, [l \in LogNames |-> IF l = "a" THEN 1 ELSE 2]}
HashColumns == <<[i \in {"x", "y"} |-> 1], [i \in {"x", "y"} |-> IF i = "x" THEN 1 ELSE 2]>>
HashBits == [i \in {"x", "y"} |-> IF i = "x" THEN <<1, 1>> ELSE <<1, 2>>]
Batches == {[v \in {1, 99} |-> 1], [v \in {0, 3, 5} |-> 1], [v \in {2, 98} |-> 1],
            [v \in {-3, 2} |-> IF v = 2 THEN 2 ELSE 1]}
Reals == {-3, -1, 0, 1, 2, 3, 5}
Indices == [m \in {1, 2, 3, 5} |-> ((m + 1) \div 2) - 1]
GoValues == {-1, 0, 1, 2, 3}
GoKeys == [v \in {1, 2, 3} |-> (v + 1) \div 2]
Quantiles == {<<0, 1>>, <<1, 2>>, <<99, 100>>, <<1, 1>>}
Values == {-1, 0, 1, 3}
Shapes == {[window |-> 4, n |-> 3], [window |-> 2, n |-> 3], [window |-> 3, n |-> 1]}

\* Agent: filters, a scale that halves, both modes, batches of one and two.
Mapping(me, s, k, e, f, sc, mo) ==
    [metric |-> me, stream |-> s, kind |-> k, event |-> e, filter |-> f, scale |-> sc,
     mode |-> mo]
Agents ==
    {[max |-> 1, mappings |-> <<Mapping("hits_total", "s1", "event", "hits", "", 2, "delta"),
                                Mapping("latency", "s1", "latency", "", "ok", 2, "delta"),
                                Mapping("hits_total", "s2", "event", "hits", "", 2, "delta")>>],
     [max |-> 2, mappings |-> <<Mapping("hits_total", "s1", "event", "hits", "ok", 2, "delta"),
                                Mapping("hits_total", "s1", "event", "half", "", 1, "delta"),
                                Mapping("latency", "s1", "latency", "", "", 2, "delta"),
                                Mapping("latency", "s2", "unique", "", "", 2, "delta"),
                                Mapping("hits_total", "s2", "event", "half", "bad", 2, "absolute")>>],
     [max |-> 0, mappings |-> <<>>]}
Targets == <<"t1", "t2">>
NotANumber == -99
Gauges == {3, NotANumber}

\* Exporter: every signal, a metric mapped twice, an invalid configuration.
Metric(n, k, e) == [name |-> n, kind |-> k, event |-> e]
Exporters ==
    {[max |-> 1, metrics |-> <<Metric("requests", "event", "r"), Metric("duration", "latency", "")>>,
      spans |-> "s", logs |-> ""],
     [max |-> 3, metrics |-> <<Metric("requests", "event", "r"), Metric("duration", "latency", "")>>,
      spans |-> "", logs |-> "l"],
     [max |-> 2, metrics |-> <<Metric("requests", "event", "r"), Metric("requests", "latency", "")>>,
      spans |-> "", logs |-> "l"],
     [max |-> 2, metrics |-> <<Metric("requests", "latency", "")>>, spans |-> "", logs |-> ""],
     [max |-> 0, metrics |-> <<>>, spans |-> "s", logs |-> ""]}
Histograms == {<<1, 0, 3>>}

\* RBAC: one token with two grants, one with a wildcard.
Grants == {[token |-> "a", role |-> "admin", spaces |-> {}],
           [token |-> "a", role |-> "read", spaces |-> {"p"}],
           [token |-> "b", role |-> "read_write", spaces |-> {"*"}],
           [token |-> "b", role |-> "ingest", spaces |-> {}]}
NoGrants == [enabled |-> FALSE, file |-> FALSE, grants |-> <<>>]

\* Request pipeline: good, bad and oversized bodies, each refusal of the
\* authorization, streams near the integer limits.
Call(k, l, w, e, v, ch) ==
    [kind |-> k, lat |-> l, wide |-> w, events |-> e, valid |-> v, chunks |-> ch,
     length |-> "absent", token |-> "team", asks |-> {"a"}]
Plain == Call("ingest", 1, FALSE, <<1, 1>>, TRUE, <<1, 1>>)
Calls ==
    {Plain, Call("ingest", 1, TRUE, <<1>>, TRUE, <<1>>), Call("ingest", 0, FALSE, <<2>>, FALSE, <<1>>),
     Call("merge", 1, FALSE, <<3>>, TRUE, <<2>>), Call("merge", 1, TRUE, <<1>>, TRUE, <<2>>),
     Call("merge", 1, TRUE, <<1>>, FALSE, <<2>>),
     [Plain EXCEPT !.chunks = <<1, 2, 1>>], [Plain EXCEPT !.chunks = <<3>>, !.length = "given"],
     [Plain EXCEPT !.length = "garbage"], [Plain EXCEPT !.token = "gone"],
     [Plain EXCEPT !.asks = {"b"}], [Plain EXCEPT !.token = "root", !.asks = {"b"}],
     [Plain EXCEPT !.token = "other"]}
Tokens == [admin |-> "root", spaces |-> [t \in {"team"} |-> {"a"}]]
Stored == {SANoLog, [lat |-> 0, ev |-> 2, total |-> 2], [lat |-> 0, ev |-> 4, total |-> 4]}
Environments == [backend : {"", "memory", "sql", "omnikv", "other"}, uri : BOOLEAN, dir : BOOLEAN]
InMemory == [backend |-> "memory", uri |-> FALSE, dir |-> FALSE]

\* Reads: two streams, one of them also at a peer, room for one.
Pairs == {<<"cur", "base">>}
AtPeers == [s \in {"cur", "base"} |-> IF s = "cur" THEN 0 ELSE 1]

\* Analysis: the default thresholds, lax ones, equal and zero thresholds.
Limits(a, b) == [warning |-> a, rollback |-> b]
Default == [p99 |-> Limits(<<10, 1>>, <<35, 1>>), ks |-> Limits(<<12, 100>>, <<30, 100>>),
            wasserstein |-> Limits(<<20, 100>>, <<60, 100>>), slo |-> Limits(<<1, 1>>, <<4, 1>>),
            anomaly |-> Limits(<<20, 100>>, <<45, 100>>), error |-> Limits(<<25, 1>>, <<100, 1>>)]
Lax == [p99 |-> Limits(<<40, 1>>, <<400, 1>>), ks |-> Limits(<<40, 100>>, <<1, 1>>),
        wasserstein |-> Limits(<<1, 1>>, <<2, 1>>), slo |-> Limits(<<1, 1>>, <<4, 1>>),
        anomaly |-> Limits(<<60, 100>>, <<60, 100>>), error |-> Limits(<<0, 1>>, <<100, 1>>)]
Wide == [Lax EXCEPT !.anomaly = Limits(<<60, 100>>, <<90, 100>>), !.error = Limits(<<5, 1>>, <<100, 1>>)]
Canary(q, b, m, n, t) == [q |-> q, budget |-> b, min |-> m, named |-> n, thresholds |-> t]
Usual == Canary(<<9, 10>>, <<1, 2>>, 1, TRUE, Default)
Canaries == {Usual, Canary(<<1, 2>>, <<1, 4>>, 2, FALSE, Wide),
             Canary(<<9, 10>>, <<1, 2>>, 2, TRUE, Wide), Canary(<<1, 2>>, <<1, 4>>, 0, TRUE, Lax)}
Latencies == {-4, 2, 4, 6}

\* SQL: every order of up to five pieces of a query, rows that do and do not
\* convert, expressions over known and unknown names.
Pieces == {<<"w">>, <<"FROM", "w">>, <<"GROUP BY", "w">>, <<"HAVING", "w">>, <<"(">>, <<")">>,
           <<"q">>, <<",">>}
Plans == {[group |-> g, selects |-> <<"x", "u">>] : g \in BOOLEAN}
InputRows == {[key |-> "a", vals |-> [x |-> "v", u |-> "v"]],
         [key |-> "b", vals |-> [x |-> "bad", u |-> "v"]],
         [key |-> "b", vals |-> [x |-> "none", u |-> "v"]]}
Const(n) == [node |-> "const", n |-> n]
Named(n) == [node |-> "name", id |-> n]
Node2(k, a, b) == [node |-> k, args |-> <<a, b>>]
Compare(as, os) == [node |-> "cmp", args |-> as, ops |-> os]
Terms == {Const(0), Const(2), Named("p"), Named("q"), Named("gone"),
          [node |-> "neg", arg |-> Named("p")], Node2("sub", Named("p"), Const(2)),
          Node2("div", Named("p"), Named("p")), [node |-> "call"]}
Chains == {Compare(<<a, b>>, <<o>>) : a \in Terms, b \in {Const(2), Named("gone")},
                                      o \in {"=", "#", "<=", ">"}}
    \union {Compare(<<a, b, d>>, <<o, p>>) :
              a, b, d \in {Const(2), Named("p"), Named("q"), Named("gone")}, o, p \in {"<", ">="}}
Simple == {Compare(<<Named(a), Const(2)>>, <<o>>) : a \in {"p", "q", "gone"}, o \in {"<", ">="}}
Expressions == Terms \union Chains
    \union {Node2(k, a, b) : k \in {"and", "or"}, a, b \in Simple}
Results == [{"p", "q"} -> 0 .. 3]

\* Regression gate: missing and malformed numbers in either file format.
Missing == -1
Malformed == -2
BenchReport(p, q, r, b, lp, lr) ==
    [kind |-> "object", flat |-> [p95 |-> p, p99 |-> q, rate |-> r, burn |-> b],
     lab |-> [p95 |-> lp, p99 |-> lp, rate |-> lr]]
Broken == [kind |-> "broken",
           flat |-> [p95 |-> Missing, p99 |-> Missing, rate |-> Missing, burn |-> Missing],
           lab |-> [p95 |-> Missing, p99 |-> Missing, rate |-> Missing]]
Reports == {Broken} \union {BenchReport(p, 10, 100, b, lp, lr) :
    p \in {Missing, Malformed, 10, 12}, b \in {Missing, 0, 3}, lp \in {Missing, 11}, lr \in {Missing, 50}}
Threshold(p, q, r, b) == [p95 |-> p, p99 |-> q, rate |-> r, burn |-> b]
Thresholds == {Threshold(10, 10, 5, 2), Threshold(0, 10, 0, 1), Threshold(10, 0, 60, 0),
               Threshold(10, 10, Malformed, 2)}

\* Database checks: each validation that fails, each warning.
Pool == [driver |-> "postgresql", pool_size |-> 5, max_overflow |-> 10, pool_timeout |-> 30,
         pool_recycle |-> 1800, expected |-> 2, connect_timeout |-> 10]
Pools == {Pool, [Pool EXCEPT !.pool_size = 0], [Pool EXCEPT !.max_overflow = 46],
          [Pool EXCEPT !.driver = "mysql", !.pool_recycle = 3601],
          [Pool EXCEPT !.driver = "sqlite", !.pool_recycle = 60, !.expected = 1],
          [Pool EXCEPT !.expected = 3]}
Versions == <<1, 2, 3>>

-----------------------------------------------------------------------------
VARIABLE running   \* the component that takes its steps

Component == {"rate limit", "sketch", "native sketch", "go sketch",
              "windowed log", "drift sketch", "agent", "exporter", "rbac",
              "api", "reads", "analysis", "sql", "gate", "database",
              "query store"}

Idle(c, choice) == running # c => choice

Init ==
    /\ running \in Component
    /\ Idle("rate limit", rlConfig = [quotas |-> <<>>, default |-> Quota("n", 2, 2, 0, 2)])
    /\ RLInit
    /\ Idle("sketch", skLog = [l \in SKLog |-> EmptyLog(1)])
    /\ SKInit
    /\ Idle("native sketch", nkLog = [l \in SKLog |-> NKEmpty(1)])
    /\ NKInit
    /\ GSInit
    /\ Idle("windowed log", wlShape = [window |-> 3, n |-> 1])
    /\ WLInit
    /\ DSInit
    /\ Idle("agent", agCfg = CHOOSE c \in Agents : c.max = 1)
    /\ AGInit
    /\ Idle("exporter", oxCfg = CHOOSE c \in Exporters : c.max = 1)
    /\ OXInit
    /\ Idle("rbac", rbConfig = NoGrants)
    /\ RBInit
    /\ Idle("api", saBackend = [asked |-> InMemory,
                          chosen |-> _configure_storage_backend(InMemory)])
    /\ SAInit
    /\ Idle("reads", srDisk = [s \in SRStreams |-> SRAbsent])
    /\ SRInit
    /\ Idle("analysis", anConf = Usual)
    /\ ANInit
    /\ Idle("sql", sqPlan = SQNoPlan /\ sqExpr = SQNoExpr)
    /\ SQInit
    /\ Idle("gate", ciBase = Broken /\ ciCand = Broken /\ ciConf = Threshold(10, 10, 5, 2))
    /\ CIInit
    /\ Idle("database", dhConf = Pool)
    /\ DHInit
    /\ QSInit

OthersRL == <<skVars, nkVars, gsVars, wlVars, dsVars, agVars, oxVars, rbVars,
              saVars, srVars, anVars, sqVars, ciVars, dhVars, qsVars>>
OthersSK == <<rlVars, nkVars, gsVars, wlVars, dsVars, agVars, oxVars, rbVars,
              saVars, srVars, anVars, sqVars, ciVars, dhVars, qsVars>>
OthersNK == <<rlVars, skVars, gsVars, wlVars, dsVars, agVars, oxVars, rbVars,
              saVars, srVars, anVars, sqVars, ciVars, dhVars, qsVars>>
OthersGS == <<rlVars, skVars, nkVars, wlVars, dsVars, agVars, oxVars, rbVars,
              saVars, srVars, anVars, sqVars, ciVars, dhVars, qsVars>>
OthersWL == <<rlVars, skVars, nkVars, gsVars, dsVars, agVars, oxVars, rbVars,
              saVars, srVars, anVars, sqVars, ciVars, dhVars, qsVars>>
OthersDS == <<rlVars, skVars, nkVars, gsVars, wlVars, agVars, oxVars, rbVars,
              saVars, srVars, anVars, sqVars, ciVars, dhVars, qsVars>>
OthersAG == <<rlVars, skVars, nkVars, gsVars, wlVars, dsVars, oxVars, rbVars,
              saVars, srVars, anVars, sqVars, ciVars, dhVars, qsVars>>
OthersOX == <<rlVars, skVars, nkVars, gsVars, wlVars, dsVars, agVars, rbVars,
              saVars, srVars, anVars, sqVars, ciVars, dhVars, qsVars>>
OthersRB == <<rlVars, skVars, nkVars, gsVars, wlVars, dsVars, agVars, oxVars,
              saVars, srVars, anVars, sqVars, ciVars, dhVars, qsVars>>
OthersSA == <<rlVars, skVars, nkVars, gsVars, wlVars, dsVars, agVars, oxVars,
              rbVars, srVars, anVars, sqVars, ciVars, dhVars, qsVars>>
OthersSR == <<rlVars, skVars, nkVars, gsVars, wlVars, dsVars, agVars, oxVars,
              rbVars, saVars, anVars, sqVars, ciVars, dhVars, qsVars>>
OthersAN == <<rlVars, skVars, nkVars, gsVars, wlVars, dsVars, agVars, oxVars,
              rbVars, saVars, srVars, sqVars, ciVars, dhVars, qsVars>>
OthersSQ == <<rlVars, skVars, nkVars, gsVars, wlVars, dsVars, agVars, oxVars,
              rbVars, saVars, srVars, anVars, ciVars, dhVars, qsVars>>
OthersCI == <<rlVars, skVars, nkVars, gsVars, wlVars, dsVars, agVars, oxVars,
              rbVars, saVars, srVars, anVars, sqVars, dhVars, qsVars>>
OthersDH == <<rlVars, skVars, nkVars, gsVars, wlVars, dsVars, agVars, oxVars,
              rbVars, saVars, srVars, anVars, sqVars, ciVars, qsVars>>
OthersQS == <<rlVars, skVars, nkVars, gsVars, wlVars, dsVars, agVars, oxVars,
              rbVars, saVars, srVars, anVars, sqVars, ciVars, dhVars>>

vars == <<running, rlVars, OthersRL>>

Next ==
    /\ UNCHANGED running
    /\ \/ running = "rate limit" /\ RLNext /\ UNCHANGED OthersRL
       \/ running = "sketch" /\ SKNext /\ UNCHANGED OthersSK
       \/ running = "native sketch" /\ NKNext /\ UNCHANGED OthersNK
       \/ running = "go sketch" /\ GSNext /\ UNCHANGED OthersGS
       \/ running = "windowed log" /\ WLNext /\ UNCHANGED OthersWL
       \/ running = "drift sketch" /\ DSNext /\ UNCHANGED OthersDS
       \/ running = "agent" /\ AGNext /\ UNCHANGED OthersAG
       \/ running = "exporter" /\ OXNext /\ UNCHANGED OthersOX
       \/ running = "rbac" /\ RBNext /\ UNCHANGED OthersRB
       \/ running = "api" /\ SANext /\ UNCHANGED OthersSA
       \/ running = "reads" /\ SRNext /\ UNCHANGED OthersSR
       \/ running = "analysis" /\ ANNext /\ UNCHANGED OthersAN
       \/ running = "sql" /\ SQNext /\ UNCHANGED OthersSQ
       \/ running = "gate" /\ CINext /\ UNCHANGED OthersCI
       \/ running = "database" /\ DHNext /\ UNCHANGED OthersDH
       \/ running = "query store" /\ QSNext /\ UNCHANGED OthersQS

Spec == Init /\ [][Next]_vars

=============================================================================
