----------------------------- MODULE SqlEngine -----------------------------
(***************************************************************************)
(* Streaming SQL (sql.py): the parser that cuts a query into clauses, the  *)
(* engine that hashes rows into one StreamLog per group, from several      *)
(* threads, and the evaluation of HAVING.  A query is a sequence of tokens *)
(* after SELECT: the other keywords, "w" for any word, parentheses, commas *)
(* and "q" for a quote.  What a log holds is the set of the <<row, column  *)
(* of the select list>> that were added to it.                             *)
(***************************************************************************)
EXTENDS Integers, Sequences, SequencesExt, FiniteSets, FiniteSetsExt

CONSTANTS
    SQFragment,   \* the pieces a query is put together from
    SQPieces,     \* bound: pieces of a query
    SQPlan,       \* plans of the engine, [group : BOOLEAN, selects : Seq of columns]
    SQThread,     \* threads that add rows
    SQRow,        \* rows, [key, value of each column]
    SQMaxRows,    \* bound: rows added
    SQExpr,       \* HAVING expressions
    SQResult      \* result rows HAVING is evaluated on, [name -> Int]

VARIABLES
    sqQuery,      \* the query typed so far, as pieces
    sqPlan,       \* the running engine's plan
    sqGroups,     \* key -> index of its log, 0 if it has none
    sqLogs,       \* the logs created
    sqAdding,     \* thread -> what its add_row is doing
    sqRows,       \* the rows handed to add_row
    sqExpr        \* an expression and a result row

sqVars == <<sqQuery, sqPlan, sqGroups, sqLogs, sqAdding, sqRows, sqExpr>>

-----------------------------------------------------------------------------
(* One linear scan: stop at the first t outside quotes and parentheses;    *)
(* a closing parenthesis too many is an error, and so is what is left open *)
(* at the end.  0 is "not found", -1 the error.                            *)
ScanStart(from) == [at |-> from, depth |-> 0, quote |-> FALSE, hit |-> 0]
ScanStep(t, s, c) ==
    IF s.hit # 0 THEN s
    ELSE LET n == [s EXCEPT !.at = @ + 1]
         IN IF s.quote THEN [n EXCEPT !.quote = c # "q"]
            ELSE IF c = "q" THEN [n EXCEPT !.quote = TRUE]
            ELSE IF c = "(" THEN [n EXCEPT !.depth = @ + 1]
            ELSE IF c = ")" THEN IF s.depth = 0 THEN [n EXCEPT !.hit = -1]
                                 ELSE [n EXCEPT !.depth = @ - 1]
            ELSE IF s.depth = 0 /\ c = t THEN [n EXCEPT !.hit = s.at]
            ELSE n
ScanEnd(s) == IF s.hit = 0 /\ (s.quote \/ s.depth # 0) THEN -1 ELSE s.hit
_find_keyword(text, t, from) ==
    ScanEnd(FoldLeft(LAMBDA s, c : ScanStep(t, s, c), ScanStart(from),
                     SubSeq(text, from, Len(text))))

(* The parts between top-level commas; an empty part is an error.          *)
SplitStep(s, c) ==
    IF s.bad THEN s
    ELSE LET kept == [s EXCEPT !.part = Append(@, c)]
         IN IF s.quote THEN [kept EXCEPT !.quote = c # "q"]
            ELSE IF c = "q" THEN [kept EXCEPT !.quote = TRUE]
            ELSE IF c = "(" THEN [kept EXCEPT !.depth = @ + 1]
            ELSE IF c = ")" THEN [kept EXCEPT !.depth = @ - 1, !.bad = s.depth = 0]
            ELSE IF c = "," /\ s.depth = 0
                 THEN [s EXCEPT !.parts = Append(@, s.part), !.part = <<>>, !.bad = s.part = <<>>]
            ELSE kept
SplitEnd(s) == IF s.bad \/ s.quote \/ s.depth # 0 \/ s.part = <<>> THEN <<>>
               ELSE Append(s.parts, s.part)
_split_top_level(text) ==
    SplitEnd(FoldLeft(SplitStep, [parts |-> <<>>, part |-> <<>>, depth |-> 0,
                                  quote |-> FALSE, bad |-> FALSE], text))

SQRefused == [ok |-> FALSE]
Between(text, i, j) == SubSeq(text, i + 1, j - 1)

Clauses(text, from, group, having) ==
    LET end == Len(text) + 1
        stops == {i \in {group, having} : i > 0}
    IN [select |-> Between(text, 0, from),
        from |-> Between(text, from, IF stops = {} THEN end ELSE Min(stops)),
        group |-> IF group > 0 THEN Between(text, group, IF having > 0 THEN having ELSE end)
                  ELSE <<>>,
        having |-> IF having > 0 THEN Between(text, having, end) ELSE <<>>]

Accept(c, grouped, filtered, selects, keys) ==
    IF \/ c.select = <<>> \/ c.from = <<>>
       \/ (grouped /\ c.group = <<>>) \/ (filtered /\ c.having = <<>>)
       \/ selects = <<>> \/ (grouped /\ keys = <<>>)
    THEN SQRefused
    ELSE [ok |-> TRUE, clauses |-> c, grouped |-> grouped, filtered |-> filtered,
          selects |-> selects, keys |-> keys]
Cut(text, from, group, having) ==
    IF from <= 0 \/ group < 0 \/ having < 0 \/ (group > 0 /\ having > 0 /\ having < group)
    THEN SQRefused
    ELSE LET c == Clauses(text, from, group, having)
         IN Accept(c, group > 0, having > 0, _split_top_level(c.select),
                   IF group > 0 THEN _split_top_level(c.group) ELSE <<>>)
parse(text) ==
    LET from == _find_keyword(text, "FROM", 1)
    IN Cut(text, from, _find_keyword(text, "GROUP BY", from + 1),
           _find_keyword(text, "HAVING", from + 1))

-----------------------------------------------------------------------------
(* HAVING.  A value is an integer, TRUE being 1; anything the evaluator    *)
(* does not know, a missing name or a division by zero is an error.  The   *)
(* operands of and and or are all evaluated; a chain of comparisons stops  *)
(* at the first that fails.  Quotients are taken where they are whole.     *)
RECURSIVE _evaluate_node(_, _)

Fails == [err |-> TRUE, val |-> 0]
Yields(n) == [err |-> FALSE, val |-> n]
Truth(b) == Yields(IF b THEN 1 ELSE 0)
Holds(op, a, b) == CASE op = "=" -> a = b [] op = "#" -> a # b [] op = "<" -> a < b
                     [] op = "<=" -> a <= b [] op = ">" -> a > b [] op = ">=" -> a >= b

ChainStep(ops, s, i, x) ==
    IF s.done THEN s
    ELSE IF x.err THEN [done |-> TRUE, out |-> Fails, left |-> 0]
    ELSE IF Holds(ops[i], s.left, x.val) THEN [s EXCEPT !.left = x.val]
    ELSE [done |-> TRUE, out |-> Truth(FALSE), left |-> 0]
Chain(ops, s, i, x) == ChainStep(ops, s, i, x)

_evaluate_node(e, row) ==
    CASE e.node = "const" -> Yields(e.n)
      [] e.node = "name" -> IF e.id \in DOMAIN row THEN Yields(row[e.id]) ELSE Fails
      [] e.node = "neg" -> LET x == _evaluate_node(e.arg, row)
                           IN IF x.err THEN Fails ELSE Yields(-x.val)
      [] e.node \in {"and", "or"} ->
           LET xs == {_evaluate_node(e.args[i], row) : i \in DOMAIN e.args}
           IN IF \E x \in xs : x.err THEN Fails
              ELSE Truth(IF e.node = "and" THEN \A x \in xs : x.val # 0
                                           ELSE \E x \in xs : x.val # 0)
      [] e.node \in {"sub", "div"} ->
           LET x == _evaluate_node(e.args[1], row)
               y == _evaluate_node(e.args[2], row)
           IN IF x.err \/ y.err \/ (e.node = "div" /\ y.val = 0) THEN Fails
              ELSE Yields(IF e.node = "sub" THEN x.val - y.val ELSE x.val \div y.val)
      [] e.node = "cmp" ->
           LET first == _evaluate_node(e.args[1], row)
               step(s, i) == Chain(e.ops, s, i, _evaluate_node(e.args[i + 1], row))
           IN IF first.err THEN Fails
              ELSE FoldLeft(step, [done |-> FALSE, out |-> Truth(TRUE), left |-> first.val],
                            [i \in DOMAIN e.ops |-> i]).out
      [] OTHER -> Fails

_eval_having(e, row) == LET x == _evaluate_node(e, row) IN ~x.err /\ x.val # 0

-----------------------------------------------------------------------------
SQNoPlan == [group |-> FALSE, selects |-> <<>>]
SQNoExpr == [e |-> [node |-> "const", n |-> 0], row |-> <<>>]
SQIdle == [pc |-> "idle", row |-> 0, log |-> 0, at |-> 0]
Keys == {r.key : r \in SQRow}
SQGlobal == 1    \* global_log

SQInit ==
    /\ sqQuery = <<>>
    /\ sqGroups = [k \in Keys |-> 0] /\ sqLogs = <<{}>>
    /\ sqAdding = [t \in SQThread |-> SQIdle] /\ sqRows = <<>>
    /\ \/ sqPlan = SQNoPlan /\ sqExpr = SQNoExpr
       \/ sqPlan \in SQPlan /\ sqExpr = SQNoExpr
       \/ sqPlan = SQNoPlan /\ sqExpr \in [e : SQExpr, row : SQResult]

Type(f) ==
    /\ sqPlan = SQNoPlan /\ sqExpr = SQNoExpr /\ Len(sqQuery) < SQPieces
    /\ sqQuery' = Append(sqQuery, f)
    /\ UNCHANGED <<sqPlan, sqGroups, sqLogs, sqAdding, sqRows, sqExpr>>

AddRowCall(t, r) ==
    /\ sqPlan \in SQPlan /\ sqAdding[t].pc = "idle" /\ Len(sqRows) < SQMaxRows
    /\ sqRows' = Append(sqRows, r)
    /\ sqAdding' = [sqAdding EXCEPT ![t] = [SQIdle EXCEPT !.pc = "look", !.row = Len(sqRows) + 1]]
    /\ UNCHANGED <<sqQuery, sqPlan, sqGroups, sqLogs, sqExpr>>

(* The group is looked up and created under the engine's lock.             *)
LookupGroupUnlocked(t) ==    \* the test and the insertion are two steps
    LET a == sqAdding[t]
        k == sqRows[a.row].key
    IN /\ \/ /\ a.pc = "look"
             /\ sqAdding' = [sqAdding EXCEPT ![t].log = IF sqPlan.group THEN sqGroups[k] ELSE SQGlobal,
                               ![t].pc = IF sqPlan.group /\ sqGroups[k] = 0 THEN "make" ELSE "add",
                               ![t].at = 1]
             /\ UNCHANGED <<sqGroups, sqLogs>>
          \/ /\ a.pc = "make"
             /\ sqLogs' = Append(sqLogs, {})
             /\ sqGroups' = [sqGroups EXCEPT ![k] = Len(sqLogs) + 1]
             /\ sqAdding' = [sqAdding EXCEPT ![t].log = Len(sqLogs) + 1, ![t].pc = "add"]
       /\ UNCHANGED <<sqQuery, sqPlan, sqRows, sqExpr>>
LookupGroup(t) ==
    LET a == sqAdding[t]
        k == sqRows[a.row].key
        fresh == sqPlan.group /\ sqGroups[k] = 0
        log == IF ~sqPlan.group THEN SQGlobal ELSE IF fresh THEN Len(sqLogs) + 1 ELSE sqGroups[k]
    IN /\ a.pc = "look"
       /\ sqLogs' = IF fresh THEN Append(sqLogs, {}) ELSE sqLogs
       /\ sqGroups' = IF fresh THEN [sqGroups EXCEPT ![k] = log] ELSE sqGroups
       /\ sqAdding' = [sqAdding EXCEPT ![t].log = log, ![t].pc = "add", ![t].at = 1]
       /\ UNCHANGED <<sqQuery, sqPlan, sqRows, sqExpr>>

(* The next expression of the select list.  A column the row does not have *)
(* is skipped, a latency that float() refuses ends the call.               *)
AddSelected(t) ==
    LET a == sqAdding[t]
        col == sqPlan.selects[a.at]
        val == sqRows[a.row].vals[col]
        last == a.at = Len(sqPlan.selects)
    IN /\ a.pc = "add"
       /\ sqLogs' = IF val \in {"none", "bad"} THEN sqLogs
                    ELSE [sqLogs EXCEPT ![a.log] = @ \cup {<<a.row, a.at>>}]
       /\ sqAdding' = [sqAdding EXCEPT ![t] = IF last \/ val = "bad" THEN SQIdle
                                              ELSE [@ EXCEPT !.at = @ + 1]]
       /\ UNCHANGED <<sqQuery, sqPlan, sqGroups, sqRows, sqExpr>>

SQNext ==
    \/ \E f \in SQFragment : Type(f)
    \/ \E t \in SQThread : \/ \E r \in SQRow : AddRowCall(t, r)
                           \/ LookupGroup(t) \/ AddSelected(t)

(* execute_query reports the logs the groups map to, or the global one.    *)
Reported == IF sqPlan.group THEN {sqGroups[k] : k \in Keys} \ {0} ELSE {SQGlobal}

-----------------------------------------------------------------------------
Quotes(s) == Cardinality({i \in DOMAIN s : s[i] = "q"})
Outside(s, c) == {i \in DOMAIN s : s[i] = c /\ Quotes(SubSeq(s, 1, i - 1)) % 2 = 0}
Closed(s) == /\ Quotes(s) % 2 = 0
             /\ Cardinality(Outside(s, "(")) = Cardinality(Outside(s, ")"))
Joined(parts) == FoldLeft(LAMBDA acc, x : IF acc = <<>> THEN x ELSE acc \o <<",">> \o x,
                          <<>>, parts)
Lossless(text, p) ==
    p.ok =>
      /\ text = p.clauses.select \o <<"FROM">> \o p.clauses.from
                \o (IF p.grouped THEN <<"GROUP BY">> \o p.clauses.group ELSE <<>>)
                \o (IF p.filtered THEN <<"HAVING">> \o p.clauses.having ELSE <<>>)
      /\ Closed(p.clauses.select) /\ Closed(p.clauses.from) /\ Closed(p.clauses.group)
      /\ Joined(p.selects) = p.clauses.select /\ Joined(p.keys) = p.clauses.group
(* An accepted query loses nothing: its clauses, put back together with    *)
(* the keywords, are the query, the select list and the group keys are     *)
(* their parts joined by commas, and every clause up to HAVING has its     *)
(* quotes and parentheses closed, so no keyword was taken from a string or *)
(* from an argument.                                                       *)
SQParseLossless ==
    LET text == FlattenSeq(sqQuery) IN Lossless(text, parse(text))

(* A row is never lost to a log nobody reports: whatever threads created   *)
(* groups meanwhile, the log a row goes to is the one its key maps to, and *)
(* every row is in one log only.                                           *)
SQRowsReported ==
    /\ \A t \in SQThread : sqAdding[t].log # 0 => sqAdding[t].log \in Reported
    /\ \A i, j \in DOMAIN sqLogs : i # j =>
         {x[1] : x \in sqLogs[i]} \cap {x[1] : x \in sqLogs[j]} = {}
    /\ \A i \in DOMAIN sqLogs : sqLogs[i] # {} => i \in Reported

(* HAVING lets a row pass only if the condition is true in SQL's logic of  *)
(* three values, where a missing name or an error is unknown: a chain of   *)
(* comparisons is the conjunction of its neighbours.                       *)
SQHavingSound ==
    LET RECURSIVE sql(_)
        plain(e) == _evaluate_node(e, sqExpr.row)
        sql(e) ==
            CASE e.node = "and" -> LET xs == {sql(e.args[i]) : i \in DOMAIN e.args}
                                   IN IF "no" \in xs THEN "no" ELSE IF "unknown" \in xs THEN "unknown" ELSE "yes"
              [] e.node = "or" -> LET xs == {sql(e.args[i]) : i \in DOMAIN e.args}
                                  IN IF "yes" \in xs THEN "yes" ELSE IF "unknown" \in xs THEN "unknown" ELSE "no"
              [] e.node = "cmp" ->
                   LET pair(i) == LET x == plain(e.args[i])
                                      y == plain(e.args[i + 1])
                                  IN IF x.err \/ y.err THEN "unknown"
                                     ELSE IF Holds(e.ops[i], x.val, y.val) THEN "yes" ELSE "no"
                       xs == {pair(i) : i \in DOMAIN e.ops}
                   IN IF "no" \in xs THEN "no" ELSE IF "unknown" \in xs THEN "unknown" ELSE "yes"
              [] OTHER -> LET x == plain(e) IN IF x.err THEN "unknown" ELSE IF x.val # 0 THEN "yes" ELSE "no"
    IN _eval_having(sqExpr.e, sqExpr.row) => sql(sqExpr.e) = "yes"

(* What streaming SQL promises: clauses that lose nothing of the query,    *)
(* every row in one reported group, and no group that HAVING should have   *)
(* kept out.                                                               *)
SQSafe == SQParseLossless /\ SQRowsReported /\ SQHavingSound

=============================================================================
