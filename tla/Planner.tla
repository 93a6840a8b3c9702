------------------------------ MODULE Planner -------------------------------
(***************************************************************************)
(* How a statement over one table finds its rows: the scan filters and the  *)
(* predicate made of a WHERE clause (sql.rs), the access path, the unnested *)
(* subquery, the compiled and the batched pipeline the optimizer chooses,   *)
(* and the executors that run them (executor.rs, jit.rs, vectorized.rs).    *)
(* A behaviour is one statement: it is opened, pulled row by row, and       *)
(* writes row by row when it changes the table.                             *)
(*                                                                          *)
(* Texts lists the values used in the order of their texts, where 10.5 is   *)
(* before 9; a number is spelt with a ".0" in the table T only.             *)
(***************************************************************************)
EXTENDS Expressions, Sequences, FiniteSets, SequencesExt, FiniteSetsExt

CONSTANTS
  Predicates,    \* a sequence of WHERE clauses
  Statements,    \* [kind, col, distinct, limit, set, idx, large]
  Databases      \* the contents of the tables T and U the statements begin with

VARIABLES
  q,             \* the statement: [stmt, pred]
  db,            \* table -> its rows, as the statement's transaction sees them
  db0,           \* history: the tables when the statement began
  run            \* [phase, err, plan, order, keys, queue, out]

vars == <<q, db, db0, run>>

NameText == 99
Texts == <<Null, 0, 2, Spelt(2), 3, 21, 18, NameText>>
Place(v) == CHOOSE i \in DOMAIN Texts : Texts[i] = v
Pk == [T |-> "p", U |-> "q"]
IndexColumn == [T |-> "x", U |-> "z"]

-----------------------------------------------------------------------------
(* Planning.                                                                 *)
\* flatten_and_predicates: `name op text` of every conjunct, where a column that is
\* written bare will do for the text.  Anything else and there are no filters.
Filter(c, op, v) == [c |-> c, op |-> op, v |-> v]
Unsupported == Filter("", "", 0)
Flipped(op) == CASE op = "<" -> ">" [] op = ">" -> "<" [] OTHER -> op
expr_ident(e) == e.k \in {"col", "outer"}
expr_literal(e) == e.k = "lit" \/ (e.k = "col" /\ e.bare)
LiteralText(e) == IF e.k = "lit" THEN e.n ELSE NameText

RECURSIVE flatten_and_predicates(_)
flatten_and_predicates(e) ==
  CASE e.k = "and" -> flatten_and_predicates(e.l) \union flatten_and_predicates(e.r)
    [] e.k = "cmp" /\ expr_ident(e.l) /\ expr_literal(e.r) -> {Filter(e.l.c, e.op, LiteralText(e.r))}
    [] e.k = "cmp" /\ ~(expr_ident(e.l) /\ expr_literal(e.r)) /\ expr_literal(e.l) /\ expr_ident(e.r) ->
         {Filter(e.r.c, Flipped(e.op), LiteralText(e.l))}
    [] OTHER -> {Unsupported}

plan_where(e) ==
  LET filters == flatten_and_predicates(e)
  IN IF e = Nothing \/ expression_has_subquery(e) \/ Unsupported \in filters THEN {} ELSE filters

\* A filter compares integers when both sides are, and otherwise texts.
matches_filter(row, f) ==
  /\ f.c \in DOMAIN row
  /\ IF is_int(row[f.c]) /\ is_int(f.v)
     THEN Compare(f.op, row[f.c], f.v)
     ELSE Compare(f.op, Place(row[f.c]), Place(f.v))

\* The literals a column must equal, in the order of the conjuncts.
RECURSIVE match_column_equality(_, _)
match_column_equality(e, c) ==
  LET is(x, y) == x.k = "col" /\ x.c = c /\ y.k = "lit"
  IN CASE e.k = "and" -> match_column_equality(e.l, c) \o match_column_equality(e.r, c)
       [] e.k = "cmp" /\ e.op = "=" /\ is(e.l, e.r) -> <<e.r.n>>
       [] e.k = "cmp" /\ e.op = "=" /\ is(e.r, e.l) -> <<e.l.n>>
       [] OTHER -> << >>
is_bare_column_equality(e, c) == e.k = "cmp" /\ match_column_equality(e, c) # << >>

filter_or_apply(e) == IF predicate_has_correlated(e) THEN "apply" ELSE "filter"

Access(tab, path, key, filters, mode, pred) ==
  [tab |-> tab, path |-> path, key |-> key, filters |-> filters, mode |-> mode, pred |-> pred]

\* Mutant: what an index finds is not tested again.
optimize_table_access_unfiltered(tab, filters, e, idx) ==
  LET pk == match_column_equality(e, Pk[tab])
      sec == IF tab \in idx THEN match_column_equality(e, IndexColumn[tab]) ELSE << >>
  IN IF e = Nothing THEN Access(tab, "scan", Null, filters, "all", e)
     ELSE IF pk # << >> THEN Access(tab, "pk", Head(pk), {}, "all", e)
     ELSE IF sec # << >> THEN Access(tab, "index", Head(sec), {}, "all", e)
     ELSE Access(tab, "scan", Null, filters, filter_or_apply(e), e)

\* idx: the tables with a secondary index the statistics prefer.
optimize_table_access(tab, filters, e, idx) ==
  LET pk == match_column_equality(e, Pk[tab])
      sec == IF tab \in idx THEN match_column_equality(e, IndexColumn[tab]) ELSE << >>
  IN IF e = Nothing THEN Access(tab, "scan", Null, filters, "all", e)
     ELSE IF pk # << >> THEN Access(tab, "pk", Head(pk), {}, "all", e)
     ELSE IF sec # << >>
     THEN Access(tab, "index", Head(sec), {},
                 IF is_bare_column_equality(e, IndexColumn[tab]) THEN "all" ELSE filter_or_apply(e), e)
     ELSE Access(tab, "scan", Null, filters, filter_or_apply(e), e)

\* maybe_attach_vectorized, maybe_attach_jit: a filtered scan at the root of a plan, or
\* any scan below a global aggregate at the root; in batches when the statistics say
\* the table is large.
attach(a, agg, large) ==
  IF /\ a.path = "scan"
     /\ \/ a.mode = "filter" /\ is_jit_compilable(a.pred)
        \/ a.mode = "all" /\ agg # "none"
  THEN [a EXCEPT !.mode = IF a.tab \in large THEN "vector" ELSE "jit"]
  ELSE a

\* A subquery is a projection of U, unless it selects *.
plan_subquery(sub, filters, idx) ==
  LET a == optimize_table_access("U", filters, sub.pred, idx)
  IN IF sub.star THEN attach(a, "none", {}) ELSE a

\* split_equi_outer_ref: the first `column = outer reference`, and the other side of
\* the outermost AND it is under.
RECURSIVE split_equi_outer_ref(_)
split_equi_outer_ref(e) ==
  LET found(o, i, rest) == <<[outer |-> o, inner |-> i, rest |-> rest]>>
  IN CASE e.k = "cmp" /\ e.op = "=" /\ e.l.k = "col" /\ e.r.k = "outer" -> found(e.r.c, e.l.c, Nothing)
       [] e.k = "cmp" /\ e.op = "=" /\ e.l.k = "outer" /\ e.r.k = "col" -> found(e.l.c, e.r.c, Nothing)
       [] e.k = "and" ->
            LET l == split_equi_outer_ref(e.l)
                r == split_equi_outer_ref(e.r)
            IN IF l # << >> THEN found(l[1].outer, l[1].inner, e.r)
               ELSE IF r # << >> THEN found(r[1].outer, r[1].inner, e.l) ELSE << >>
       [] OTHER -> << >>

\* extract_single_equi_outer_ref.
extract(sub) == IF plan_where(sub.pred) = {} THEN split_equi_outer_ref(sub.pred) ELSE << >>

Plan(a) == [a |-> a, join |-> "none", right |-> a, left_key |-> Nothing, right_key |-> ""]

\* try_subquery_unnest, and the plan of a SELECT.
optimize_select(e, idx, large) ==
  LET join(neg, right, lk, rk) ==
        [a |-> optimize_table_access("T", {}, Nothing, idx), join |-> IF neg THEN "anti" ELSE "semi",
         right |-> right, left_key |-> lk, right_key |-> rk]
      equi == extract(e.sub)[1]
      unnested == join(e.neg, attach(optimize_table_access("U", {}, equi.rest, idx), "none", large),
                       Col(equi.outer, FALSE), equi.inner)
      correlated == plan_is_correlated(e.sub)
  IN CASE e.k = "insub" /\ ~correlated ->
            join(e.neg, plan_subquery(e.sub, plan_where(e.sub.pred), idx), e.e, e.sub.col)
       [] e.k = "exists" /\ correlated /\ extract(e.sub) # << >> -> unnested
       [] e.k = "insub" /\ correlated /\ extract(e.sub) # << >>
            /\ e.e.k = "col" /\ e.e.c = equi.outer /\ e.sub.col = equi.inner -> unnested
       [] OTHER -> Plan(optimize_table_access("T", plan_where(e), e, idx))

Aggregates == {"count", "count_x", "sum_x"}

\* optimize_with_catalog: the pipelines are attached at the root only, which a LIMIT,
\* a projection or DISTINCT, and UPDATE and DELETE, move away from the scan.
optimize_with_catalog(stmt, e) ==
  LET select == optimize_select(e, stmt.idx, stmt.large)
      root == [select EXCEPT !.a = attach(@, IF stmt.kind = "select" THEN "none" ELSE stmt.kind, stmt.large)]
  IN CASE stmt.kind \in {"update", "delete"} -> Plan(optimize_table_access("T", {}, e, stmt.idx))
       [] stmt.kind \in Aggregates -> IF select.join = "none" THEN root ELSE select
       [] OTHER -> IF select.join # "none" \/ stmt.limit # 0 \/ stmt.distinct \/ stmt.col # "*" THEN select ELSE root

-----------------------------------------------------------------------------
(* Execution.                                                                *)
\* TableScanExec, IndexScanExec: the rows are read when the executor is opened, and a
\* key or an index is looked up by the text of the value.
Looked(a) == IF a.path = "pk" THEN Pk[a.tab] ELSE IndexColumn[a.tab]
Rows(a) ==
  CASE a.path \in {"pk", "index"} -> {r \in db[a.tab] : r[Looked(a)] = value_to_field(a.key)}
    [] OTHER -> {r \in db[a.tab] : \A f \in a.filters : matches_filter(r, f)}

\* bind_outer_refs: outer references become literals of the outer row.
RECURSIVE bind_outer_refs(_, _)
bind_outer_refs(e, row) ==
  CASE e.k = "outer" -> Lit(row[e.c])
    [] e.k \in {"cmp", "and", "or"} -> [e EXCEPT !.l = bind_outer_refs(@, row), !.r = bind_outer_refs(@, row)]
    [] e.k \in {"not", "isnull", "inlist"} -> [e EXCEPT !.e = bind_outer_refs(@, row)]
    [] OTHER -> e

\* A predicate without subqueries, tested the way its access says.
Test(a, row) ==
  CASE a.mode = "all" -> Bool(TRUE)
    [] a.mode = "jit" -> IF a.pred = Nothing THEN Bool(TRUE) ELSE lower_expr(a.pred, row)
    [] a.mode = "vector" -> IF a.pred = Nothing THEN Bool(TRUE) ELSE eval_predicate_mask(a.pred, row)
    [] OTHER -> evaluate_bool(a.pred, row)
Emitted(a, row) == IF a.mode = "vector" THEN from_records(row, Columns(a.pred)) ELSE row

\* execute_subquery_rows and a column of them; a subquery that fails yields Error.  The
\* plan is made again for every outer row, with the filters of the original.
RowsOf(a) == {r \in Rows(a) : is_truthy(Test(a, r))}
Fails(a) == \E r \in Rows(a) : Test(a, r) = Error
execute_subquery(sub, row) ==
  plan_subquery([sub EXCEPT !.pred = bind_outer_refs(@, row)], plan_where(sub.pred), q.stmt.idx)
ExistsFrom(a) == IF Fails(a) THEN Error ELSE Bool(RowsOf(a) # {})
ColumnFrom(a, col) == IF Fails(a) THEN {Error} ELSE {r[col] : r \in RowsOf(a)}
OnlyOne(rows, col) ==
  IF rows = {} THEN Null ELSE IF Cardinality(rows) > 1 THEN Error ELSE (CHOOSE r \in rows : TRUE)[col]
ScalarFrom(a, col) == IF Fails(a) THEN Error ELSE OnlyOne(RowsOf(a), col)
ExistsIn(sub, row) == ExistsFrom(execute_subquery(sub, row))
ColumnOf(sub, row) == ColumnFrom(execute_subquery(sub, row), sub.col)
ScalarOf(sub, row) == ScalarFrom(execute_subquery(sub, row), sub.col)

NoRow == << >>
Negated(v, neg) == IF v # Error /\ neg THEN Bool(v = 0) ELSE v

\* rewrite_uncorrelated_subqueries: done once, when the executor is opened.
RECURSIVE rewrite(_)
rewrite(e) ==
  CASE e.k \in {"cmp", "and", "or"} -> [e EXCEPT !.l = rewrite(@), !.r = rewrite(@)]
    [] e.k \in {"not", "isnull", "inlist"} -> [e EXCEPT !.e = rewrite(@)]
    [] e.k \in SubqueryKinds ->
         IF plan_is_correlated(e.sub) THEN e
         ELSE CASE e.k = "insub" -> InList(e.e, ColumnOf(e.sub, NoRow), e.neg)
                [] e.k = "exists" -> Lit(Negated(ExistsIn(e.sub, NoRow), e.neg))
                [] OTHER -> Lit(ScalarOf(e.sub, NoRow))
    [] OTHER -> e
RewriteFails(e) == \E s \in Nodes(e) : (s.k = "lit" /\ s.n = Error) \/ (s.k = "inlist" /\ Error \in s.list)

\* The outcome of a correlated IN for WHERE: UNKNOWN does not match.
Matches(v, list, neg) == Bool(is_truthy(Member(v, list, neg)))

evaluate_value_correlated(e, row) ==
  IF e.k = "scalar" /\ plan_is_correlated(e.sub) THEN ScalarOf(e.sub, row) ELSE evaluate(e, row)

RECURSIVE evaluate_bool_correlated(_, _)
evaluate_bool_correlated(e, row) ==
  CASE e.k = "and" -> LET l == evaluate_bool_correlated(e.l, row)
                      IN IF l = Error \/ l = 0 THEN l ELSE evaluate_bool_correlated(e.r, row)
    [] e.k = "or" -> LET l == evaluate_bool_correlated(e.l, row)
                     IN IF l = Error \/ l # 0 THEN l ELSE evaluate_bool_correlated(e.r, row)
    [] e.k = "not" -> Negated(evaluate_bool_correlated(e.e, row), TRUE)
    [] e.k = "exists" -> Negated(ExistsIn(e.sub, row), e.neg)
    [] e.k = "insub" -> LET v == evaluate(e.e, row)
                            list == ColumnOf(e.sub, row)
                        IN IF v = Error THEN Error ELSE IF v = Null THEN Bool(FALSE)
                           ELSE IF Error \in list THEN Error ELSE Matches(v, list, e.neg)
    [] e.k = "cmp" -> LET l == evaluate_value_correlated(e.l, row)
                          r == evaluate_value_correlated(e.r, row)
                      IN IF Error \in {l, r} THEN Error ELSE IF Null \in {l, r} THEN Bool(FALSE)
                         ELSE Bool(Holds(e.op, l, r))
    [] OTHER -> evaluate_bool(e, row)

-----------------------------------------------------------------------------
(* A statement.                                                              *)
\* A table the statement does not read may as well be empty.
Init ==
  /\ q \in [stmt : Statements, pred : 1 .. Len(Predicates)]
  /\ db \in Databases /\ db0 = db
  /\ expression_has_subquery(Predicates[q.pred]) \/ db["U"] = {}
  /\ run = [phase |-> "parsed"]

Failed == run' = [run EXCEPT !.phase = "done", !.err = TRUE]

\* The executor over the rewritten predicate, and the key set of a semi or anti join,
\* which fails where the rows of its right side lack the key.
Opened(plan, pred, order) ==
  LET bad == plan.join = "none" /\ plan.a.mode \in {"filter", "apply"} /\ RewriteFails(pred)
  IN [phase |-> IF bad THEN "done" ELSE "pull", err |-> bad,
      plan |-> IF plan.a.mode \in {"filter", "apply"} /\ ~bad THEN [plan EXCEPT !.a.pred = pred] ELSE plan,
      order |-> order, keys |-> {}, queue |-> IF bad THEN {} ELSE Rows(plan.a), out |-> << >>]
Joined(opened, right, key, fails) ==
  IF fails \/ \E r \in right : key \notin DOMAIN r
  THEN [opened EXCEPT !.phase = "done", !.err = TRUE, !.queue = {}]
  ELSE [opened EXCEPT !.keys = {r[key] : r \in right} \ {Null}]

\* open_executor: subqueries that do not depend on the row are run, scans are read and
\* the key set of a semi or anti join is built.  A map of assignments has an arbitrary
\* order.
open_executor ==
  /\ run.phase = "parsed"
  /\ \E plan \in {optimize_with_catalog(q.stmt, Predicates[q.pred])}, order \in SetToSeqs(DOMAIN q.stmt.set) :
       \E opened \in {Opened(plan, rewrite(plan.a.pred), order)} :
         run' = IF plan.join = "none" THEN opened
                ELSE Joined(opened, {Emitted(plan.right, r) : r \in RowsOf(plan.right)},
                            plan.right_key, Fails(plan.right))
  /\ UNCHANGED <<q, db, db0>>

\* Whether a scanned row is kept; COUNT(x) over batches forgets the predicate.
Keeps(row) ==
  LET plan == run.plan
      key == evaluate(plan.left_key, row)
  IN CASE plan.join # "none" -> Bool(key # Null /\ (key \in run.keys) # (plan.join = "anti"))
       [] plan.a.mode = "apply" -> evaluate_bool_correlated(plan.a.pred, row)
       [] plan.a.mode = "vector" /\ q.stmt.kind = "count_x" -> Bool(TRUE)
       [] OTHER -> Test(plan.a, row)

\* LimitExec: the end is noticed on the row after the last, which is pulled for it.
LimitReached == q.stmt.limit # 0 /\ Len(run.out) > q.stmt.limit

\* next_row of the scan, and of what is above it.  Scans are in the order of the key.
next_row ==
  /\ run.phase = "pull" /\ run.queue # {} /\ ~LimitReached
  /\ LET row == CHOOSE r \in run.queue : \A s \in run.queue : r.p <= s.p
         kept == Keeps(row)
     IN IF kept = Error THEN Failed
        ELSE run' = [run EXCEPT !.queue = @ \ {row}, !.out = IF is_truthy(kept) THEN Append(@, row) ELSE @]
  /\ UNCHANGED <<q, db, db0>>

\* The number an aggregate makes of the rows it is given: a compiled argument has no
\* NULL, nor has a batch, and SUM over a batch starts from 0.
Sum(S) == FoldSeq(+, 0, S)
Aggregate(rows) ==
  LET mode == run.plan.a.mode
      all == [i \in DOMAIN rows |-> CASE mode = "jit" -> pack_row(rows[i].x)
                                      [] mode = "vector" /\ q.stmt.kind = "sum_x" -> record_f64(rows[i].x)
                                      [] OTHER -> as_f64(rows[i].x)]
      xs == SelectSeq(all, LAMBDA v : v # Null)
  IN CASE q.stmt.kind = "count" -> Len(rows)
       [] q.stmt.kind = "count_x" -> Len(xs)
       [] OTHER -> IF xs = << >> /\ mode # "vector" THEN Null ELSE Sum(xs)

Projected(row) == IF q.stmt.col = "*" THEN Emitted(run.plan.a, row) ELSE [x |-> value_to_field(row.x)]

\* The input is drained: the rows are projected and aggregated, then DISTINCT, or the
\* targets are handed to UPDATE or DELETE.
drain_executor ==
  /\ run.phase = "pull" /\ (run.queue = {} \/ LimitReached)
  /\ LET taken == IF LimitReached THEN Front(run.out) ELSE run.out
         rows == [i \in DOMAIN taken |-> Projected(taken[i])]
     IN run' = CASE q.stmt.kind \in {"update", "delete"} -> [run EXCEPT !.phase = "write"]
                 [] q.stmt.kind \in Aggregates ->
                      [run EXCEPT !.phase = "done", !.out = <<[x |-> Aggregate(run.out)]>>]
                 [] OTHER -> [run EXCEPT !.phase = "done",
                                         !.out = IF q.stmt.distinct THEN SetToSeq(ToSet(rows)) ELSE rows]
  /\ UNCHANGED <<q, db, db0>>

\* UpdateExec, DeleteExec: one target.  An assignment reads the row the assignments
\* before it have changed.
Assigned(row) == FoldLeft(LAMBDA r, c : [r EXCEPT ![c] = value_to_field(r[q.stmt.set[c]])], row, run.order)
Others(row) == {r \in db["T"] : r.p # row.p}
write_row ==
  /\ run.phase = "write" /\ run.out # << >>
  /\ db' = [db EXCEPT !["T"] = Others(Head(run.out))
                        \union IF q.stmt.kind = "update" THEN {Assigned(Head(run.out))} ELSE {}]
  /\ run' = [run EXCEPT !.out = Tail(@)]
  /\ UNCHANGED <<q, db0>>

affected_rows ==
  /\ run.phase = "write" /\ run.out = << >>
  /\ run' = [run EXCEPT !.phase = "done"] /\ UNCHANGED <<q, db, db0>>

Next == open_executor \/ next_row \/ drain_executor \/ write_row \/ affected_rows

-----------------------------------------------------------------------------
(* What a statement means: three-valued logic over the tables as they were   *)
(* when it began, with no planning.  FALSE, UNKNOWN and TRUE are 0, 1, 2.    *)
RECURSIVE Means(_, _, _)
ValueOf(e, row, outer) ==
  LET found == {r \in db0["U"] : Means(e.sub.pred, r, row) = 2}
  IN CASE e.k = "col" -> row[e.c]
       [] e.k = "outer" -> outer[e.c]
       [] e.k = "lit" -> e.n
       [] e.k = "scalar" -> IF found = {} THEN Null ELSE IF Cardinality(found) > 1 THEN Error
                            ELSE (CHOOSE r \in found : TRUE)[e.sub.col]
Equal(op, v, w) == IF Null \in {v, w} THEN 1 ELSE IF Holds(op, v, w) THEN 2 ELSE 0
Means(e, row, outer) ==
  LET flip(neg, t) == IF neg THEN 2 - t ELSE t
      found == {r \in db0["U"] : Means(e.sub.pred, r, row) = 2}
      among(S) == Max({0} \union {Equal("=", ValueOf(e.e, row, outer), v) : v \in S})
  IN CASE e.k = "none" -> 2
       [] e.k = "cmp" -> Equal(e.op, ValueOf(e.l, row, outer), ValueOf(e.r, row, outer))
       [] e.k = "and" -> Min({Means(e.l, row, outer), Means(e.r, row, outer)})
       [] e.k = "or" -> Max({Means(e.l, row, outer), Means(e.r, row, outer)})
       [] e.k = "not" -> 2 - Means(e.e, row, outer)
       [] e.k = "isnull" -> IF ValueOf(e.e, row, outer) = Null THEN 2 ELSE 0
       [] e.k = "inlist" -> flip(e.neg, among(e.list))
       [] e.k = "insub" -> flip(e.neg, among({r[e.sub.col] : r \in found}))
       [] e.k = "exists" -> flip(e.neg, IF found # {} THEN 2 ELSE 0)

Where == Predicates[q.pred]
Selected == {r \in db0["T"] : Means(Where, r, NoRow) = 2}

\* A scalar subquery of several rows is an error.
Ambiguous ==
  \E s \in Nodes(Where) : s.k = "scalar"
    /\ \/ ~plan_is_correlated(s.sub) /\ ValueOf(s, NoRow, NoRow) = Error
       \/ \E r \in db0["T"] : ValueOf(s, r, NoRow) = Error

\* The rows of numbers, as a bag, a statement answers with.
Numbers(r) == [c \in DOMAIN r |-> as_f64(r[c])]
BagOf(rows) == [r \in ToSet(rows) |-> Cardinality({i \in DOMAIN rows : rows[i] = r})]
Answer ==
  LET xs == {r \in Selected : r.x # Null}
      shown(r) == IF q.stmt.col = "*" THEN Numbers(r) ELSE [x |-> as_f64(r.x)]
      one(n) == [r \in {[x |-> n]} |-> 1]
  IN CASE q.stmt.kind = "select" ->
            [v \in {shown(r) : r \in Selected} |->
               IF q.stmt.distinct THEN 1 ELSE Cardinality({r \in Selected : shown(r) = v})]
       [] q.stmt.kind = "count" -> one(Cardinality(Selected))
       [] q.stmt.kind = "count_x" -> one(Cardinality(xs))
       [] q.stmt.kind = "sum_x" -> one(IF xs = {} THEN Null ELSE MapThenSumSet(LAMBDA r : as_f64(r.x), xs))
After ==
  LET assigned(r) == [c \in DOMAIN r |-> IF c \in DOMAIN q.stmt.set THEN r[q.stmt.set[c]] ELSE r[c]]
  IN CASE q.stmt.kind = "update" -> (db0["T"] \ Selected) \union {assigned(r) : r \in Selected}
       [] q.stmt.kind = "delete" -> db0["T"] \ Selected
       [] OTHER -> db0["T"]

-----------------------------------------------------------------------------
(* Where a plan departs from what the statement means.                       *)
Whole(tab, columns) == \A r \in db0[tab], c \in columns : r[c] # Null /\ is_int(r[c])
NoNull(tab, columns) == \A r \in db0[tab], c \in columns : r[c] # Null

\* An access does: a key lookup forgets the other conjuncts, compiled code and batches
\* take NULL for 0 and compiled code a float for its bits, a filter holds the name of a
\* column for its value and drops a row whose text is not on the side its number is on,
\* a lookup misses a number that is spelt otherwise, and a NULL that was bound finds the
\* NULLs of an index.
Misplaced(a) ==
  \E f \in a.filters, r \in db0[a.tab] :
    f.c \in DOMAIN r /\ r[f.c] # Null /\ Holds(f.op, r[f.c], f.v) /\ ~matches_filter(r, f)
Misspelt(a) ==
  \E r \in db0[a.tab] : r[Looked(a)] # value_to_field(a.key) /\ Holds("=", r[Looked(a)], a.key)
AccessDeparts(a) ==
  \/ a.path = "pk" /\ ~is_bare_column_equality(a.pred, Pk[a.tab])
  \/ a.path = "index" /\ a.key = Null
  \/ a.path \in {"pk", "index"} /\ Misspelt(a)
  \/ a.mode = "jit" /\ ~Whole(a.tab, Columns(a.pred))
  \/ a.mode = "vector" /\ ~NoNull(a.tab, Columns(a.pred))
  \/ Misplaced(a) \/ \E f \in a.filters : f.v = NameText

Subqueries(e) == {s.sub : s \in {s \in Nodes(e) : s.k \in SubqueryKinds}}
SubqueryDeparts(e) ==
  \E sub \in Subqueries(e) :
    \/ ~plan_is_correlated(sub) /\ AccessDeparts(execute_subquery(sub, NoRow))
    \/ plan_is_correlated(sub) /\ \E r \in db0["T"] : AccessDeparts(execute_subquery(sub, r))

\* An unnested subquery does: a NULL on either side of NOT, an outer reference or a
\* third conjunct beside the equality, batches that lack the key, and a number spelt
\* otherwise on the other side, a float that no integer of the key set equals.
JoinDeparts(plan) ==
  /\ plan.join # "none"
  /\ \/ AccessDeparts(plan.right)
     \/ plan.join = "anti" /\ ~(NoNull("T", Columns(plan.left_key)) /\ NoNull("U", {plan.right_key}))
     \/ \E s \in Nodes(plan.right.pred) : s.k = "outer"
     \/ Where.k = "exists" /\ Where.sub.pred.k = "and" /\ "and" \in {Where.sub.pred.l.k, Where.sub.pred.r.k}
     \/ plan.right.mode = "vector"
     \/ \E r \in db0["T"], s \in db0["U"] :
          LET key == evaluate(plan.left_key, r)
          IN key # s[plan.right_key] /\ Holds("=", key, s[plan.right_key])

\* NULL is not found to be NOT IN a subquery without rows.
NotInDeparts(e) ==
  \E s \in Nodes(e) : s.k = "insub" /\ s.neg /\ ~NoNull("T", Columns(s.e)) /\ ColumnOf(s.sub, NoRow) = {}

Departs ==
  LET plan == run.plan
  IN \/ AccessDeparts(plan.a)
     \/ plan.join = "none" /\ SubqueryDeparts(Where)
     \/ JoinDeparts(plan)
     \/ NotInDeparts(Where)
     \/ plan.a.mode = "apply" /\ \E s \in Nodes(Where) : s.k = "not" /\ ~NoNull("T", {"x", "y"})
     \/ plan.a.mode = "jit" /\ q.stmt.kind \in {"count_x", "sum_x"} /\ ~Whole("T", {"x"})
     \/ plan.a.mode = "vector" /\ (q.stmt.kind \in {"select", "count_x"} \/ (q.stmt.kind = "sum_x" /\ Selected = {}))
     \/ q.stmt.distinct /\ q.stmt.limit # 0
     \/ \E c \in DOMAIN q.stmt.set : q.stmt.set[c] \in DOMAIN q.stmt.set

\* Whatever access path, unnesting and pipeline the optimizer chooses, a statement
\* answers with the rows its WHERE clause means, or as many of them as its LIMIT, leaves
\* the table as it should, and fails only on a scalar subquery of several rows; except
\* where Departs says so.
PlanExact ==
  run.phase = "done" /\ ~Departs =>
    IF run.err THEN Ambiguous
    ELSE LET bag == BagOf([i \in DOMAIN run.out |-> Numbers(run.out[i])])
         IN /\ Ambiguous => q.stmt.limit # 0
            /\ {Numbers(r) : r \in db["T"]} = {Numbers(r) : r \in After}
            /\ q.stmt.kind \in {"update", "delete"} \/ Ambiguous
               \/ IF q.stmt.limit = 0 THEN bag = Answer
                  ELSE /\ Len(run.out) = Min({q.stmt.limit, Cardinality(Selected)})
                       /\ \A r \in DOMAIN bag : r \in DOMAIN Answer /\ bag[r] <= Answer[r]
=============================================================================
