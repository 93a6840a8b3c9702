------------------------------ MODULE MCParts -------------------------------
(***************************************************************************)
(* The components beside the replicated core, checked one at a time: a      *)
(* behaviour picks a component and is then a behaviour of that component's  *)
(* module, whose variables are v1, v2, ... here.                            *)
(***************************************************************************)
EXTENDS Integers, Sequences, TLC

VARIABLES part, v1, v2, v3, v4, v5, v6, v7, v8, v9

vars == <<part, v1, v2, v3, v4, v5, v6, v7, v8, v9>>

-----------------------------------------------------------------------------
\* Calls of the pool's threads: two writers of a page and the eviction of it,
\* a checkpoint beside a new page, a flush beside a write, and more callers than frames.
PoolScripts ==
  { << <<<<"write", 0>>, <<"read", 0>>>>, <<<<"write", 0>>, <<"read", 1>>, <<"read", 2>>>>, << >> >>,
    << <<<<"write", 1>>, <<"new", 0>>>>, <<<<"checkpoint", 0>>, <<"flush", 1>>, <<"read", 0>>>>, << >> >>,
    << <<<<"new", 0>>, <<"flush", 3>>, <<"write", 3>>>>, <<<<"read", 1>>, <<"checkpoint", 0>>>>, << >> >>,
    << <<<<"read", 0>>>>, <<<<"read", 1>>>>, <<<<"write", 2>>>> >> }

Pool == INSTANCE Pool WITH
  Threads <- {1, 2, 3}, PoolSize <- 2, LruK <- 2, PagesPerChunk <- 2, Stored <- 3, Scripts <- PoolScripts,
  frames <- v1, table <- v2, free <- v3, clock <- v4, disk <- v5, thr <- v6, script <- v7, latest <- v8, calm <- v9

Client == INSTANCE Client WITH
  Nodes <- {"a", "b"}, TxnClients <- {1, 2}, PutClients <- {3}, Casts <- {{1}, {1, 2}, {1, 3}},
  MaxRoute <- 2, MaxAttempts <- 2, MaxFaults <- 3,
  raft <- v1, sessions <- v2, nextId <- v3, tasks <- v4, cl <- v5, odd <- v6, faults <- v7

Session == INSTANCE Session WITH
  Sessions <- {1, 2}, Keys <- {"k"}, Settings <- {1, 2}, QueueCap <- 1, MaxSteps <- 5,
  txn <- v1, locks <- v2, xact <- v3, guc <- v4, mail <- v5, steps <- v6, granted <- v7, wanted <- v8, slips <- v9

AlterForm(restart, inc, owned) == [restart |-> restart, inc |-> inc, owned |-> owned]
AlterForms == {AlterForm(0, 0, "keep"), AlterForm(1, 0, "keep"), AlterForm(0, 1, "column"), AlterForm(0, 0, "none")}
SqlSequences == INSTANCE SqlSequences WITH
  Sessions <- {1, 2}, Names <- {"a", "b"}, MaxValue <- 3, SetValues <- {2}, Forms <- AlterForms, MaxSteps <- 4,
  reg <- v1, own <- v2, last <- v3, seen <- v4, file <- v5, steps <- v6, issued <- v7, mine <- v8, slips <- v9

-----------------------------------------------------------------------------
\* Tables t, u and t_x; an index on t or none; statements of two sessions and
\* the commands that run beside them.
T == <<"t">>
TX == <<"t", "x">>
Table(indexed) == [indexed |-> indexed, uq |-> indexed, col |-> "c"]
Ins(mode, rows) == [op |-> "insert", mode |-> mode, rows |-> rows, v |-> "", to |-> ""]
Upd(v, to) == [op |-> "update", mode |-> "none", rows |-> << >>, v |-> v, to |-> to]
Del(v) == [op |-> "delete", mode |-> "none", rows |-> << >>, v |-> v, to |-> ""]
Scenario(indexed, stmts, ops) ==
  [cat |-> T :> Table(indexed), rows |-> <<T, "1">> :> "a", stmts |-> stmts, ops |-> ops, auto |-> Len(ops) > 1]
TableScenarios ==
  LET fresh == Ins("none", << <<"2", "a">> >>)
      two == Ins("none", << <<"2", "b">>, <<"1", "a">> >>)
      keep == Ins("nothing", << <<"1", "b">> >>)
  IN { Scenario(FALSE, {fresh, Upd("a", "b")}, <<"create_index">>),
       Scenario(FALSE, {Ins("update", << <<"1", "b">> >>), Del("a")}, <<"create_index">>),
       Scenario(TRUE, {Ins("none", << <<"2", "b">> >>), Upd("a", "")}, <<"drop_index", "create_index">>),
       Scenario(TRUE, {two, Del("b")}, <<"rename">>),
       Scenario(TRUE, {keep, fresh}, <<"drop_table">>),
       Scenario(FALSE, {two, keep}, <<"rename">>),
       Scenario(TRUE, {Upd("a", "b"), Upd("b", "a")}, <<"vacuum">>),
       [cat |-> (T :> Table(FALSE)) @@ (TX :> Table(FALSE)), rows |-> (<<T, "1">> :> "a") @@ (<<TX, "3">> :> "b"),
        stmts |-> {Upd("b", "a")}, ops |-> <<"drop_table">>, auto |-> TRUE] }

Tables == INSTANCE Tables WITH
  Sessions <- {1, 2}, Names <- {T, <<"u">>, TX}, Scenarios <- TableScenarios, MaxStatements <- 2,
  store <- v1, clock <- v2, cat <- v3, txn <- v4, ddl <- v5, work <- v6, logical <- v7, slips <- v8

-----------------------------------------------------------------------------
\* The operators over every pair of inputs of up to two rows, the sorts over
\* every input of up to three.
Val(kind, n) == [kind |-> kind, n |-> n]
Blank == Val("text", 0)
SeqsUpTo(k, S) == UNION {[1 .. n -> S] : n \in 0 .. k}
PlanBase == [op |-> "nlj", type |-> "inner", on |-> "eq", swap |-> FALSE, all |-> FALSE,
             asc |-> TRUE, nullsFirst |-> FALSE, skip |-> 0, fetch |-> 0, ties |-> FALSE]
Plan(base, l, r) == base @@ [left |-> l, right |-> r]
PlanCases ==
  LET nlj == {[PlanBase EXCEPT !.type = t, !.on = o] : t \in {"inner", "left", "right", "full"}, o \in {"eq", "le"}}
      hash == {[PlanBase EXCEPT !.op = "hash", !.type = t] :
                 t \in {"inner", "left", "right", "full", "in", "exists", "not_in", "not_exists"}}
              \cup {[PlanBase EXCEPT !.op = "hash", !.swap = TRUE]}
      sets == {[PlanBase EXCEPT !.op = "set", !.type = t, !.all = a] :
                 t \in {"union", "intersect", "except"}, a \in BOOLEAN}
      sorts == {[PlanBase EXCEPT !.op = o, !.asc = a, !.nullsFirst = n, !.skip = k, !.fetch = f, !.ties = (o = "limit")] :
                 o \in {"limit", "topn"}, a \in BOOLEAN, n \in BOOLEAN, k \in 0 .. 1, f \in 0 .. 2}
      rows == SeqsUpTo(2, {Blank, Val("int", 1), Val("float", 1), Val("int", 2)})
      ordered == {s \in rows : \A i, j \in DOMAIN s : i < j => s[i].n <= s[j].n}
  IN {Plan(b, l, r) : b \in nlj \cup hash \cup sets, l \in rows, r \in rows}
     \cup {Plan([PlanBase EXCEPT !.op = "merge"], l, r) : l \in ordered, r \in ordered}
     \cup {Plan(b, l, << >>) : b \in sorts, l \in SeqsUpTo(3, {Blank, Val("int", 1), Val("int", 2)})}

Operators == INSTANCE Operators WITH Plans <- PlanCases, plan <- v1, st <- v2, out <- v3

-----------------------------------------------------------------------------
\* Window calls: every unit with bounds on both sides, every exclusion, every
\* kind of function; partitions with ties, gaps and NULLs.
Bd(b, k) == [b |-> b, k |-> k]
CallBase == [kind |-> "aggregate", parted |-> TRUE, ordered |-> TRUE, asc |-> TRUE, framed |-> TRUE,
             units |-> "rows", start |-> Bd("up", 0), end |-> Bd("cur", 0),
             exclude |-> "none", nulls |-> "respect", offset |-> 1]
FrameBounds ==
  {<<Bd("up", 0), Bd("pre", 1)>>, <<Bd("up", 0), Bd("cur", 0)>>, <<Bd("pre", 2), Bd("pre", 1)>>,
   <<Bd("pre", 1), Bd("fol", 1)>>, <<Bd("cur", 0), Bd("uf", 0)>>, <<Bd("cur", 0), Bd("fol", 1)>>,
   <<Bd("fol", 1), Bd("fol", 2)>>, <<Bd("fol", 1), Bd("uf", 0)>>}
WindowCalls ==
  {[CallBase EXCEPT !.units = u, !.start = f[1], !.end = f[2], !.asc = a] :
     u \in {"rows", "range", "groups"}, f \in FrameBounds, a \in BOOLEAN}
  \cup {[CallBase EXCEPT !.framed = f, !.exclude = x, !.ordered = o] :
     f \in BOOLEAN, x \in {"none", "row", "group", "ties"}, o \in BOOLEAN}
  \cup {[CallBase EXCEPT !.kind = k, !.nulls = u, !.offset = m] :
     k \in {"lag", "lead", "first", "last", "nth"}, u \in {"respect", "ignore"}, m \in 1 .. 2}
  \cup {[CallBase EXCEPT !.kind = k, !.offset = 2, !.parted = p, !.asc = p] :
     k \in {"row_number", "rank", "dense_rank", "ntile", "percent_rank", "cume_dist"}, p \in BOOLEAN}
WRow(p, o, v) == [p |-> p, o |-> o, v |-> v]
WindowInputs ==
  {<<WRow(1, a, "x"), WRow(1, b, "null"), WRow(1, c, "x"), WRow(1, 4, "x")>> : a \in {1, 2}, b \in {1, 2, 4}, c \in {2, 4}}
  \cup {<<WRow(2, a, "x"), WRow(1, 1, "x"), WRow(2, c, "null")>> : a \in {1, 2}, c \in {1, 2}}

Windows == INSTANCE Windows WITH
  Calls <- WindowCalls, Inputs <- WindowInputs, call <- v1, rows <- v2, st <- v3, out <- v4

-----------------------------------------------------------------------------
\* Distributed queries over two workers: fewer, as many and more partitions
\* than workers, by key and by another column, with and without a predicate.
DRow(pk, c, g, v) == [pk |-> pk, c |-> c, g |-> g, v |-> v]
On(column) == [on |-> column, key |-> IF column = "pk" THEN 2 ELSE 1]
QueryBase == [kind |-> "scan", strategy |-> "hash", column |-> "pk", buckets |-> 2, bounds |-> << >>,
              where |-> On("none"), agg |-> "none", remote |-> FALSE, rows |-> << >>]
MppQueries ==
  {[QueryBase EXCEPT !.buckets = b, !.column = c, !.where = On(w), !.remote = r] :
     b \in 1 .. 3, c \in {"pk", "c"}, w \in {"none", "pk", "c"}, r \in BOOLEAN}
  \cup {[QueryBase EXCEPT !.strategy = "range", !.bounds = <<0, 2>>, !.column = c, !.where = On(w)] :
     c \in {"pk", "c"}, w \in {"none", "pk", "c"}}
  \cup {[QueryBase EXCEPT !.kind = "aggregate", !.strategy = "none", !.agg = a, !.where = On(w), !.remote = r] :
     a \in {"count", "sum", "min", "max", "avg"}, w \in {"none", "c"}, r \in BOOLEAN}
  \cup {[QueryBase EXCEPT !.kind = "insert", !.remote = TRUE, !.rows = <<DRow(4, 0, 0, 1), DRow(5, 1, 0, 1)>>]}
MppContents == {{DRow(0, 1, 0, 1), DRow(1, 0, 0, x), DRow(2, 1, 1, 3), DRow(3, 1, 0, 6)} : x \in {2, -1}}

Mpp == INSTANCE Mpp WITH
  N <- 2, Capacity <- 4, Queries <- MppQueries, Contents <- MppContents, NewRow <- DRow(6, 1, 1, 4), MaxFaults <- 2,
  q <- v1, data <- v2, replica <- v3, owners <- v4, st <- v5, buffer <- v6, faults <- v7, slips <- v8

-----------------------------------------------------------------------------
\* Vector indexes: four rows linked in any order, then a change of one and a
\* new one; and a build, a vacuum and restarts beside five writes.
KnnScenario(built, writes, vacuums, reopens) ==
  [built |-> built, writes |-> writes, vacuums |-> vacuums, reopens |-> reopens]
LinkOrders ==
  LET points == {<<1, 1>>, <<2, 2>>, <<3, 4>>, <<4, 8>>}
  IN {o \in [1 .. 4 -> points] : \A i, j \in 1 .. 4 : i # j => o[i] # o[j]}
KnnScenarios ==
  {KnnScenario(TRUE, o \o x, 0, 0) : o \in LinkOrders,
     x \in {<< <<1, 0>>, <<5, 13>> >>, << <<4, 0>>, <<5, 13>> >>, << <<5, 13>>, <<2, 19>>, <<3, 0>> >>}}
  \cup {KnnScenario(b, << <<1, 1>>, <<2, 2>>, <<1, 13>>, <<2, 0>>, <<3, 4>> >>, v, r) :
     b \in BOOLEAN, v \in 0 .. 1, r \in 0 .. 2}

Hnsw == INSTANCE Hnsw WITH
  Queries <- {0, 9}, M <- 2, Ef <- 2, ExactLimit <- 2, Levels <- <<1, 2, 1, 1, 2, 1, 1>>, Scenarios <- KnnScenarios,
  graph <- v1, installed <- v2, file <- v3, rows <- v4, edits <- v5, scan <- v6, work <- v7, slips <- v8

-----------------------------------------------------------------------------
\* Aggregate calls over every input of up to three values, NULLs among them,
\* with ties in the ORDER BY key and rows that FILTER rejects.
AggBase == [fn |-> "count", distinct |-> FALSE, ordered |-> FALSE, asc |-> TRUE,
            filtered |-> FALSE, grouped |-> FALSE, half |-> 1]
AggNames == {"count_star", "count", "sum", "avg", "min", "max", "bool_and", "bool_or",
             "array_agg", "string_agg", "var_pop", "var_samp"}
AggCalls ==
  {[AggBase EXCEPT !.fn = f, !.grouped = g, !.filtered = g] : f \in AggNames, g \in BOOLEAN}
  \cup {[AggBase EXCEPT !.fn = f, !.distinct = d, !.ordered = o, !.asc = FALSE] :
     f \in AggNames \ {"count_star"}, d \in BOOLEAN, o \in BOOLEAN}
  \cup {[AggBase EXCEPT !.fn = f, !.asc = a, !.half = h] :
     f \in {"mode", "percentile_cont", "percentile_disc"}, a \in BOOLEAN, h \in 0 .. 2}
AggRow(i, v) == [g |-> <<1, 2, 1>>[i], v |-> v, k |-> <<2, 1, 2>>[i], f |-> i # 2]
AggInputs == {[i \in DOMAIN s |-> AggRow(i, s[i])] : s \in SeqsUpTo(3, {-1, 0, 1, 3})}

Aggregates == INSTANCE Aggregates WITH
  Calls <- AggCalls, Inputs <- AggInputs, MaxInt <- 4,
  call <- v1, input <- v2, at <- v3, groups <- v4, out <- v5

-----------------------------------------------------------------------------
\* Statements over T(p, x, y), with subqueries over U(q, z): WHERE clauses for each
\* access path, unnesting and pipeline; NULLs and a float in the first row of T.
X == INSTANCE Expressions
TCol(c) == X!Col(c, FALSE)
BCol(c) == X!Col(c, TRUE)
IsEq(l, n) == X!BinaryOp(l, "=", X!Lit(n))
EqOuter(c, o) == X!BinaryOp(TCol(c), "=", X!OuterRef(o))
Above(l, r) == X!BinaryOp(l, ">", r)
FromU(c, e) == X!Subquery(c, FALSE, e)
WherePlain ==
  << X!Nothing, IsEq(BCol("p"), 0), X!And(IsEq(BCol("p"), 0), IsEq(BCol("x"), 2)),
     IsEq(BCol("x"), 2), X!And(IsEq(BCol("x"), 2), IsEq(BCol("y"), 2)), Above(BCol("x"), X!Lit(0)),
     Above(BCol("x"), X!Lit(18)),
     X!BinaryOp(TCol("x"), "=", TCol("y")), X!BinaryOp(BCol("x"), "=", BCol("y")),
     X!Or(X!BinaryOp(BCol("x"), "<", X!Lit(2)), IsEq(BCol("y"), 2)),
     X!Not(IsEq(BCol("x"), 2)), X!IsNull(BCol("x")), X!InList(BCol("x"), {0, 2}, FALSE), X!InList(BCol("x"), {0, 3}, TRUE) >>
WhereUncorrelated ==
  << X!InSubquery(BCol("x"), FromU("q", X!Nothing), FALSE), X!InSubquery(BCol("x"), FromU("z", X!Nothing), TRUE),
     X!And(IsEq(BCol("y"), 2), X!InSubquery(BCol("x"), FromU("z", X!Nothing), TRUE)),
     X!Or(IsEq(BCol("y"), 2), X!InSubquery(BCol("x"), FromU("z", IsEq(BCol("z"), 2)), TRUE)),
     X!BinaryOp(BCol("x"), "=", X!ScalarSubquery(FromU("z", X!Nothing))),
     X!Or(IsEq(BCol("x"), 3), X!Exists(X!Subquery("q", TRUE, Above(TCol("z"), X!Lit(0))), FALSE)) >>
WhereCorrelated ==
  LET some == X!Exists(FromU("q", EqOuter("z", "x")), FALSE)
  IN << X!Exists(FromU("q", EqOuter("q", "x")), FALSE),
        X!Exists(FromU("q", X!And(EqOuter("z", "x"), IsEq(TCol("q"), 2))), TRUE),
        X!And(IsEq(BCol("y"), 2), some), X!Not(X!And(IsEq(BCol("y"), 2), some)),
        X!Exists(FromU("q", X!BinaryOp(BCol("z"), "=", X!OuterRef("x"))), FALSE),
        X!Exists(FromU("q", X!And(X!And(EqOuter("z", "x"), IsEq(TCol("q"), 2)), IsEq(TCol("z"), 2))), FALSE),
        Above(BCol("x"), X!ScalarSubquery(FromU("z", EqOuter("q", "p")))),
        X!InSubquery(TCol("x"), FromU("q", EqOuter("q", "x")), FALSE),
        X!Exists(FromU("q", Above(TCol("q"), X!OuterRef("x"))), FALSE),
        X!Exists(FromU("q", X!And(EqOuter("q", "x"), Above(TCol("z"), X!OuterRef("y")))), FALSE) >>
Statement(kind, idx, large) ==
  [kind |-> kind, col |-> "*", distinct |-> FALSE, limit |-> 0, set |-> << >>, idx |-> idx, large |-> large]
PlannerStatements ==
  {Statement("select", {}, {}), Statement("select", {"T"}, {}), Statement("select", {}, {"T", "U"}),
   [Statement("select", {"T", "U"}, {}) EXCEPT !.col = "x"],
   [Statement("select", {}, {}) EXCEPT !.col = "x", !.distinct = TRUE],
   [Statement("select", {"T"}, {}) EXCEPT !.limit = 1],
   [Statement("update", {"T"}, {}) EXCEPT !.set = [x |-> "p", y |-> "p"]],
   Statement("delete", {}, {}), Statement("delete", {"T", "U"}, {}), Statement("sum_x", {}, {})}
  \cup {Statement(k, {}, {"T"}) : k \in {"count", "count_x", "sum_x"}}
PlannerDatabases ==
  {[T |-> t, U |-> {[q |-> r[1], z |-> r[2]] : r \in u}] :
     t \in {{}} \cup {{[p |-> 0, x |-> r[1], y |-> r[2]], [p |-> 2, x |-> 2, y |-> 2]} :
                       r \in {<<X!Null, 2>>, <<0, X!Null>>, <<2, X!Null>>, <<3, 2>>,
                             <<21, 2>>, <<X!Spelt(2), 2>>}},
     u \in {{}, {<<2, 2>>}, {<<0, X!Null>>, <<2, 2>>}, {<<0, 2>>, <<2, 2>>}}}

Planner == INSTANCE Planner WITH
  Predicates <- WherePlain \o WhereUncorrelated \o WhereCorrelated,
  Statements <- PlannerStatements, Databases <- PlannerDatabases, q <- v1, db <- v2, db0 <- v3, run <- v4

-----------------------------------------------------------------------------
Init ==
  \/ part = "pool" /\ Pool!Init
  \/ part = "client" /\ Client!Init /\ v8 = 0 /\ v9 = 0
  \/ part = "session" /\ Session!Init
  \/ part = "sequences" /\ SqlSequences!Init
  \/ part = "tables" /\ Tables!Init /\ v9 = 0
  \/ part = "operators" /\ Operators!Init /\ v4 = 0 /\ v5 = 0 /\ v6 = 0 /\ v7 = 0 /\ v8 = 0 /\ v9 = 0
  \/ part = "windows" /\ Windows!Init /\ v5 = 0 /\ v6 = 0 /\ v7 = 0 /\ v8 = 0 /\ v9 = 0
  \/ part = "mpp" /\ Mpp!Init /\ v9 = 0
  \/ part = "hnsw" /\ Hnsw!Init /\ v9 = 0
  \/ part = "aggregates" /\ Aggregates!Init /\ v6 = 0 /\ v7 = 0 /\ v8 = 0 /\ v9 = 0
  \/ part = "planner" /\ Planner!Init /\ v5 = 0 /\ v6 = 0 /\ v7 = 0 /\ v8 = 0 /\ v9 = 0

Next ==
  \/ part = "pool" /\ Pool!Next /\ UNCHANGED part
  \/ part = "client" /\ Client!Next /\ UNCHANGED <<part, v8, v9>>
  \/ part = "session" /\ Session!Next /\ UNCHANGED part
  \/ part = "sequences" /\ SqlSequences!Next /\ UNCHANGED part
  \/ part = "tables" /\ Tables!Next /\ UNCHANGED <<part, v9>>
  \/ part = "operators" /\ Operators!Next /\ UNCHANGED <<part, v4, v5, v6, v7, v8, v9>>
  \/ part = "windows" /\ Windows!Next /\ UNCHANGED <<part, v5, v6, v7, v8, v9>>
  \/ part = "mpp" /\ Mpp!Next /\ UNCHANGED <<part, v9>>
  \/ part = "hnsw" /\ Hnsw!Next /\ UNCHANGED <<part, v9>>
  \/ part = "aggregates" /\ Aggregates!Next /\ UNCHANGED <<part, v6, v7, v8, v9>>
  \/ part = "planner" /\ Planner!Next /\ UNCHANGED <<part, v5, v6, v7, v8, v9>>

Spec == Init /\ [][Next]_vars

-----------------------------------------------------------------------------
\* Each is the property of that name of the component's module, where it is explained.

(* Pool: every frame is free, being allocated or in the page table.          *)
FramesAccounted == part = "pool" => Pool!FramesAccounted
(* Pool: a page read shows the last write, unless calls overlapped on it.    *)
NoWriteLost == part = "pool" => Pool!NoWriteLost
(* Client: an acknowledged transaction is applied once.                      *)
AckedOnce == part = "client" => Client!AckedOnce
(* Client: no acknowledged update is overwritten unseen.                     *)
NoLostUpdate == part = "client" => Client!NoLostUpdate
(* Session: advisory locks are held as they were granted.                    *)
LocksAsGranted == part = "session" => Session!LocksAsGranted
(* Session: set_config(.., true) ends with its transaction.                  *)
LocalConfigEnds == part = "session" => Session!LocalConfigEnds
(* SqlSequences: nextval repeats no value that was saved.                    *)
NextvalUnique == part = "sequences" => SqlSequences!NextvalUnique
(* SqlSequences: the sequence a column owns exists.                          *)
OwnedExist == part = "sequences" => SqlSequences!OwnedExist
(* Tables: the rows are those the committed statements wrote.                *)
RowsAsWritten == part = "tables" => Tables!RowsAsWritten
(* Tables: an index lookup finds the rows a scan finds.                      *)
IndexMatchesRows == part = "tables" => Tables!IndexMatchesRows
(* Operators: joins, set operations, sorts and limits return their rows.     *)
OperatorExact == part = "operators" => Operators!OperatorExact
(* Windows: each cell is SQL's, save for three frames the code has its way. *)
WindowExact == part = "windows" => Windows!WindowExact
(* Mpp: a gathered result is the one-node result.                            *)
GatherExact == part = "mpp" => Mpp!GatherExact
(* Hnsw: a nearest-neighbour search answers from the committed rows.         *)
KnnSound == part = "hnsw" => Hnsw!KnnSound
(* Aggregates: an aggregate returns SQL's value for each group.              *)
AggregateExact == part = "aggregates" => Aggregates!AggregateExact
(* Planner: a statement finds the rows its WHERE clause means.               *)
PlanExact == part = "planner" => Planner!PlanExact
=============================================================================
