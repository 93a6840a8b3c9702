----------------------------- MODULE Aggregates ------------------------------
(***************************************************************************)
(* AggregateExec of executor.rs: it drains its child, keeps one accumulator *)
(* per group and emits a row per group.  A row is [g, v, k, f]: its group,   *)
(* the aggregate's argument, its ORDER BY key and whether FILTER holds.  A   *)
(* stored NULL is the empty text, Blank, which sorts below every number and  *)
(* which is_null recognises; it is not Value::Null.                          *)
(***************************************************************************)
EXTENDS Integers, Sequences, FiniteSets, SequencesExt

CONSTANTS
  Calls,    \* [fn, distinct, ordered, asc, filtered, grouped, half]: the aggregates examined
  Inputs,   \* sequences of rows
  MaxInt    \* i64::MAX

VARIABLES
  call,
  input,    \* the child's rows
  at,       \* rows read so far
  groups,   \* group -> its accumulator
  out       \* what is emitted: set of <<group, value>>, and whether the query failed

vars == <<call, input, at, groups, out>>

Blank == -1
Saturate(n) == IF n > MaxInt THEN MaxInt ELSE n

\* Accumulator state, the fields of all of them: n rows, a saturating sum, the
\* running mean and second moment (in sixths, exact for up to three rows), the
\* extreme, the items kept; and seen and buffer of the DISTINCT and ORDER BY wrappers.
Fresh == [n |-> 0, sum |-> 0, mean |-> 0, m2 |-> 0, best |-> Blank, some |-> FALSE, items |-> << >>,
          seen |-> {}, buffer |-> << >>, ok |-> TRUE]

Sixth == 6
VarianceStep(a, v) ==
  LET n == a.n + 1
      delta == Sixth * v - a.mean
      mean == a.mean + delta \div n
  IN [a EXCEPT !.n = n, !.mean = mean, !.m2 = @ + (delta * (Sixth * v - mean)) \div Sixth]

\* Accumulator::update.  COUNT, SUM, AVG, MIN and MAX test for Value::Null only;
\* value_as_i64 fails on the empty text.
Update(a, v) ==
  LET fn == call.fn
      better == \/ ~a.some
                \/ fn = "min" /\ v < a.best
                \/ fn = "max" /\ v > a.best
  IN CASE fn \in {"count_star", "count"} -> [a EXCEPT !.n = @ + 1]
       [] fn \in {"sum", "avg"} ->
            IF v = Blank THEN [a EXCEPT !.ok = FALSE]
            ELSE [a EXCEPT !.n = @ + 1, !.sum = Saturate(@ + v)]
       [] fn \in {"min", "max"} -> IF better THEN [a EXCEPT !.best = v, !.some = TRUE] ELSE a
       [] fn = "array_agg" -> [a EXCEPT !.items = Append(@, v)]
       [] v = Blank -> a
       [] fn = "bool_and" -> [a EXCEPT !.some = TRUE, !.best = IF (~a.some \/ @ = 1) /\ v # 0 THEN 1 ELSE 0]
       [] fn = "bool_or" -> [a EXCEPT !.some = TRUE, !.best = IF (a.some /\ @ = 1) \/ v # 0 THEN 1 ELSE 0]
       [] fn \in {"string_agg", "mode", "percentile_cont", "percentile_disc"} -> [a EXCEPT !.items = Append(@, v)]
       [] fn \in {"var_pop", "var_samp"} -> VarianceStep(a, v)

\* Mutant: the values seen are not remembered.
UpdateDistinctForgets(a, v) == IF v = Blank \/ v \in a.seen THEN a ELSE Update(a, v)

\* DistinctAccumulator.
UpdateDistinct(a, v) ==
  IF v = Blank \/ v \in a.seen THEN a ELSE [Update(a, v) EXCEPT !.seen = @ \cup {v}]
Feed(a, v) == IF call.distinct THEN UpdateDistinct(a, v) ELSE Update(a, v)

\* MODE and PERCENTILE use ORDER BY for the direction; the others buffer.
Buffers == call.ordered /\ call.fn \notin {"mode", "percentile_cont", "percentile_disc"}

\* OrderedAccumulator::evaluate: a stable sort by key, then a fresh inner accumulator.
StableRank(s, i) ==
  Cardinality({j \in DOMAIN s : \/ IF call.asc THEN s[j].k < s[i].k ELSE s[i].k < s[j].k
                                \/ s[j].k = s[i].k /\ j <= i})
InOrder(s) == [r \in DOMAIN s |-> s[CHOOSE i \in DOMAIN s : StableRank(s, i) = r]]
Drained(a) ==
  IF Buffers THEN FoldLeft(LAMBDA x, e : Feed(x, e.v), Fresh, InOrder(a.buffer)) ELSE a

Sorted(items) ==
  LET up == SortSeq(items, LAMBDA x, y : x < y)
  IN IF call.asc THEN up ELSE Reverse(up)
Frequency(items, x) == Cardinality({i \in DOMAIN items : items[i] = x})
Modes(items) == {x \in ToSet(items) : \A y \in ToSet(items) : Frequency(items, y) <= Frequency(items, x)}
First(S) == CHOOSE x \in S : \A y \in S : IF call.asc THEN x <= y ELSE y <= x

\* The fraction is half / 2; PERCENTILE_CONT is given in halves.
PercentileCont(s) ==
  LET rn == 2 + call.half * (Len(s) - 1)
      i == rn \div 2
      h == rn % 2
  IN IF h = 0 \/ i >= Len(s) THEN 2 * s[i] ELSE (2 - h) * s[i] + h * s[i + 1]
PercentileDisc(s) ==
  LET ceil == (Len(s) * call.half + 1) \div 2
  IN s[IF call.half = 0 THEN 1 ELSE IF ceil < Len(s) THEN ceil ELSE Len(s)]

\* Accumulator::evaluate.
Value(acc) ==
  LET a == Drained(acc)
      s == Sorted(a.items)
  IN CASE call.fn \in {"count_star", "count"} -> <<a.n>>
       [] call.fn = "sum" -> <<IF a.n = 0 THEN Blank ELSE a.sum>>
       [] call.fn = "avg" -> <<IF a.n = 0 THEN Blank ELSE a.sum \div a.n>>
       [] call.fn \in {"min", "max", "bool_and", "bool_or"} -> <<a.best>>
       [] call.fn \in {"array_agg", "string_agg"} -> a.items
       [] call.fn = "mode" -> <<IF a.items = << >> THEN Blank ELSE First(Modes(a.items))>>
       [] call.fn = "percentile_cont" -> <<IF s = << >> THEN Blank ELSE PercentileCont(s)>>
       [] call.fn = "percentile_disc" -> <<IF s = << >> THEN Blank ELSE PercentileDisc(s)>>
       [] call.fn = "var_pop" -> IF a.n = 0 THEN <<Blank>> ELSE <<a.m2, a.n>>
       [] call.fn = "var_samp" -> IF a.n < 2 THEN <<Blank>> ELSE <<a.m2, a.n - 1>>

-----------------------------------------------------------------------------
Pending == [ready |-> FALSE, failed |-> FALSE, rows |-> {}]

Accumulate ==
  /\ ~out.ready /\ at < Len(input)
  /\ LET row == input[at + 1]
         g == IF call.grouped THEN row.g ELSE 0
         a == IF g \in DOMAIN groups THEN groups[g] ELSE Fresh
         next == IF call.filtered /\ ~row.f THEN a
                 ELSE IF Buffers THEN [a EXCEPT !.buffer = Append(@, row)]
                 ELSE Feed(a, row.v)
     IN /\ groups' = [x \in DOMAIN groups \cup {g} |-> IF x = g THEN next ELSE groups[x]]
        /\ out' = [out EXCEPT !.ready = ~next.ok, !.failed = ~next.ok]
  /\ at' = at + 1
  /\ UNCHANGED <<call, input>>

Emit ==
  /\ ~out.ready /\ at = Len(input)
  /\ LET failed == \E g \in DOMAIN groups : ~Drained(groups[g]).ok
     IN out' = [ready |-> TRUE, failed |-> failed,
                rows |-> IF failed THEN {} ELSE {<<g, Value(groups[g])>> : g \in DOMAIN groups}]
  /\ UNCHANGED <<call, input, at, groups>>

Init ==
  /\ call \in Calls /\ input \in Inputs
  /\ at = 0
  /\ groups = IF call.grouped THEN << >> ELSE [g \in {0} |-> Fresh]
  /\ out = Pending

Next == Accumulate \/ Emit

Spec == Init /\ [][Next]_vars

-----------------------------------------------------------------------------
(* What SQL asks, over sets of positions of the input.                      *)

Fits(g) == {i \in DOMAIN input : /\ call.grouped => input[i].g = g
                                 /\ call.filtered => input[i].f}
NonNull(g) == {i \in Fits(g) : input[i].v # Blank}
\* One position per distinct value.
Chosen(g) == {i \in NonNull(g) : call.distinct => \A j \in NonNull(g) : input[j].v = input[i].v => i <= j}
SumOf(I) == FoldSet(LAMBDA i, a : input[i].v + a, 0, I)
Squares(I) == FoldSet(LAMBDA i, a : input[i].v * input[i].v + a, 0, I)
Vals(I) == {input[i].v : i \in I}
AtMost(I, x) == Cardinality({i \in I : IF call.asc THEN input[i].v <= x ELSE x <= input[i].v})
Earliest(S) == CHOOSE x \in S : \A y \in S : IF call.asc THEN x <= y ELSE y <= x
Latest(S) == CHOOSE x \in S : \A y \in S : IF call.asc THEN y <= x ELSE x <= y
\* The least value with at least the share num / 2 of the values up to it.
Share(I, num) == Earliest({x \in Vals(I) : 2 * AtMost(I, x) >= num * Cardinality(I)})
\* The least value with more than half of the values up to it.
AboveHalf(I) == Earliest({x \in Vals(I) : 2 * AtMost(I, x) > Cardinality(I)})
Occurs(I, x) == Cardinality({i \in I : input[i].v = x})
Arranged(I, result) ==
  \E p \in [1 .. Cardinality(I) -> I] :
    /\ \A x, y \in DOMAIN p : x # y => p[x] # p[y]
    /\ call.ordered => \A x, y \in DOMAIN p : x < y => IF call.asc THEN input[p[x]].k <= input[p[y]].k ELSE input[p[y]].k <= input[p[x]].k
    /\ ~call.ordered => \A x, y \in DOMAIN p : x < y => p[x] < p[y]
    /\ result = [x \in DOMAIN p |-> input[p[x]].v]
OrNull(I, value) == IF I = {} THEN <<Blank>> ELSE value

Right(g, result) ==
  LET I == Chosen(g)
      n == Cardinality(I)
  IN CASE call.fn = "count_star" -> result = <<Cardinality(Fits(g))>>
       [] call.fn = "count" -> result = <<n>>
       [] call.fn = "sum" -> result = OrNull(I, <<SumOf(I)>>)
       [] call.fn = "avg" -> result = OrNull(I, <<SumOf(I) \div n>>)
       [] call.fn = "min" -> result = <<IF I = {} THEN Blank ELSE CHOOSE x \in Vals(I) : \A y \in Vals(I) : x <= y>>
       [] call.fn = "max" -> result = <<IF I = {} THEN Blank ELSE CHOOSE x \in Vals(I) : \A y \in Vals(I) : y <= x>>
       [] call.fn = "bool_and" -> result = OrNull(I, <<IF 0 \in Vals(I) THEN 0 ELSE 1>>)
       [] call.fn = "bool_or" -> result = OrNull(I, <<IF Vals(I) = {0} THEN 0 ELSE 1>>)
       [] call.fn = "array_agg" -> IF call.distinct THEN ToSet(result) = Vals(I) /\ Len(result) = n ELSE Arranged(Fits(g), result)
       [] call.fn = "string_agg" -> IF call.distinct THEN ToSet(result) = Vals(I) /\ Len(result) = n ELSE Arranged(I, result)
       [] call.fn = "mode" ->
            result = <<IF I = {} THEN Blank ELSE Earliest({x \in Vals(I) : \A y \in Vals(I) : Occurs(I, y) <= Occurs(I, x)})>>
       [] call.fn = "percentile_cont" ->
            result = <<IF I = {} THEN Blank
                       ELSE CASE call.half = 0 -> 2 * Earliest(Vals(I))
                              [] call.half = 2 -> 2 * Latest(Vals(I))
                              [] call.half = 1 -> Share(I, 1) + AboveHalf(I)>>
       [] call.fn = "percentile_disc" -> result = <<IF I = {} THEN Blank ELSE Share(I, call.half)>>
       [] call.fn \in {"var_pop", "var_samp"} ->
            LET d == IF call.fn = "var_pop" THEN n ELSE n - 1
            IN IF d < 1 THEN result = <<Blank>>
               ELSE result[2] = d /\ n * result[1] = Sixth * (n * Squares(I) - SumOf(I) * SumOf(I))

HasNull(g) == Fits(g) # NonNull(g)
\* Where the code departs from SQL: the five oldest aggregates do not know a
\* stored NULL, DISTINCT drops it everywhere, and a sum saturates.
Departs(g) ==
  \/ HasNull(g) /\ ~call.distinct /\ call.fn \in {"count", "sum", "avg", "min"}
  \/ HasNull(g) /\ call.distinct /\ call.fn = "array_agg"
  \/ SumOf(Chosen(g)) > MaxInt /\ call.fn \in {"sum", "avg"}

(* An aggregate query returns a row for each group of its input (one, when   *)
(* it has no GROUP BY), whether or not FILTER leaves the group anything, and *)
(* in it the value SQL gives the function over the group's rows, with        *)
(* DISTINCT, ORDER BY and FILTER, unless a stored NULL or an overflow meets  *)
(* a function that does not know them.                                       *)
AggregateExact ==
  out.ready =>
    LET expected == IF call.grouped THEN {input[i].g : i \in DOMAIN input} ELSE {0}
    IN /\ out.failed => \E g \in expected : Departs(g)
       /\ ~out.failed => /\ {r[1] : r \in out.rows} = expected
                         /\ \A r \in out.rows : Departs(r[1]) \/ Right(r[1], r[2])
=============================================================================
