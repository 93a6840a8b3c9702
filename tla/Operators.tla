------------------------------- MODULE Operators -------------------------------
(***************************************************************************)
(* The pull operators of executor.rs: the nested-loop, hash and merge      *)
(* joins, the set operations, and Sort + Limit against the fused Top-N.    *)
(* A behaviour is one operator over two small inputs, driven               *)
(* by next_row until it returns None; each action is one turn of the       *)
(* operator's loop.                                                        *)
(*                                                                         *)
(* A row is its join (or sort) key and its position in its input.  A key   *)
(* is what Value::from_text makes of the stored text: an integer, a float  *)
(* spelling of the same number, or Blank, the empty string that stores SQL *)
(* NULL.  is_null() knows Blank; a match on Value::Null does not.          *)
(***************************************************************************)
EXTENDS Naturals, Sequences, FiniteSets

CONSTANTS
  Plans        \* the operators and inputs examined

VARIABLES
  plan,        \* [op, type, left, right, ...]: the operator and its inputs
  st,          \* the operator's fields
  out          \* the rows next_row has returned, in order

vars == <<plan, st, out>>

Blank == [kind |-> "text", n |-> 0]
Null == [kind |-> "null", n |-> 0]
Int(n) == [kind |-> "int", n |-> n]
Float(n) == [kind |-> "float", n |-> n]

is_null(v) == v \in {Null, Blank}

\* compare_sql_values: numbers compare across kinds; the blank text sorts first.
SqlEq(a, b) == ~is_null(a) /\ ~is_null(b) /\ a.n = b.n
ValueLt(a, b) == a.n < b.n

L == plan.left
R == plan.right

\* combine_rows: the positions joined.  Pad stands for a null-padded side, and
\* Absent for a padding template without columns, which is what an empty side
\* leaves (null_template_from_keys over no keys).
Pad == 0
Absent == 99
Template(rows) == IF rows = << >> THEN Absent ELSE Pad

Emit(row) == out' = Append(out, row)
Emits(row) == Emit(row) /\ UNCHANGED plan
Quiet == UNCHANGED <<plan, out>>
Go(s) == st' = s
Finish == Go([st EXCEPT !.phase = "done"])

-----------------------------------------------------------------------------
(* NestedLoopJoin: stream the outer side, rescan the materialised inner.   *)
(* RIGHT streams the SQL-right side as outer.                              *)

Outer == IF plan.type = "right" THEN R ELSE L
Inner == IF plan.type = "right" THEN L ELSE R
Combined(o, i) == IF plan.type = "right" THEN <<i, o>> ELSE <<o, i>>

\* The ON predicate under three-valued logic: UNKNOWN does not pass.
Holds(a, b) ==
  /\ ~is_null(a) /\ ~is_null(b)
  /\ IF plan.on = "eq" THEN a.n = b.n ELSE ~ValueLt(b, a)

NljInit == [phase |-> "outer", cur |-> 0, at |-> 0, matched |-> FALSE, hit |-> {}]

NljPull ==
  /\ plan.op = "nlj" /\ st.phase = "outer" /\ st.cur < Len(Outer)
  /\ Go([st EXCEPT !.phase = "inner", !.cur = @ + 1, !.at = 1, !.matched = FALSE])
  /\ Quiet

NljTest ==
  /\ plan.op = "nlj" /\ st.phase = "inner" /\ st.at <= Len(Inner)
  /\ LET ok == IF plan.type = "right" THEN Holds(Inner[st.at], Outer[st.cur])
                                      ELSE Holds(Outer[st.cur], Inner[st.at])
     IN IF ok
        THEN /\ Go([st EXCEPT !.at = @ + 1, !.matched = TRUE, !.hit = @ \cup {st.at}])
             /\ Emits(Combined(st.cur, st.at))
        ELSE /\ Go([st EXCEPT !.at = @ + 1])
             /\ Quiet

\* Mutant: an outer join pads a row that matched, too.
NljExhaustPads ==
  /\ plan.op = "nlj" /\ st.phase = "inner" /\ st.at > Len(Inner)
  /\ Go([st EXCEPT !.phase = "outer"])
  /\ IF plan.type \in {"left", "right", "full"} THEN Emits(Combined(st.cur, Template(Inner))) ELSE Quiet

NljExhaust ==
  /\ plan.op = "nlj" /\ st.phase = "inner" /\ st.at > Len(Inner)
  /\ Go([st EXCEPT !.phase = "outer"])
  /\ IF ~st.matched /\ plan.type \in {"left", "right", "full"}
     THEN Emits(Combined(st.cur, Template(Inner)))
     ELSE Quiet

\* The outer side is exhausted: FULL goes on to the inner rows nobody matched.
NljOuterDone ==
  /\ plan.op = "nlj" /\ st.phase = "outer" /\ st.cur = Len(Outer)
  /\ Go([st EXCEPT !.phase = IF plan.type = "full" THEN "dangling" ELSE "done", !.at = 1])
  /\ Quiet

NljDangling ==
  /\ plan.op = "nlj" /\ st.phase = "dangling"
  /\ IF st.at > Len(Inner)
     THEN Finish /\ Quiet
     ELSE /\ Go([st EXCEPT !.at = @ + 1])
          /\ IF st.at \notin st.hit THEN Emits(<<Template(Outer), st.at>>) ELSE Quiet

-----------------------------------------------------------------------------
(* HashJoinExec.  INNER builds the side the optimizer expects to be        *)
(* smaller, RIGHT builds the left; every other type builds the right.      *)

BuildsLeft == plan.type = "right" \/ (plan.type = "inner" /\ ~plan.swap)
Build == IF BuildsLeft THEN L ELSE R
Probe == IF BuildsLeft THEN R ELSE L
Sides(p, b) == IF BuildsLeft THEN <<b, p>> ELSE <<p, b>>

HashInit == [phase |-> "build", cur |-> 0, bucket |-> {}, hit |-> {}, table |-> {}]

\* try_subquery_unnest: IN and EXISTS become Semi, their negations Anti.
Semi == plan.type \in {"in", "exists"}
Anti == plan.type \in {"not_in", "not_exists"}

BuildSide ==
  /\ plan.op = "hash" /\ st.phase = "build"
  /\ Go([st EXCEPT !.phase = "probe",
           !.table = {b \in DOMAIN Build : Build[b] # Null}])
  /\ Quiet

\* HashMap lookup: Value's own equality, which tells 1 from 1.0.
Bucket(k) == {b \in st.table : Build[b] = k}

ProbeNext ==
  /\ plan.op = "hash" /\ st.phase = "probe" /\ st.bucket = {} /\ st.cur < Len(Probe)
  /\ LET p == st.cur + 1
         matches == IF Probe[p] = Null THEN {} ELSE Bucket(Probe[p])
     IN IF Semi \/ Anti
        THEN /\ Go([st EXCEPT !.cur = p])
             /\ IF ~is_null(Probe[p]) /\ ((matches # {}) = Semi)
                THEN Emits(<<p, Pad>>) ELSE Quiet
        ELSE /\ Go([st EXCEPT !.cur = p, !.bucket = matches])
             /\ IF matches = {} /\ plan.type \in {"left", "right", "full"}
                THEN Emits(Sides(p, Template(Build))) ELSE Quiet

Least(S) == CHOOSE x \in S : \A y \in S : x <= y

ProbeMatch ==
  /\ plan.op = "hash" /\ st.phase = "probe" /\ st.bucket # {}
  /\ LET b == Least(st.bucket) IN
       /\ Go([st EXCEPT !.bucket = @ \ {b}, !.hit = @ \cup {b}])
       /\ Emits(Sides(st.cur, b))

ProbeDone ==
  /\ plan.op = "hash" /\ st.phase = "probe" /\ st.bucket = {} /\ st.cur = Len(Probe)
  /\ Go([st EXCEPT !.phase = IF plan.type = "full" THEN "dangling" ELSE "done"])
  /\ Quiet

\* FULL: the build rows no probe row matched, in the order of the hash map.
HashDangling ==
  /\ plan.op = "hash" /\ st.phase = "dangling"
  /\ LET left == st.table \ st.hit IN
       \/ left = {} /\ Finish /\ Quiet
       \/ \E b \in left : /\ Go([st EXCEPT !.hit = @ \cup {b}])
                          /\ Emits(<<Template(Probe), b>>)

-----------------------------------------------------------------------------
(* MergeJoinExec over two inputs sorted ascending (INNER only).  lrun and  *)
(* rrun are the runs of equal keys being multiplied out.                   *)

MergeInit == [phase |-> "merge", l |-> 1, r |-> 1, lrun |-> << >>, rrun |-> << >>, li |-> 1, ri |-> 1]

\* load_left_run, load_right_run: the rows from `at` with the key of the first.
RunEnd(rows, at) ==
  CHOOSE e \in at .. Len(rows) :
    /\ \A i \in at .. e : rows[i] = rows[at]
    /\ e = Len(rows) \/ rows[e + 1] # rows[at]
Run(rows, at) == [i \in 1 .. RunEnd(rows, at) - at + 1 |-> at + i - 1]

MergeEmit ==
  /\ plan.op = "merge" /\ st.phase = "merge"
  /\ st.li <= Len(st.lrun) /\ st.ri <= Len(st.rrun)
  /\ Go(IF st.ri = Len(st.rrun) THEN [st EXCEPT !.ri = 1, !.li = @ + 1]
                                ELSE [st EXCEPT !.ri = @ + 1])
  /\ Emits(<<st.lrun[st.li], st.rrun[st.ri]>>)

MergeAdvance ==
  /\ plan.op = "merge" /\ st.phase = "merge"
  /\ ~(st.li <= Len(st.lrun) /\ st.ri <= Len(st.rrun))
  /\ LET idle == [st EXCEPT !.lrun = << >>, !.rrun = << >>, !.li = 1, !.ri = 1] IN
       IF st.l > Len(L) \/ st.r > Len(R)
       THEN Go([idle EXCEPT !.phase = "done"])
       ELSE LET lk == L[st.l]
                rk == R[st.r]
            IN CASE lk = Null \/ (rk # Null /\ ValueLt(lk, rk)) -> Go([idle EXCEPT !.l = @ + 1])
                 [] lk # Null /\ (rk = Null \/ ValueLt(rk, lk)) -> Go([idle EXCEPT !.r = @ + 1])
                 [] OTHER -> Go([idle EXCEPT !.lrun = Run(L, st.l), !.rrun = Run(R, st.r),
                                             !.l = RunEnd(L, st.l) + 1, !.r = RunEnd(R, st.r) + 1])
  /\ Quiet

-----------------------------------------------------------------------------
(* apply_set_op and dedupe_records over rows that are their keys.          *)

Count(s, v) == Cardinality({i \in DOMAIN s : s[i] = v})
Values(s) == {s[i] : i \in DOMAIN s}

SetInit == [phase |-> "set", at |-> 1, left |-> [v \in Values(R) |-> Count(R, v)], seen |-> {}]

SetInput == IF plan.type = "union" THEN L \o R ELSE L

\* One row of the scan: `left` counts the right rows an ALL form may still use.
SetStep ==
  /\ plan.op = "set" /\ st.phase = "set" /\ st.at <= Len(SetInput)
  /\ LET v == SetInput[st.at]
         onRight == v \in DOMAIN st.left /\ (plan.all => st.left[v] > 0)
         keep == CASE plan.type = "union"     -> TRUE
                   [] plan.type = "intersect" -> onRight
                   [] plan.type = "except"    -> ~onRight
         used == plan.all /\ plan.type # "union" /\ onRight
         emit == keep /\ (plan.all \/ v \notin st.seen)
     IN /\ Go([st EXCEPT !.at = @ + 1,
                 !.left = IF used THEN [@ EXCEPT ![v] = @ - 1] ELSE @,
                 !.seen = IF keep THEN @ \cup {v} ELSE @])
        /\ IF emit THEN Emits(v) ELSE Quiet

SetDone ==
  /\ plan.op = "set" /\ st.phase = "set" /\ st.at > Len(SetInput)
  /\ Finish /\ Quiet

-----------------------------------------------------------------------------
(* ORDER BY ... LIMIT: SortExec under LimitExec (which WITH TIES keeps), or *)
(* the fused TopNExec, a heap of skip + fetch entries.                     *)

\* cmp_sort_keys: blanks first or last whatever the direction.
KeyLess(a, b) ==
  CASE is_null(a) \/ is_null(b) -> IF plan.nullsFirst THEN is_null(a) /\ ~is_null(b)
                                                      ELSE ~is_null(a) /\ is_null(b)
    [] plan.asc -> ValueLt(a, b)
    [] OTHER -> ValueLt(b, a)
Peers(a, b) == ~KeyLess(a, b) /\ ~KeyLess(b, a)

SortInit == [phase |-> IF plan.op = "topn" THEN "fill" ELSE "sort",
             at |-> 1, rows |-> << >>, heap |-> {}, taken |-> 0]

\* A stable sort of positions (sort_by).
Rank(i) == Cardinality({j \in DOMAIN L : KeyLess(L[j], L[i]) \/ (Peers(L[j], L[i]) /\ j <= i)})
Sorted == [k \in DOMAIN L |-> CHOOSE i \in DOMAIN L : Rank(i) = k]

Materialize ==
  /\ plan.op = "limit" /\ st.phase = "sort"
  /\ Go([st EXCEPT !.phase = "limit", !.rows = Sorted, !.at = plan.skip + 1])
  /\ Quiet

LimitNext ==
  /\ plan.op = "limit" /\ st.phase = "limit"
  /\ LET tie == plan.ties /\ plan.fetch > 0
                /\ Peers(L[st.rows[st.at]], L[st.rows[plan.skip + plan.fetch]])
     IN IF st.at <= Len(L) /\ (st.taken < plan.fetch \/ tie)
        THEN /\ Go([st EXCEPT !.at = @ + 1, !.taken = @ + 1])
             /\ Emits(st.rows[st.at])
        ELSE Finish /\ Quiet

\* Push one row; over capacity, pop a worst one.
HeapPush ==
  /\ plan.op = "topn" /\ st.phase = "fill" /\ st.at <= Len(L)
  /\ LET k == plan.skip + plan.fetch
         h == st.heap \cup {st.at}
         worst == {i \in h : \A j \in h : ~KeyLess(L[i], L[j])}
     IN \E victim \in (IF Cardinality(h) > k THEN worst ELSE {0}) :
          Go([st EXCEPT !.at = @ + 1, !.heap = h \ {victim}])
  /\ Quiet

\* into_sorted_vec, drop the skipped, keep fetch.
HeapDrain ==
  /\ plan.op = "topn" /\ st.phase = "fill" /\ st.at > Len(L)
  /\ IF st.taken = plan.skip + plan.fetch \/ st.heap = {}
     THEN Finish /\ Quiet
     ELSE \E i \in {i \in st.heap : \A j \in st.heap : ~KeyLess(L[j], L[i])} :
            /\ Go([st EXCEPT !.heap = @ \ {i}, !.taken = @ + 1])
            /\ IF st.taken >= plan.skip THEN Emits(i) ELSE Quiet

-----------------------------------------------------------------------------
Init ==
  /\ plan \in Plans
  /\ st = CASE plan.op = "nlj" -> NljInit
            [] plan.op = "hash" -> HashInit
            [] plan.op = "merge" -> MergeInit
            [] plan.op = "set" -> SetInit
            [] OTHER -> SortInit
  /\ out = << >>

Next ==
  \/ NljPull \/ NljTest \/ NljExhaust \/ NljOuterDone \/ NljDangling
  \/ BuildSide \/ ProbeNext \/ ProbeMatch \/ ProbeDone \/ HashDangling
  \/ MergeEmit \/ MergeAdvance
  \/ SetStep \/ SetDone
  \/ Materialize \/ LimitNext \/ HeapPush \/ HeapDrain

Spec == Init /\ [][Next]_vars

-----------------------------------------------------------------------------
(* What SQL asks of the joins: positions of matching rows, a missing side  *)
(* padded.                                                                 *)

JoinMatch(i, j) == IF plan.op = "nlj" THEN Holds(L[i], R[j]) ELSE SqlEq(L[i], R[j])

JoinRows ==
  LET matched == {p \in (DOMAIN L) \X (DOMAIN R) : JoinMatch(p[1], p[2])}
      loneL == {i \in DOMAIN L : \A j \in DOMAIN R : ~JoinMatch(i, j)}
      loneR == {j \in DOMAIN R : \A i \in DOMAIN L : ~JoinMatch(i, j)}
  IN CASE Semi -> {<<i, Pad>> : i \in DOMAIN L \ loneL}
       [] plan.type = "not_exists" -> {<<i, Pad>> : i \in loneL}
       [] plan.type = "not_in" ->
            {<<i, Pad>> : i \in {i \in loneL : R = << >> \/ (~is_null(L[i]) /\ Blank \notin Values(R))}}
       [] OTHER -> matched
            \cup (IF plan.type \in {"left", "full"} THEN {<<i, Pad>> : i \in loneL} ELSE {})
            \cup (IF plan.type \in {"right", "full"} THEN {<<Pad, j>> : j \in loneR} ELSE {})

\* Where the code departs from SQL.  A hash or merge join takes the blank text
\* of a NULL column for an ordinary key, so two NULLs match; it tells 1 from
\* 1.0; an empty side pads with no columns at all; NOT IN ignores the NULLs of
\* the subquery, and NOT EXISTS drops a row whose own key is NULL.
NullsMeet == Blank \in Values(L) /\ Blank \in Values(R)
MixedKinds == \E a, b \in Values(L) \cup Values(R) : a # b /\ a.n = b.n
Padless == plan.type \in {"left", "right", "full"} /\ (L = << >> \/ R = << >>)
Departs ==
  \/ Padless
  \/ plan.op # "nlj" /\ MixedKinds
  \/ plan.op # "nlj" /\ ~Semi /\ ~Anti /\ NullsMeet
  \/ plan.type = "not_in" /\ (Blank \in Values(R) \/ (R = << >> /\ Blank \in Values(L)))
  \/ plan.type = "not_exists" /\ Blank \in Values(L)

(* A join that has returned None has returned the rows of its SQL join,    *)
(* each once, whichever of the three operators ran it and whichever side   *)
(* was built, unless the inputs are ones on which the code departs.        *)
JoinExact ==
  (plan.op \in {"nlj", "hash", "merge"} /\ st.phase = "done" /\ ~Departs) =>
    /\ Values(out) = JoinRows
    /\ Len(out) = Cardinality(JoinRows)

SetCount(v) ==
  LET a == Count(L, v)
      b == Count(R, v)
      once(n) == IF n > 0 THEN 1 ELSE 0
  IN CASE plan.type = "union" -> IF plan.all THEN a + b ELSE once(a + b)
       [] plan.type = "intersect" -> IF plan.all THEN (IF a < b THEN a ELSE b) ELSE once(a) * once(b)
       [] plan.type = "except" -> IF plan.all THEN (IF a > b THEN a - b ELSE 0)
                                             ELSE once(a) * (1 - once(b))

Before(i) == Cardinality({j \in DOMAIN L : KeyLess(L[j], L[i])})
NotAfter(i) == Cardinality({j \in DOMAIN L : ~KeyLess(L[i], L[j])})

LimitCount ==
  LET n == Len(L)
      avail == IF n > plan.skip THEN n - plan.skip ELSE 0
      plain == IF avail < plan.fetch THEN avail ELSE plan.fetch
  IN IF plan.op = "limit" /\ plan.ties /\ plain > 0
     THEN NotAfter(out[plain]) - plan.skip ELSE plain

(* A set operation returns each row as often as SQL's bag or set form says; *)
(* ORDER BY with OFFSET, LIMIT and WITH TIES returns at each position a row *)
(* that some sort puts there, and the two implementations return as many.  *)
RowsExact ==
  st.phase = "done" =>
    /\ plan.op = "set" => \A v \in Values(L) \cup Values(R) \cup Values(out) : Count(out, v) = SetCount(v)
    /\ plan.op \in {"limit", "topn"} =>
         /\ Cardinality(Values(out)) = Len(out)
         /\ Len(out) = LimitCount
         /\ \A p \in DOMAIN out : Before(out[p]) < plan.skip + p /\ plan.skip + p <= NotAfter(out[p])

(* Every operator returns the rows of its definition, each as often as it   *)
(* says: the two statements above, of all the operators.                   *)
OperatorExact == JoinExact /\ RowsExact
=============================================================================
