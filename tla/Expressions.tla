---------------------------- MODULE Expressions -----------------------------
(***************************************************************************)
(* Expressions over one row (sql.rs), and the three ways a row is tested:   *)
(* interpreted (executor.rs), compiled (jit.rs) and in batches              *)
(* (vectorized.rs).                                                         *)
(*                                                                          *)
(* A value is a stored text: of a number, which is given in halves (an odd  *)
(* one is a float), of the same number with a ".0" behind it, Spelt, which  *)
(* is a float too, or the empty one, which is Null.  TRUE is the number 1,  *)
(* as as_f64 has it.                                                        *)
(***************************************************************************)
EXTENDS Integers

Null == -1
Error == -2
Bool(b) == IF b THEN 2 ELSE 0
Spelt(n) == n + 1000
as_f64(v) == IF v >= 1000 THEN v - 1000 ELSE v
is_truthy(v) == v # Null /\ as_f64(v) # 0
is_int(v) == v < 1000 /\ v % 2 = 0
\* A value that is stored or looked up again has the shortest text of its number.
value_to_field(v) == as_f64(v)

-----------------------------------------------------------------------------
(* Expressions.  A column is written bare or with its table's name; an outer *)
(* reference always with it.                                                 *)
Nothing == [k |-> "none"]
Lit(n) == [k |-> "lit", n |-> n]
Col(c, bare) == [k |-> "col", c |-> c, bare |-> bare]
OuterRef(c) == [k |-> "outer", c |-> c]
BinaryOp(l, op, r) == [k |-> "cmp", op |-> op, l |-> l, r |-> r]
And(l, r) == [k |-> "and", l |-> l, r |-> r]
Or(l, r) == [k |-> "or", l |-> l, r |-> r]
Not(e) == [k |-> "not", e |-> e]
IsNull(e) == [k |-> "isnull", e |-> e]
InList(e, list, neg) == [k |-> "inlist", e |-> e, list |-> list, neg |-> neg]
Subquery(col, star, pred) == [col |-> col, star |-> star, pred |-> pred]
InSubquery(e, sub, neg) == [k |-> "insub", e |-> e, sub |-> sub, neg |-> neg]
Exists(sub, neg) == [k |-> "exists", sub |-> sub, neg |-> neg]
ScalarSubquery(sub) == [k |-> "scalar", sub |-> sub]

SubqueryKinds == {"insub", "exists", "scalar"}

\* The nodes of an expression, without those of its subqueries.
RECURSIVE Nodes(_)
Nodes(e) ==
  {e} \union (CASE e.k \in {"cmp", "and", "or"} -> Nodes(e.l) \union Nodes(e.r)
                [] e.k \in {"not", "isnull", "inlist", "insub"} -> Nodes(e.e)
                [] OTHER -> {})

Columns(e) == {s.c : s \in {s \in Nodes(e) : s.k = "col"}}
expression_has_subquery(e) == \E s \in Nodes(e) : s.k \in SubqueryKinds
plan_is_correlated(sub) == \E s \in Nodes(sub.pred) : s.k = "outer"
predicate_has_correlated(e) == \E s \in Nodes(e) : s.k \in SubqueryKinds /\ plan_is_correlated(s.sub)
is_jit_compilable(e) == \A s \in Nodes(e) : s.k \in {"col", "lit", "cmp", "and", "or", "inlist"}

-----------------------------------------------------------------------------
(* Evaluation of a row, interpreted.                                         *)
Compare(op, a, b) ==
  CASE op = "=" -> a = b [] op = "<>" -> a # b [] op = "<" -> a < b [] op = ">" -> a > b
Holds(op, a, b) == Compare(op, as_f64(a), as_f64(b))

sql_and_3vl(a, b) == IF 0 \in {a, b} THEN Bool(FALSE) ELSE IF Null \in {a, b} THEN Null ELSE Bool(TRUE)
sql_or_3vl(a, b) == IF is_truthy(a) \/ is_truthy(b) THEN Bool(TRUE) ELSE IF Null \in {a, b} THEN Null ELSE Bool(FALSE)

Member(v, list, neg) ==
  IF v = Null THEN Null
  ELSE IF \E w \in list \ {Null} : Holds("=", v, w) THEN Bool(~neg) ELSE IF Null \in list THEN Null ELSE Bool(neg)

RECURSIVE evaluate(_, _)
evaluate(e, row) ==
  LET both(F(_, _)) == LET l == evaluate(e.l, row) r == evaluate(e.r, row)
                       IN IF Error \in {l, r} THEN Error ELSE F(l, r)
      one(F(_)) == LET v == evaluate(e.e, row) IN IF v = Error THEN Error ELSE F(v)
  IN CASE e.k \in {"col", "outer"} -> IF e.c \in DOMAIN row THEN row[e.c] ELSE Error
       [] e.k = "lit" -> e.n
       [] e.k = "cmp" -> both(LAMBDA l, r : IF Null \in {l, r} THEN Null ELSE Bool(Holds(e.op, l, r)))
       [] e.k = "and" -> both(sql_and_3vl)
       [] e.k = "or" -> both(sql_or_3vl)
       [] e.k = "not" -> one(LAMBDA v : IF v = Null THEN Null ELSE Bool(~is_truthy(v)))
       [] e.k = "isnull" -> one(LAMBDA v : Bool(v = Null))
       [] e.k = "inlist" -> one(LAMBDA v : Member(v, e.list, e.neg))
       [] OTHER -> Error

evaluate_bool(e, row) == LET v == evaluate(e, row) IN IF v = Error THEN Error ELSE Bool(is_truthy(v))

\* jit.rs: a row is packed into integers, NULL as 0 and a float as its bits, which
\* are more than any small integer; the code compares and combines integers.
pack_row(v) == IF v = Null THEN 0 ELSE IF is_int(v) THEN v ELSE v + 5000

RECURSIVE lower_expr(_, _)
lower_expr(e, row) ==
  CASE e.k = "col" -> pack_row(row[e.c])
    [] e.k = "lit" -> pack_row(e.n)
    [] e.k = "cmp" -> Bool(Compare(e.op, lower_expr(e.l, row), lower_expr(e.r, row)))
    [] e.k = "and" -> Bool(lower_expr(e.l, row) # 0 /\ lower_expr(e.r, row) # 0)
    [] e.k = "or" -> Bool(lower_expr(e.l, row) # 0 \/ lower_expr(e.r, row) # 0)
    [] e.k = "inlist" -> Bool((\E v \in e.list \ {Null} : lower_expr(e.e, row) = pack_row(v)) # e.neg)

\* vectorized.rs: a batch holds numbers, 0 for what is none; records made of a
\* batch have its columns and no others.
record_f64(v) == IF v = Null THEN 0 ELSE as_f64(v)
from_records(row, columns) == [c \in columns |-> record_f64(row[c])]
eval_predicate_mask(e, row) == evaluate_bool(e, from_records(row, Columns(e)))
=============================================================================
