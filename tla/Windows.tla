------------------------------- MODULE Windows -------------------------------
(***************************************************************************)
(* WindowExec of executor.rs: one window call over a materialised input.   *)
(* Sort orders the rows by PARTITION BY and ORDER BY; Cell then walks them *)
(* and computes one output cell per row, as the loop of materialize does.  *)
(*                                                                         *)
(* A row is [p, o, v]: its partition key, its order key and whether its    *)
(* value is NULL; the cell of a value function is the position of the row  *)
(* it takes its value from (0 for NULL), and the cell of an aggregate is   *)
(* the set of positions it folds.  Positions count from 1, and a partition *)
(* or frame is a start and an exclusive end, as in the code.  FILTER, a    *)
(* default for LAG and LEAD, and frames that start at UNBOUNDED FOLLOWING  *)
(* or end at UNBOUNDED PRECEDING (SQL has none) are left out.              *)
(***************************************************************************)
EXTENDS Integers, Sequences, FiniteSets

CONSTANTS
  Calls,       \* the window calls examined
  Inputs       \* the inputs examined

VARIABLES
  call,        \* [kind, parted, ordered, asc, framed, units, start, end, exclude, nulls, offset]
  rows,        \* the rows: the input, then sorted
  st,          \* [phase, i, ps]: the row whose cell is next and where its partition starts
  out          \* the cells

vars == <<call, rows, st, out>>

MinOf(a, b) == IF a < b THEN a ELSE b
MaxOf(a, b) == IF a > b THEN a ELSE b
Clamp(x, lo, hi) == MaxOf(lo, MinOf(x, hi))

n == Len(rows)

\* cmp_sort_keys on the one ORDER BY key, and the PARTITION BY comparison.
Before(a, b) == call.ordered /\ (IF call.asc THEN a.o < b.o ELSE a.o > b.o)
SameKey(a, b) == ~Before(a, b) /\ ~Before(b, a)
SamePart(a, b) == call.parted => a.p = b.p
RowLess(a, b) == (call.parted /\ a.p < b.p) \/ (SamePart(a, b) /\ Before(a, b))

\* rows.sort_by, a stable sort.
Rank(i) == Cardinality({j \in 1 .. n : RowLess(rows[j], rows[i])
                                        \/ (~RowLess(rows[i], rows[j]) /\ j <= i)})
Sort ==
  /\ st.phase = "sort"
  /\ rows' = [k \in 1 .. n |-> rows[CHOOSE i \in 1 .. n : Rank(i) = k]]
  /\ st' = [st EXCEPT !.phase = "cells"]
  /\ UNCHANGED <<call, out>>

\* part_ends: the end of the run of equal partition keys around i.
PartEnd(i) ==
  CHOOSE e \in i + 1 .. n + 1 : /\ \A j \in i .. e - 1 : SamePart(rows[i], rows[j])
                                /\ e = n + 1 \/ ~SamePart(rows[i], rows[e])

-----------------------------------------------------------------------------
(* The frame of row i in the partition [ps, pe).                           *)

\* peer_group_range.
PeerStart(i, ps) ==
  CHOOSE s \in ps .. i : /\ \A j \in s .. i : SameKey(rows[j], rows[i])
                         /\ s = ps \/ ~SameKey(rows[s - 1], rows[i])
PeerEnd(i, pe) ==
  CHOOSE e \in i + 1 .. pe : /\ \A j \in i .. e - 1 : SameKey(rows[i], rows[j])
                             /\ e = pe \/ ~SameKey(rows[i], rows[e])

\* finish_window_call: EXCLUDE without a frame implies SQL's default frame.
Framed == call.framed \/ call.exclude # "none"
Units == IF call.framed THEN call.units ELSE "range"
Start == IF call.framed THEN call.start ELSE [b |-> "up", k |-> 0]
End == IF call.framed THEN call.end ELSE [b |-> IF call.ordered THEN "cur" ELSE "uf", k |-> 0]
Offset(bound) == bound.b \in {"pre", "fol"}

\* resolve_rows_bound.
RowsBound(bound, i, ps, pe, asEnd) ==
  LET inclusive == CASE bound.b = "up" -> ps
                     [] bound.b = "uf" -> pe - 1
                     [] bound.b = "cur" -> i
                     [] bound.b = "pre" -> MaxOf(i - bound.k, ps)
                     [] bound.b = "fol" -> MinOf(i + bound.k, pe - 1)
  IN IF bound.b = "uf" THEN pe
     ELSE Clamp(IF asEnd THEN inclusive + 1 ELSE inclusive, ps, pe)

NonEmpty(s, e, pe) == IF s >= e THEN <<MinOf(s, pe), MinOf(s, pe)>> ELSE <<s, e>>

RowsFrame(i, ps, pe) ==
  NonEmpty(RowsBound(Start, i, ps, pe, FALSE), RowsBound(End, i, ps, pe, TRUE), pe)

PeerFrame(i, ps, pe) ==
  LET s == IF Start.b = "up" THEN ps ELSE PeerStart(i, ps)
      e == IF End.b = "uf" THEN pe ELSE PeerEnd(i, pe)
  IN NonEmpty(s, e, pe)

\* range_bound_value: how far the bound lies along the ORDER BY direction.
RangeValue(i, bound) ==
  LET step == CASE bound.b = "pre" -> -bound.k [] bound.b = "fol" -> bound.k [] OTHER -> 0
  IN IF call.asc THEN rows[i].o + step ELSE rows[i].o - step

\* range_value_offset_frame: the first contiguous stretch within the bounds,
\* widened to whole peer groups.
ValueFrame(i, ps, pe) ==
  LET reaches(j) == Start.b = "up" \/ (IF call.asc THEN rows[j].o >= RangeValue(i, Start)
                                                   ELSE rows[j].o <= RangeValue(i, Start))
      within(j) == End.b = "uf" \/ (IF call.asc THEN rows[j].o <= RangeValue(i, End)
                                                ELSE rows[j].o >= RangeValue(i, End))
      inRange == {j \in ps .. pe - 1 : reaches(j) /\ within(j)}
      first == CHOOSE j \in inRange : \A k \in inRange : j <= k
      last == CHOOSE j \in inRange : /\ first .. j \subseteq inRange
                                     /\ j + 1 \notin inRange
  IN IF inRange = {} THEN <<i, i>> ELSE <<PeerStart(first, ps), PeerEnd(last, pe)>>

\* groups_frame_range over build_peer_groups.
GroupStarts(ps, pe) == {PeerStart(j, ps) : j \in ps .. pe - 1}
GroupNo(j, ps, pe) == Cardinality({s \in GroupStarts(ps, pe) : s <= j})
GroupsFrame(i, ps, pe) ==
  LET starts == GroupStarts(ps, pe)
      groups == Cardinality(starts)
      cur == GroupNo(i, ps, pe)
      from == CASE Start.b = "up" -> 1
                [] Start.b = "cur" -> cur
                [] Start.b = "pre" -> MaxOf(cur - Start.k, 1)
                [] Start.b = "fol" -> MinOf(cur + Start.k, groups + 1)
      to == CASE End.b = "uf" -> groups
              [] End.b = "cur" -> cur
              [] End.b = "fol" -> MinOf(cur + End.k, groups)
              [] End.b = "pre" -> MaxOf(cur - End.k, 0)
      at(g) == CHOOSE s \in starts : GroupNo(s, ps, pe) = g
  IN IF from > to \/ from > groups THEN <<i, i>> ELSE <<at(from), PeerEnd(at(to), pe)>>

\* window_frame_range.
Frame(i, ps, pe) ==
  CASE ~Framed -> <<ps, pe>>
    [] Framed /\ Units = "rows" -> RowsFrame(i, ps, pe)
    [] Framed /\ Units = "groups" -> GroupsFrame(i, ps, pe)
    [] OTHER -> IF Offset(Start) \/ Offset(End) THEN ValueFrame(i, ps, pe) ELSE PeerFrame(i, ps, pe)

\* frame_excludes_row, window_frame_members.
Excluded(j, i, ps, pe) ==
  LET peer == PeerStart(i, ps) <= j /\ j < PeerEnd(i, pe) IN
  CASE call.exclude = "none" -> FALSE
    [] call.exclude = "row" -> j = i
    [] call.exclude = "group" -> peer
    [] call.exclude = "ties" -> peer /\ j # i

Members(i, ps, pe) ==
  LET f == Frame(i, ps, pe) IN {j \in f[1] .. f[2] - 1 : ~Excluded(j, i, ps, pe)}

-----------------------------------------------------------------------------
(* The cell of row i, by kind of call.                                     *)

\* The k-th smallest or largest element of S, or 0.
Nth(S, k) == LET hits == {j \in S : Cardinality({x \in S : x <= j}) = k}
             IN IF hits = {} THEN 0 ELSE CHOOSE j \in hits : TRUE
NthLast(S, k) == Nth(S, Cardinality(S) + 1 - k)
Valued(S) == IF call.nulls = "ignore" THEN {j \in S : rows[j].v # "null"} ELSE S

\* Mutant: RANK counts peer groups, not rows.
RankCellDense(i, ps) ==
  CASE i = ps -> 1
    [] i > ps /\ SameKey(rows[i - 1], rows[i]) -> out[i - 1]
    [] OTHER -> out[i - 1] + 1

RankCell(i, ps) ==
  CASE i = ps -> 1
    [] i > ps /\ SameKey(rows[i - 1], rows[i]) -> out[i - 1]
    [] OTHER -> IF call.kind = "rank" THEN i - ps + 1 ELSE out[i - 1] + 1

\* ntile_bucket.
NtileCell(local, len) ==
  LET k == call.offset
      size == len \div k
      rem == len % k
  IN IF k >= len THEN local + 1
     ELSE IF local < rem * (size + 1) THEN (local \div (size + 1)) + 1
     ELSE rem + ((local - rem * (size + 1)) \div size) + 1

\* LAG and LEAD count steps; IGNORE NULLS counts only rows with a value.
LagCell(i, ps) ==
  IF call.nulls = "ignore" THEN NthLast(Valued(ps .. i - 1), call.offset)
  ELSE IF i - call.offset >= ps THEN i - call.offset ELSE 0
LeadCell(i, pe) ==
  IF call.nulls = "ignore" THEN Nth(Valued(i + 1 .. pe - 1), call.offset)
  ELSE IF i + call.offset < pe THEN i + call.offset ELSE 0

\* PERCENT_RANK and CUME_DIST as numerator and denominator.
PercentCell(i, ps, pe) ==
  IF pe - ps <= 1 THEN <<0, 1>> ELSE <<PeerStart(i, ps) - ps, pe - ps - 1>>
CumeCell(i, ps, pe) == <<PeerEnd(i, pe) - ps, pe - ps>>

CellOf(i, ps, pe) ==
  CASE call.kind = "row_number" -> i - ps + 1
    [] call.kind \in {"rank", "dense_rank"} -> RankCell(i, ps)
    [] call.kind = "ntile" -> NtileCell(i - ps, pe - ps)
    [] call.kind = "lag" -> LagCell(i, ps)
    [] call.kind = "lead" -> LeadCell(i, pe)
    [] call.kind = "percent_rank" -> PercentCell(i, ps, pe)
    [] call.kind = "cume_dist" -> CumeCell(i, ps, pe)
    [] call.kind = "first" -> Nth(Valued(Members(i, ps, pe)), 1)
    [] call.kind = "last" -> NthLast(Valued(Members(i, ps, pe)), 1)
    [] call.kind = "nth" -> Nth(Valued(Members(i, ps, pe)), call.offset)
    [] call.kind = "aggregate" -> Members(i, ps, pe)

Cell ==
  /\ st.phase = "cells" /\ st.i <= n
  /\ LET new == st.i > 1 /\ ~SamePart(rows[st.i - 1], rows[st.i])
         ps == IF new THEN st.i ELSE st.ps
     IN /\ out' = Append(out, CellOf(st.i, ps, PartEnd(st.i)))
        /\ st' = [st EXCEPT !.i = @ + 1, !.ps = ps]
  /\ UNCHANGED <<call, rows>>

Init ==
  /\ call \in Calls
  /\ rows \in Inputs
  /\ st = [phase |-> "sort", i |-> 1, ps |-> 1]
  /\ out = << >>

Next == Sort \/ Cell

Spec == Init /\ [][Next]_vars

-----------------------------------------------------------------------------
(* What each cell should be, from the partition and the order alone.       *)

Part(i) == {j \in 1 .. n : SamePart(rows[i], rows[j])}
Peers(i) == {j \in Part(i) : SameKey(rows[i], rows[j])}
Ahead(i) == {j \in Part(i) : Before(rows[j], rows[i])}
GroupsAhead(i, j) == Cardinality({rows[k].o : k \in {k \in Part(i) : Before(rows[k], rows[j])}})

\* How far row j lies after row i in the units of the frame.
Distance(i, j) ==
  CASE Units = "rows" -> j - i
    [] Units = "groups" -> GroupsAhead(i, j) - GroupsAhead(i, i)
    [] OTHER -> CASE ~call.ordered -> 0
                  [] call.ordered /\ call.asc -> rows[j].o - rows[i].o
                  [] OTHER -> rows[i].o - rows[j].o
Bound(b) == CASE b.b = "pre" -> -b.k [] b.b = "fol" -> b.k [] OTHER -> 0

\* SQL's frame; the default one ends with the current row's peers.
SqlFrame(i) ==
  {j \in Part(i) : /\ Start.b = "up" \/ Distance(i, j) >= Bound(Start)
                   /\ End.b = "uf" \/ Distance(i, j) <= Bound(End)}

\* Where the code takes another.  With no frame and no exclusion written it takes
\* the partition, also under ORDER BY (finish_window_call calls the other one the
\* default).  resolve_rows_bound clamps a bound into the partition before it
\* compares the two, so a ROWS frame that lies wholly before or after the
\* partition keeps its first or last row instead of being empty.
WholePartition == ~Framed /\ call.ordered
BeforePartition(i) == Framed /\ Units = "rows" /\ End.b = "pre" /\ i - End.k \notin Part(i)
AfterPartition(i) == Framed /\ Units = "rows" /\ Start.b = "fol" /\ i + Start.k \notin Part(i)

MeantMembers(i) ==
  LET frame == CASE WholePartition -> Part(i)
                 [] BeforePartition(i) -> {j \in Part(i) : \A k \in Part(i) : j <= k}
                 [] AfterPartition(i) -> {j \in Part(i) : \A k \in Part(i) : j >= k}
                 [] OTHER -> SqlFrame(i)
      gone == CASE call.exclude = "none" -> {}
                [] call.exclude = "row" -> {i}
                [] call.exclude = "group" -> Peers(i)
                [] call.exclude = "ties" -> Peers(i) \ {i}
  IN frame \ gone

\* NTILE: the first buckets take one row more, and buckets are contiguous.
NtileEnd(k, len) == k * (len \div call.offset) + MinOf(k, len % call.offset)

MeantCell(i) ==
  LET earlier == {j \in Part(i) : j < i}
      later == {j \in Part(i) : j > i}
      len == Cardinality(Part(i))
  IN CASE call.kind = "row_number" -> Cardinality(earlier) + 1
       [] call.kind = "rank" -> Cardinality(Ahead(i)) + 1
       [] call.kind = "dense_rank" -> GroupsAhead(i, i) + 1
       [] call.kind = "ntile" -> CHOOSE k \in 1 .. call.offset :
                                   /\ NtileEnd(k - 1, len) <= Cardinality(earlier)
                                   /\ Cardinality(earlier) < NtileEnd(k, len)
       [] call.kind = "lag" -> NthLast(Valued(earlier), call.offset)
       [] call.kind = "lead" -> Nth(Valued(later), call.offset)
       [] call.kind = "percent_rank" -> IF len = 1 THEN <<0, 1>> ELSE <<Cardinality(Ahead(i)), len - 1>>
       [] call.kind = "cume_dist" -> <<Cardinality(Ahead(i) \cup Peers(i)), len>>
       [] call.kind = "first" -> Nth(Valued(MeantMembers(i)), 1)
       [] call.kind = "last" -> NthLast(Valued(MeantMembers(i)), 1)
       [] call.kind = "nth" -> Nth(Valued(MeantMembers(i)), call.offset)
       [] call.kind = "aggregate" -> MeantMembers(i)

(* When every cell is computed, each is the one SQL defines from its       *)
(* partition, peers and frame, for every kind of call, frame unit and      *)
(* exclusion, with ties, gaps and NULLs, save for the three frames above,  *)
(* where it is the cell of the frame named there.                          *)
WindowExact ==
  Len(out) = n /\ st.phase = "cells" => \A i \in 1 .. n : out[i] = MeantCell(i)
=============================================================================
