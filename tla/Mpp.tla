--------------------------------- MODULE Mpp ---------------------------------
(***************************************************************************)
(* The MPP coordinator of mpp.rs with the partition router of partition.rs *)
(* and the shuffle buffers of shuffle.rs: a query is cut into fragments,   *)
(* each fragment is dispatched to a worker, which scans its slice of its   *)
(* own replica, and the coordinator gathers or merges what comes back.     *)
(* Workers and partitions count from 0, and a key's hash is the key.       *)
(***************************************************************************)
EXTENDS Integers, Sequences, FiniteSets, SequencesExt

CONSTANTS
  N,           \* number of workers
  Capacity,    \* batches a shuffle buffer holds
  Queries,     \* the queries examined
  Contents,    \* the table contents examined
  NewRow,      \* the row a concurrent session inserts
  MaxFaults    \* bound on failed dispatches, replica lag and concurrent inserts

VARIABLES
  q,           \* the query
  data,        \* the rows on the coordinator's node
  replica,     \* worker -> the rows it has applied
  owners,      \* the partition map: partition -> worker
  st,          \* [phase, todo, retried, got, base]
  buffer,      \* partition -> messages in the coordinator's shuffle buffer
  faults,
  slips        \* history: what the query was exposed to

vars == <<q, data, replica, owners, st, buffer, faults, slips>>

Workers == 0 .. N - 1
Null == -1
SetMax(S) == CHOOSE x \in S : \A y \in S : y <= x
SetMin(S) == CHOOSE x \in S : \A y \in S : x <= y

-----------------------------------------------------------------------------
(* partition.rs.                                                           *)

hash_partition(key, parts) == key % (IF parts > 1 THEN parts ELSE 1)

Column(row) == IF q.column = "pk" THEN row.pk ELSE row.c

partition_count == CASE q.strategy = "none" -> 1
                     [] q.strategy = "hash" -> q.buckets
                     [] q.strategy = "range" -> Len(q.bounds)

\* PartitioningStrategy::partition_id.
partition_id(key) ==
  CASE q.strategy = "none" -> 0
    [] q.strategy = "hash" -> hash_partition(key, q.buckets)
    [] q.strategy = "range" ->
         LET above == {i \in 2 .. Len(q.bounds) : key < q.bounds[i]}
         IN IF above = {} THEN Len(q.bounds) - 1 ELSE SetMin(above) - 2

\* route_predicate and extract_partition_eq: the partitions to scan.
Routed ==
  IF q.where.on = q.column THEN {partition_id(q.where.key)} ELSE 0 .. partition_count - 1

Matches(row) == CASE q.where.on = "none" -> TRUE
                  [] q.where.on = "pk" -> row.pk = q.where.key
                  [] q.where.on = "c" -> row.c = q.where.key

-----------------------------------------------------------------------------
(* Workers.                                                                *)

\* Fragmenter: [worker, part, parts] in dispatch order.
ScanParts == IF partition_count > N THEN partition_count ELSE N
Fragments ==
  CASE q.kind = "scan" ->
         [i \in 1 .. Cardinality(Routed) |->
            LET p == CHOOSE p \in Routed : Cardinality({x \in Routed : x <= p}) = i
            IN [worker |-> owners[p], part |-> p, parts |-> ScanParts]]
    [] q.kind = "aggregate" -> [i \in 1 .. N |-> [worker |-> i - 1, part |-> i - 1, parts |-> N]]
    [] q.kind = "insert" ->
         [i \in 1 .. Len(q.rows) |->
            LET p == partition_id(Column(q.rows[i]))
            IN [worker |-> owners[p], part |-> p, parts |-> ScanParts]]

\* An insert looks its owner up row by row, a scan when it starts.
Target(f) == IF q.kind = "insert" THEN owners[f.part] ELSE f.worker
Local(f) == ~q.remote \/ Target(f) = 0
RowsAt(f) == IF Local(f) THEN data ELSE replica[Target(f)]

\* Mutant: the slice is taken modulo the number of workers.
scan_partition_by_workers(f) == {r \in RowsAt(f) : hash_partition(r.pk, N) = f.part}

\* scan_partition: the rows of the slice, by the hash of the primary key.
scan_partition(f) == {r \in RowsAt(f) : hash_partition(r.pk, f.parts) = f.part}

\* partial_aggregate and merge_partial_aggregates: per group the number of
\* rows, the sum of the values and the least and greatest, each a set.
Ints(rows) == {r \in rows : r.v # Null}
Total(rows) == FoldSet(LAMBDA r, a : r.v + a, 0, Ints(rows))
partial_aggregate(rows) ==
  {[g |-> g, count |-> Cardinality({r \in rows : r.g = g}),
    sum |-> Total({r \in rows : r.g = g}),
    min |-> {x \in {r.v : r \in {r \in Ints(rows) : r.g = g}} : \A r \in Ints(rows) : r.g = g => x <= r.v},
    max |-> {x \in {r.v : r \in {r \in Ints(rows) : r.g = g}} : \A r \in Ints(rows) : r.g = g => r.v <= x}] :
   g \in {r.g : r \in rows}}

merge_partial_aggregates(lists) ==
  LET all == UNION {{<<i, p>> : p \in lists[i]} : i \in DOMAIN lists}
      of(g) == {x \in all : x[2].g = g}
      count(g) == FoldSet(LAMBDA x, a : x[2].count + a, 0, of(g))
      sum(g) == FoldSet(LAMBDA x, a : x[2].sum + a, 0, of(g))
      mins(g) == UNION {x[2].min : x \in of(g)}
      maxs(g) == UNION {x[2].max : x \in of(g)}
  IN {<<g, CASE q.agg = "count" -> count(g)
             [] q.agg = "sum" -> sum(g)
             [] q.agg = "min" -> IF mins(g) = {} THEN 0 ELSE SetMin(mins(g))
             [] q.agg = "max" -> IF maxs(g) = {} THEN 0 ELSE SetMax(maxs(g))
             [] q.agg = "avg" -> sum(g) \div count(g)>> : g \in {x[2].g : x \in all}}

-----------------------------------------------------------------------------
(* The coordinator.                                                        *)

Fragment == Head(st.todo)
Behind(f) == RowsAt(f) # data

\* A partial aggregate run in this process also pushes, to every shuffle partition, its rows
\* hashed there (when there are any) and an end of stream.
Pushed(p, groups) == IF \E x \in groups : hash_partition(x.g, N) = p THEN 1 ELSE 0
HasRoom(groups) ==
  q.kind = "aggregate" /\ Local(Fragment) => \A p \in Workers : buffer[p] + Pushed(p, groups) <= Capacity
Push(groups) ==
  IF q.kind = "aggregate" /\ Local(Fragment)
  THEN [p \in Workers |-> LET b == buffer[p] + Pushed(p, groups) IN IF b < Capacity THEN b + 1 ELSE b]
  ELSE buffer

\* execute_insert: the owner is only touched, then the row is written here, in a
\* transaction of its own.
execute_insert == data \cup {q.rows[Len(st.got) + 1]}

\* execute_fragment on the worker.
Dispatch ==
  /\ st.phase = "run" /\ st.todo # << >>
  /\ LET f == Fragment
         rows == scan_partition(f)
         result == IF q.kind = "aggregate" THEN partial_aggregate(rows) ELSE rows
     IN /\ HasRoom(result)
        /\ buffer' = Push(result)
        /\ st' = [st EXCEPT !.todo = Tail(@), !.retried = FALSE, !.got = Append(@, result)]
        /\ data' = IF q.kind = "insert" THEN execute_insert ELSE data
        /\ slips' = slips \cup (IF Behind(f) THEN {"behind"} ELSE {})
                          \cup (IF q.kind = "insert" THEN {"written"} ELSE {})
  /\ UNCHANGED <<q, replica, owners, faults>>

\* dispatch: a transport error is retried once; a second error, or one that is not
\* transient, fails the query.
DispatchFails ==
  /\ st.phase = "run" /\ st.todo # << >> /\ ~Local(Fragment) /\ faults > 0
  /\ faults' = faults - 1
  /\ \E transient \in BOOLEAN :
       st' = IF transient /\ ~st.retried THEN [st EXCEPT !.retried = TRUE] ELSE [st EXCEPT !.phase = "failed"]
  /\ UNCHANGED <<q, data, replica, owners, buffer, slips>>

\* A gathered scan row carries the number of its fragment.
Gather ==
  /\ st.phase = "run" /\ st.todo = << >>
  /\ st' = [st EXCEPT !.phase = "done",
       !.got = CASE q.kind = "aggregate" -> merge_partial_aggregates(@)
                 [] q.kind = "scan" -> {x \in UNION {{<<i, r>> : r \in @[i]} : i \in DOMAIN @} : Matches(x[2])}
                 [] q.kind = "insert" -> {}]
  /\ buffer' = [p \in Workers |-> 0]
  /\ UNCHANGED <<q, data, replica, owners, faults, slips>>

\* Another session inserts (InsertExec); a replica applies what it lacks later.
Insert ==
  /\ faults > 0 /\ st.phase = "run" /\ NewRow \notin data
  /\ data' = data \cup {NewRow}
  /\ faults' = faults - 1
  /\ slips' = slips \cup {"written"}
  /\ UNCHANGED <<q, replica, owners, st, buffer>>

Replicate(w) ==
  /\ q.remote /\ replica[w] # data
  /\ replica' = [replica EXCEPT ![w] = data]
  /\ UNCHANGED <<q, data, owners, st, buffer, faults, slips>>

\* rebalance_table: rows per owner, then Rebalancer::plan_move and apply_move.
Load(w) == Cardinality({r \in data : owners[partition_id(Column(r))] = w})
Loaded == {w \in Workers : \E r \in data : owners[partition_id(Column(r))] = w}
Rebalance ==
  /\ q.strategy # "none" /\ Cardinality(Loaded) >= 2
  /\ \E hot, cold \in Loaded :
       /\ \A w \in Loaded : Load(w) <= Load(hot) /\ Load(cold) <= Load(w)
       /\ hot # cold /\ Load(hot) >= 2 /\ Load(hot) >= 2 * Load(cold)
       /\ LET p == SetMin({p \in DOMAIN owners : owners[p] = hot})
          IN owners' = [owners EXCEPT ![p] = cold]
  /\ UNCHANGED <<q, data, replica, st, buffer, faults, slips>>

Start ==
  /\ st.phase = "plan"
  /\ st' = [st EXCEPT !.phase = "run", !.todo = Fragments, !.base = data]
  /\ UNCHANGED <<q, data, replica, owners, buffer, faults, slips>>

Init ==
  /\ q \in Queries
  /\ data \in Contents
  /\ \E lag \in {{}, {SetMax({r.pk : r \in data})}} :
       replica = [w \in Workers |-> IF q.remote /\ w # 0 THEN {r \in data : r.pk \notin lag} ELSE data]
  /\ owners = [p \in 0 .. partition_count - 1 |-> p % N]
  /\ st = [phase |-> "plan", todo |-> << >>, retried |-> FALSE, got |-> << >>, base |-> {}]
  /\ buffer = [p \in Workers |-> 0]
  /\ faults = MaxFaults
  /\ slips = {}

Next ==
  \/ Start \/ Dispatch \/ DispatchFails \/ Gather \/ Insert \/ Rebalance
  \/ \E w \in Workers : Replicate(w)

Spec == Init /\ [][Next]_vars

-----------------------------------------------------------------------------
\* What the query asks of the rows it started from.
AggregateAsked ==
  LET rows == {r \in st.base : Matches(r)}
      vals(g) == {r \in Ints(rows) : r.g = g}
  IN {<<g, CASE q.agg = "count" -> Cardinality({r \in rows : r.g = g})
             [] q.agg = "sum" -> Total(vals(g))
             [] q.agg = "min" -> SetMin({r.v : r \in vals(g)})
             [] q.agg = "max" -> SetMax({r.v : r \in vals(g)})
             [] q.agg = "avg" -> Total(vals(g)) \div Cardinality(vals(g))>> : g \in {r.g : r \in rows}}

\* Slices go by the hash of the primary key over at least N parts, partitions
\* by the partition column over their own count; the two must agree.
Aligned == /\ partition_count >= N
           /\ q.where.on = q.column => q.column = "pk" /\ q.strategy = "hash"
Nulls == \E r \in st.base : r.v = Null
Pruned == q.kind = "aggregate" /\ q.where.on # "none"

(* A distributed scan or aggregate returns what the rows it started from   *)
(* hold, each row counted once, whatever dispatches were retried and       *)
(* partitions moved, unless a row was written meanwhile or a worker's      *)
(* replica was behind (fragments share no snapshot), the slices do not     *)
(* line up with the partitions, an aggregated value is NULL (AVG divides   *)
(* by all rows, MIN and MAX give 0), or the aggregate has a WHERE (the     *)
(* coordinator drops it). A routed INSERT that returns stored every row,   *)
(* and one that fails a prefix of them; and no local fragment waits for    *)
(* room in a shuffle buffer only the coordinator would drain.              *)
GatherExact ==
  /\ st.phase = "done" /\ slips = {} =>
       /\ q.kind = "scan" /\ Aligned =>
            /\ {x[2] : x \in st.got} = {r \in st.base : Matches(r)}
            /\ \A x, y \in st.got : x[2] = y[2] => x = y
       /\ q.kind = "aggregate" /\ ~Nulls /\ ~Pruned => st.got = AggregateAsked
  /\ q.kind = "insert" /\ st.phase \in {"done", "failed"} =>
       \E k \in 0 .. Len(q.rows) :
         /\ st.phase = "done" => k = Len(q.rows)
         /\ data \ (st.base \cup {NewRow}) = {q.rows[i] : i \in 1 .. k}
  /\ st.phase = "run" /\ st.todo # << >> /\ 2 * N <= Capacity =>
       HasRoom(IF q.kind = "aggregate" THEN partial_aggregate(scan_partition(Fragment)) ELSE {})
=============================================================================
