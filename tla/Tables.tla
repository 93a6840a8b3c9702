------------------------------- MODULE Tables --------------------------------
(***************************************************************************)
(* Tables over the versioned key space: the record operations of txn.rs,   *)
(* the INSERT, UPDATE and DELETE executors, and the DDL and vacuum of      *)
(* engine.rs, which run as several transactions and catalog writes while   *)
(* sessions keep working.                                                  *)
(*                                                                         *)
(* A storage key is the sequence of its parts between the '_' separators,  *)
(* so the name t_x is <<"t", "x">> and the prefix scan of table t meets    *)
(* its keys.  Each table has a primary key and one UNIQUE column, with a   *)
(* secondary index or without; "" is NULL.  A statement runs on a snapshot *)
(* and is one step; what other sessions can see of it is its commit.       *)
(***************************************************************************)
EXTENDS Integers, Sequences, SequencesExt, Versions

CONSTANTS
  Sessions, Names,
  Scenarios,       \* [cat, rows, auto, stmts, ops]: initial tables, whether sessions
                   \* auto-commit, their statements, the commands in order
  MaxStatements    \* bound on statements, over all sessions

VARIABLES
  store,     \* set of versions [key, seq, val]
  clock,     \* last_applied
  cat,       \* catalog: table name -> [indexed, uq, col]; uq: the index has the name
             \* uq_<table>_<column> that CREATE TABLE gives it
  txn,       \* the transaction of each session
  ddl,       \* the DDL or vacuum command in progress
  work,      \* [auto, left, stmts, ops] still to come, and when the last rebuild committed
  logical,   \* history: <<table, pk>> -> value, as the committed statements ask
  slips      \* history: what happened that the code does not guard against

vars == <<store, clock, cat, txn, ddl, work, logical, slips>>

Drop(f, S) == [x \in (DOMAIN f) \ S |-> f[x]]

-----------------------------------------------------------------------------
(* schema.rs: keys; Record; values of keys.                                *)

Row(pk, c, v) == [kind |-> "row", pk |-> pk, c |-> c, v |-> v]
Entry == [kind |-> "entry", pk |-> "", c |-> "", v |-> ""]
Gone == [kind |-> "gone", pk |-> "", c |-> "", v |-> ""]

data_table_prefix(t) == <<"Data">> \o t
data_key(t, pk) == data_table_prefix(t) \o <<pk>>
index_column_prefix(t) == <<"Idx">> \o t \o <<"i">>
index_eq_prefix(t, v) == index_column_prefix(t) \o <<v>>
index_key(t, v, pk) == index_eq_prefix(t, v) \o <<pk>>

At(k, ts) ==
  LET vis == Visible(store, k, ts) IN IF vis = {} THEN Gone ELSE (CHOOSE x \in vis : TRUE).val

\* A workspace: snapshot, read-set and buffered writes.
Workspace == [ts |-> clock, reads |-> {}, writes |-> << >>]

\* Transaction::get, put, delete; put and delete enter the read-set too.
Get(w, k) == IF k \in DOMAIN w.writes THEN w.writes[k] ELSE At(k, w.ts)
Read(w, ks) == [w EXCEPT !.reads = @ \cup ks]
Put(w, k, x) == [w EXCEPT !.reads = @ \cup {k}, !.writes = (k :> x) @@ @]

\* scan_prefix_keys at the snapshot, overlaid with the workspace.
ScanPrefix(w, prefix) ==
  {k \in {x.key : x \in store} \cup DOMAIN w.writes :
     IsPrefix(prefix, k) /\ Get(w, k).kind # "gone"}

scan_table_records(w, t) == {Get(w, k) : k \in ScanPrefix(w, data_table_prefix(t))}

\* lookup_by_index: index entry, then primary key, then row; no recheck.
IndexHits(w, t, v) == {data_key(t, Last(k)) : k \in ScanPrefix(w, index_eq_prefix(t, v))}
lookup_by_index(w, t, v) == {Get(w, k) : k \in IndexHits(w, t, v)} \ {Gone}
LookupReads(w, t, v) == ScanPrefix(w, index_eq_prefix(t, v)) \cup IndexHits(w, t, v)

\* Mutant: the replaced row's entry stays.
UnindexNothing(w, t, s, old) == w

Unindex(w, t, s, old) ==
  IF old.kind = "row" /\ s.indexed /\ old.c = s.col
  THEN Put(w, index_key(t, old.v, old.pk), Gone) ELSE w

put_record(w, t, s, row) ==
  LET k == data_key(t, row.pk)
      heap == Put(Unindex(w, t, s, Get(w, k)), k, row)
  IN IF s.indexed THEN Put(heap, index_key(t, row.v, row.pk), Entry) ELSE heap

delete_record(w, t, s, pk) ==
  LET k == data_key(t, pk) IN
  IF Get(w, k) = Gone THEN Read(w, {k}) ELSE Put(Unindex(w, t, s, Get(w, k)), k, Gone)

\* Mutant: nothing is validated.
ConflictNever(w) == FALSE

\* prepare_txn_commit_unlocked: a touched key committed after the snapshot.
Conflict(w) == \E x \in store : x.key \in w.reads \cup DOMAIN w.writes /\ x.seq > w.ts
Install(w) == store \cup {[key |-> k, seq |-> clock + 1, val |-> w.writes[k]] : k \in DOMAIN w.writes}

\* One table's name and '_' start another's, so its scans meet the other's keys.
Nested(names) == IF \E t, u \in names : t # u /\ IsPrefix(t, u) THEN {"nested"} ELSE {}

-----------------------------------------------------------------------------
(* The DML executors.  A result is a workspace and whether it failed.      *)

Candidates(w, t, s, v) == IF s.indexed THEN lookup_by_index(w, t, v) ELSE scan_table_records(w, t)
CandidateReads(w, t, s, v) ==
  IF s.indexed THEN LookupReads(w, t, v) ELSE ScanPrefix(w, data_table_prefix(t))

\* enforce_unique_constraints, as InsertExec calls it: no row is exempt.  Only the
\* index CREATE TABLE made is used; after a rename its name no longer fits.
Unique(s) == [s EXCEPT !.indexed = s.uq]
Taken(w, t, s, v) == v # "" /\ \E r \in Candidates(w, t, Unique(s), v) : r.c = s.col /\ r.v = v
UniqueReads(w, t, s, v) == IF v = "" THEN {} ELSE CandidateReads(w, t, Unique(s), v)

InsertRow(res, t, s, row, mode) ==
  LET w == Read(res.w, UniqueReads(res.w, t, s, row.v))
      old == Get(w, data_key(t, row.pk))
      seen == Read(w, {data_key(t, row.pk)})
  IN CASE res.failed -> res
       [] ~res.failed /\ Taken(res.w, t, s, row.v) -> [w |-> w, failed |-> TRUE]
       [] ~res.failed /\ ~Taken(res.w, t, s, row.v) ->
            [w |-> IF old = Gone \/ mode = "none" THEN put_record(seen, t, s, row)
                   ELSE IF mode = "nothing" THEN seen
                   ELSE put_record(seen, t, s, [old EXCEPT !.c = s.col, !.v = row.v]),
             failed |-> FALSE]

InsertExec(w, t, s, stmt) ==
  FoldLeft(LAMBDA res, pv : InsertRow(res, t, s, Row(pv[1], s.col, pv[2]), stmt.mode),
           [w |-> w, failed |-> FALSE], stmt.rows)

\* The child scan of UPDATE and DELETE: WHERE col = v.
Targets(w, t, s, v) ==
  {r \in Candidates(w, t, s, v) : s.indexed \/ (r.c = s.col /\ r.v = v)}

UpdateExec(w, t, s, stmt) ==
  [w |-> FoldSet(LAMBDA r, a : put_record(a, t, s, [r EXCEPT !.c = s.col, !.v = stmt.to]),
                 Read(w, CandidateReads(w, t, s, stmt.v)), Targets(w, t, s, stmt.v)),
   failed |-> FALSE]

DeleteExec(w, t, s, stmt) ==
  [w |-> FoldSet(LAMBDA r, a : delete_record(a, t, s, r.pk),
                 Read(w, CandidateReads(w, t, s, stmt.v)), Targets(w, t, s, stmt.v)),
   failed |-> FALSE]

Execute(w, t, s, stmt) ==
  CASE stmt.op = "insert" -> InsertExec(w, t, s, stmt)
    [] stmt.op = "update" -> UpdateExec(w, t, s, stmt)
    [] stmt.op = "delete" -> DeleteExec(w, t, s, stmt)

-----------------------------------------------------------------------------
(* What the statement asks of a table seen as a map from keys to values.   *)

InsertAsked(view, t, stmt) ==
  FoldLeft(LAMBDA m, pv : IF <<t, pv[1]>> \in DOMAIN m /\ stmt.mode = "nothing" THEN m
                          ELSE (<<t, pv[1]>> :> pv[2]) @@ m, view, stmt.rows)
Asked(view, t, stmt) ==
  LET hit == {x \in DOMAIN view : x[1] = t /\ view[x] = stmt.v} IN
  CASE stmt.op = "insert" -> InsertAsked(view, t, stmt)
    [] stmt.op = "update" -> [x \in DOMAIN view |-> IF x \in hit THEN stmt.to ELSE view[x]]
    [] stmt.op = "delete" -> Drop(view, hit)

-----------------------------------------------------------------------------
(* Sessions.                                                               *)

NoTxn == [open |-> FALSE, auto |-> FALSE, done |-> FALSE, w |-> [ts |-> 0, reads |-> {}, writes |-> << >>],
          under |-> {}, first |-> << >>, view |-> << >>]

Begin(s) ==
  /\ ~txn[s].open /\ work.left > 0
  /\ txn' = [txn EXCEPT ![s] = [NoTxn EXCEPT !.open = TRUE, !.auto = work.auto, !.w = Workspace,
                                             !.first = logical, !.view = logical]]
  /\ UNCHANGED <<store, clock, cat, ddl, work, logical, slips>>

\* A statement that fails ends an auto-commit transaction; an explicit one
\* stays open with whatever the statement had buffered.
Statement(s, t, stmt) ==
  /\ txn[s].open /\ work.left > 0 /\ ~txn[s].done
  /\ t \in DOMAIN cat
  /\ LET x == txn[s]
         res == Execute(x.w, t, cat[t], stmt)
         half == res.failed /\ res.w.writes # x.w.writes
         unready == ddl.op \notin {"none", "vacuum"} \/ x.w.ts < work.filled
     IN /\ txn' = [txn EXCEPT ![s] =
                     IF res.failed /\ x.auto THEN NoTxn
                     ELSE [x EXCEPT !.w = res.w, !.done = x.auto,
                                    !.under = @ \cup {<<t, cat[t]>>},
                                    !.view = IF res.failed THEN @ ELSE Asked(@, t, stmt)]]
        /\ slips' = slips \cup (IF half /\ ~x.auto THEN {"half"} ELSE {})
                          \cup (IF unready THEN {"unready"} ELSE {})
  /\ work' = [work EXCEPT !.left = @ - 1]
  /\ UNCHANGED <<store, clock, cat, ddl, logical>>

\* What the transaction changed of the tables as maps.
Changed(x) ==
  {k \in DOMAIN x.first \cup DOMAIN x.view :
     \/ (k \in DOMAIN x.first) # (k \in DOMAIN x.view)
     \/ (k \in DOMAIN x.first /\ x.first[k] # x.view[k])}
Merged(x) ==
  [k \in ((DOMAIN logical) \ Changed(x)) \cup (Changed(x) \cap DOMAIN x.view) |->
     IF k \in Changed(x) THEN x.view[k] ELSE logical[k]]

\* The row changed since the transaction began.
Overwritten(x, k) ==
  \/ (k \in DOMAIN x.first) # (k \in DOMAIN logical)
  \/ (k \in DOMAIN x.first /\ x.first[k] # logical[k])

Commit(s) ==
  /\ txn[s].open /\ (txn[s].auto => txn[s].done)
  /\ LET x == txn[s] IN
       IF Conflict(x.w) /\ x.w.writes # << >> THEN UNCHANGED <<store, clock, logical, slips>>
       ELSE IF x.w.writes = << >> THEN UNCHANGED <<store, clock, logical, slips>>
       ELSE /\ store' = Install(x.w)
            /\ clock' = clock + 1
            /\ logical' = Merged(x)
            /\ slips' = slips
                 \cup (IF \E u \in x.under : u[1] \notin DOMAIN cat \/ cat[u[1]] # u[2] THEN {"stale"} ELSE {})
                 \cup (IF ddl.pc # "idle" /\ ddl.op # "create_index" THEN {"during"} ELSE {})
                 \cup (IF \E k \in Changed(x) : Overwritten(x, k) THEN {"lost"} ELSE {})
  /\ txn' = [txn EXCEPT ![s] = NoTxn]
  /\ UNCHANGED <<cat, ddl, work>>

-----------------------------------------------------------------------------
(* DDL and vacuum: one command at a time, each step its own transaction or *)
(* catalog write.                                                          *)

NoDdl == [op |-> "none", pc |-> "idle", t |-> << >>, to |-> << >>, s |-> << >>, keys |-> {}, rows |-> {},
          w |-> [ts |-> 0, reads |-> {}, writes |-> << >>]]

Command(op, t) ==
  /\ ddl.pc = "idle" /\ t \in DOMAIN cat
  /\ work.ops # << >> /\ op = Head(work.ops)
  /\ work' = [work EXCEPT !.ops = Tail(@)]
  /\ UNCHANGED <<store, clock, txn, logical, slips>>

\* create_index_inner: the catalog first, then the backfill transaction.  The
\* index is given a name of the user's own.
CreateIndex(t) ==
  /\ Command("create_index", t) /\ ~cat[t].indexed
  /\ cat' = [cat EXCEPT ![t].indexed = TRUE]
  /\ ddl' = [NoDdl EXCEPT !.op = "create_index", !.pc = "backfill", !.t = t]

Backfill ==
  /\ ddl.pc = "backfill"
  /\ LET w == Read(Workspace, ScanPrefix(Workspace, data_table_prefix(ddl.t)))
         rows == {r \in scan_table_records(w, ddl.t) : r.c = cat[ddl.t].col}
     IN ddl' = [ddl EXCEPT !.pc = "commit",
                  !.w = FoldSet(LAMBDA r, a : Put(a, index_key(ddl.t, r.v, r.pk), Entry), w, rows)]
  /\ UNCHANGED <<store, clock, cat, txn, work, logical, slips>>

\* drop_index, and drop_table, which drops the index first.
DropStart(op, t) ==
  /\ op \in {"drop_index", "drop_table"}
  /\ Command(op, t) /\ (op = "drop_index" => cat[t].indexed)
  /\ ddl' = [NoDdl EXCEPT !.op = op, !.pc = IF cat[t].indexed THEN "index_scan" ELSE "heap_scan", !.t = t]
  /\ UNCHANGED cat

\* The keys are listed at last_applied, before the transaction begins.
DropScan ==
  /\ ddl.pc \in {"index_scan", "heap_scan"}
  /\ LET keys == ScanPrefix(Workspace, IF ddl.pc = "index_scan" THEN index_column_prefix(ddl.t)
                                       ELSE data_table_prefix(ddl.t))
     IN ddl' = [ddl EXCEPT !.keys = keys,
                  !.pc = CASE ddl.pc = "index_scan" -> "index_buffer"
                           [] ddl.pc = "heap_scan" -> IF keys = {} THEN "remove" ELSE "heap_buffer"]
  /\ UNCHANGED <<store, clock, cat, txn, work, logical, slips>>

DropBuffer ==
  /\ ddl.pc \in {"index_buffer", "heap_buffer"}
  /\ ddl' = [ddl EXCEPT !.pc = IF ddl.pc = "index_buffer" THEN "index_commit" ELSE "heap_commit",
                        !.keys = {}, !.w = FoldSet(LAMBDA k, a : Put(a, k, Gone), Workspace, ddl.keys)]
  /\ UNCHANGED <<store, clock, cat, txn, work, logical, slips>>

Uninstall ==
  /\ ddl.pc = "uninstall"
  /\ cat' = [cat EXCEPT ![ddl.t].indexed = FALSE, ![ddl.t].uq = FALSE]
  /\ ddl' = IF ddl.op = "drop_table" THEN [ddl EXCEPT !.pc = "heap_scan"] ELSE NoDdl
  /\ UNCHANGED <<store, clock, txn, work, logical, slips>>

\* replicate_or_remove_schema, for DROP TABLE and the first half of RENAME.
RemoveSchema ==
  /\ ddl.pc = "remove"
  /\ cat' = Drop(cat, {ddl.t})
  /\ ddl' = IF ddl.op = "drop_table" THEN NoDdl ELSE [ddl EXCEPT !.pc = "install"]
  /\ logical' = IF ddl.op = "drop_table" THEN Drop(logical, {k \in DOMAIN logical : k[1] = ddl.t}) ELSE logical
  /\ UNCHANGED <<store, clock, txn, work, slips>>

\* rename_table and rename_column: delete every row, change the catalog,
\* put every row back.
RenameStart(t, to, col) ==
  /\ Command("rename", t)
  /\ IF to = t THEN col # cat[t].col ELSE to \notin DOMAIN cat /\ col = cat[t].col
  /\ LET rows == scan_table_records(Workspace, t)
         w == Read(Workspace, ScanPrefix(Workspace, data_table_prefix(t)))
     IN ddl' = [NoDdl EXCEPT !.op = "rename", !.pc = "rename_commit", !.t = t, !.to = to,
                  !.s = [cat[t] EXCEPT !.col = col, !.uq = FALSE],
                  !.rows = {[r EXCEPT !.c = IF @ = cat[t].col THEN col ELSE @] : r \in rows},
                  !.w = FoldSet(LAMBDA r, a : delete_record(a, t, cat[t], r.pk), w, rows)]
  /\ UNCHANGED cat

RenameInstall ==
  /\ ddl.pc = "install"
  /\ cat' = (ddl.to :> ddl.s) @@ cat
  /\ ddl' = IF ddl.rows = {} THEN NoDdl ELSE [ddl EXCEPT !.pc = "refill"]
  /\ slips' = slips \cup Nested({ddl.to} \cup DOMAIN cat)
  /\ UNCHANGED <<store, clock, txn, work, logical>>

RenameRefill ==
  /\ ddl.pc = "refill"
  /\ ddl' = [ddl EXCEPT !.pc = "commit", !.rows = {},
               !.w = FoldSet(LAMBDA r, a : put_record(a, ddl.to, cat[ddl.to], r), Workspace, ddl.rows)]
  /\ UNCHANGED <<store, clock, cat, txn, work, logical, slips>>

\* purge_dangling_index_entries: the versions are collected before the
\* transaction that deletes the entries begins.
VacuumCollect(t) ==
  /\ Command("vacuum", t) /\ cat[t].indexed
  /\ LET wm == CHOOSE m \in {clock} \cup {txn[s].w.ts : s \in {s \in Sessions : txn[s].open}} :
                 \A s \in Sessions : txn[s].open => m <= txn[s].w.ts
         heap == {x \in store : IsPrefix(data_table_prefix(t), x.key)}
         live(x) == CHOOSE y \in heap : y.key = x.key /\ \A z \in heap : z.key = x.key => z.seq <= y.seq
         dead == {x \in heap \ Survivors(heap, wm) :
                    /\ x.val.kind = "row" /\ live(x).val.kind = "row"
                    /\ x.val.c = cat[t].col
                    /\ ~(live(x).val.c = cat[t].col /\ live(x).val.v = x.val.v)}
     IN ddl' = [NoDdl EXCEPT !.op = "vacuum", !.pc = "purge", !.t = t,
                  !.keys = {index_key(t, x.val.v, live(x).val.pk) : x \in dead}]
  /\ UNCHANGED cat

VacuumPurge ==
  /\ ddl.pc = "purge"
  /\ LET present == {k \in ddl.keys : Get(Workspace, k).kind # "gone"}
     IN ddl' = IF present = {} THEN NoDdl
               ELSE [ddl EXCEPT !.pc = "commit", !.keys = {},
                       !.w = FoldSet(LAMBDA k, a : Put(a, k, Gone), Workspace, present)]
  /\ UNCHANGED <<store, clock, cat, txn, work, logical, slips>>

\* Each transaction of a command commits or fails the command; what earlier
\* steps did stays.
Renamed == [k \in {IF x[1] = ddl.t THEN <<ddl.to, x[2]>> ELSE x : x \in DOMAIN logical} |->
              IF k[1] = ddl.to THEN logical[<<ddl.t, k[2]>>] ELSE logical[k]]

DdlCommit ==
  /\ ddl.pc \in {"commit", "index_commit", "heap_commit", "rename_commit"}
  /\ IF Conflict(ddl.w) /\ ddl.w.writes # << >>
     THEN /\ ddl' = NoDdl
          /\ slips' = slips \cup (IF ddl.pc = "commit" /\ ddl.op \in {"create_index", "rename"}
                                  THEN {"unfilled"} ELSE {})
          /\ UNCHANGED <<store, clock, logical, work>>
     ELSE /\ store' = Install(ddl.w)
          /\ clock' = IF ddl.w.writes = << >> THEN clock ELSE clock + 1
          /\ ddl' = CASE ddl.pc = "commit" -> NoDdl
                      [] ddl.pc = "index_commit" -> [ddl EXCEPT !.pc = "uninstall", !.w = NoDdl.w]
                      [] ddl.pc = "heap_commit" -> [ddl EXCEPT !.pc = "remove", !.w = NoDdl.w]
                      [] ddl.pc = "rename_commit" ->
                           [ddl EXCEPT !.pc = IF ddl.t = ddl.to THEN "install" ELSE "remove", !.w = NoDdl.w]
          /\ logical' = IF ddl.pc = "rename_commit" THEN Renamed ELSE logical
          /\ work' = [work EXCEPT !.filled = IF ddl.pc = "commit" THEN clock' ELSE @]
          /\ UNCHANGED slips
  /\ UNCHANGED <<cat, txn>>

\* The process stops: open transactions and the command are gone, what the
\* command had done stays.
Halfway ==
  \/ ddl.pc \in {"backfill", "uninstall", "remove", "install", "refill"}
  \/ ddl.pc = "commit" /\ ddl.op # "vacuum"
Crash ==
  /\ ddl.pc # "idle"
  /\ ddl' = NoDdl
  /\ txn' = [s \in Sessions |-> NoTxn]
  /\ slips' = slips \cup (IF Halfway THEN {"crashed"} ELSE {})
  /\ UNCHANGED <<store, clock, cat, work, logical>>

-----------------------------------------------------------------------------
Init ==
  \E start \in Scenarios :
    /\ cat = start.cat
    /\ logical = start.rows
    /\ store = {[key |-> data_key(k[1], k[2]), seq |-> 1, val |-> Row(k[2], "c", start.rows[k])] : k \in DOMAIN start.rows}
               \cup {[key |-> index_key(k[1], start.rows[k], k[2]), seq |-> 1, val |-> Entry] :
                       k \in {k \in DOMAIN start.rows : start.cat[k[1]].indexed}}
    /\ clock = 1
    /\ txn = [s \in Sessions |-> NoTxn]
    /\ ddl = NoDdl
    /\ work = [auto |-> start.auto, left |-> MaxStatements, stmts |-> start.stmts, ops |-> start.ops, filled |-> 0]
    /\ slips = Nested(DOMAIN start.cat)

Next ==
  \/ \E s \in Sessions : Begin(s) \/ Commit(s) \/ \E t \in Names, stmt \in work.stmts : Statement(s, t, stmt)
  \/ \E t \in Names : CreateIndex(t) \/ VacuumCollect(t)
                      \/ (\E op \in {"drop_index", "drop_table"} : DropStart(op, t))
                      \/ (\E to \in Names, col \in {"c", "d"} : RenameStart(t, to, col))
  \/ Backfill \/ DropScan \/ DropBuffer \/ Uninstall \/ RemoveSchema
  \/ RenameInstall \/ RenameRefill \/ VacuumPurge \/ DdlCommit \/ Crash

Spec == Init /\ [][Next]_vars

-----------------------------------------------------------------------------
Heap(t) == scan_table_records(Workspace, t)
Quiet == ddl.pc = "idle"

(* The rows a scan finds in a table are those the committed statements ask *)
(* for, and no transaction replaced a row changed since its snapshot,      *)
(* through any interleaving of transactions, DDL and vacuum, unless a      *)
(* commit fell inside a command or used a catalog entry no longer there, a *)
(* command failed or stopped half way, a failed statement left rows in an  *)
(* explicit transaction, or one table's name followed by '_' starts        *)
(* another's.                                                              *)
RowsAsWritten ==
  Quiet /\ slips \cap {"nested", "unready", "stale", "during", "unfilled", "crashed", "half"} = {} =>
    /\ "lost" \notin slips
    /\ \A t \in DOMAIN cat : {<<r.pk, r.v>> : r \in Heap(t)} =
                             {<<k[2], logical[k]>> : k \in {k \in DOMAIN logical : k[1] = t}}

(* The entries of an index are exactly the values of the rows, so that a   *)
(* lookup by index and a scan agree: statements run after CREATE INDEX has *)
(* installed the index may overlap its backfill in any order.  The         *)
(* exceptions are a statement run before it and committed after, a commit  *)
(* inside another command, a backfill that failed or stopped, and table    *)
(* names of which one and '_' start another.                               *)
IndexMatchesRows ==
  Quiet /\ slips \cap {"nested", "stale", "during", "unfilled", "crashed"} = {} =>
    \A t \in DOMAIN cat : cat[t].indexed =>
      {<<k[Len(k) - 1], Last(k)>> : k \in ScanPrefix(Workspace, index_column_prefix(t))} =
      {<<r.v, r.pk>> : r \in Heap(t)}
=============================================================================
