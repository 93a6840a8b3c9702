-------------------------------- MODULE Hnsw ---------------------------------
(***************************************************************************)
(* A vector index: the HNSW graph of hnsw.rs, and the engine that keeps it  *)
(* beside the table's rows (edits applied after a commit, VACUUM, save on   *)
(* close, load on open).  An embedding is a point on a line.  Points are     *)
(* chosen so that no two are equally far from a third, which leaves the      *)
(* heaps' and sorts' order of equals out.                                    *)
(***************************************************************************)
EXTENDS Integers, Sequences, FiniteSets, SequencesExt

CONSTANTS
  Queries,     \* points searched for
  M,           \* neighbours per layer
  Ef,          \* ef_construction and ef_search
  ExactLimit,  \* graphs up to this size are scanned
  Levels,      \* random_level, a function of the node's id
  Scenarios    \* [built, writes, vacuums, reopens]: whether the index is there from
               \* the start, the <<pk, embedding>> written (0: deleted), in order, and
               \* how many VACUUMs and restarts may run beside them

VARIABLES
  graph,       \* [nodes, by_pk, entry, next]: the in-memory graph
  installed,   \* the engine's map of graphs holds it
  file,        \* the HNSW_<index> snapshot
  rows,        \* committed rows: pk -> embedding
  edits,       \* the committing transaction's edits still to apply (under txn_commit_mu)
  scan,        \* what CREATE INDEX or VACUUM has read of the table
  work,        \* what is left of the scenario
  slips        \* history: what happened that the code does not guard against

vars == <<graph, installed, file, rows, edits, scan, work, slips>>

Dist(a, b) == IF a < b THEN b - a ELSE a - b
EmptyGraph == [nodes |-> << >>, by_pk |-> << >>, entry |-> 0, next |-> 1]
Without(f, x) == [y \in DOMAIN f \ {x} |-> f[y]]
With(f, x, v) == [y \in DOMAIN f \cup {x} |-> IF y = x THEN v ELSE f[y]]

Live(g, id) == id \in DOMAIN g.nodes
Height(g, id) == Len(g.nodes[id].neighbors)
\* neighbors.get(layer); layers count from 1 here.
Layer(g, id, l) == IF l <= Height(g, id) THEN g.nodes[id].neighbors[l] ELSE << >>
Away(g, q, id) == Dist(q, g.nodes[id].vector)
Nearest(g, q, ids) == CHOOSE i \in ids : \A j \in ids : Away(g, q, i) <= Away(g, q, j)
ByDistance(g, q, ids) == SetToSortSeq(ids, LAMBDA i, j : Away(g, q, i) < Away(g, q, j))
Take(s, k) == SubSeq(s, 1, IF k < Len(s) THEN k ELSE Len(s))

-----------------------------------------------------------------------------
(* Searching a layer.  An edge to a node that is gone ends the call: the    *)
(* map is indexed with it.                                                  *)

RECURSIVE search_layer_greedy(_, _, _, _)
search_layer_greedy(g, q, curr, l) ==
  LET out == ToSet(Layer(g, curr, l))
  IN IF curr = 0 \/ \E e \in out : ~Live(g, e) THEN 0
     ELSE LET best == Nearest(g, q, out \cup {curr})
          IN IF best = curr THEN curr ELSE search_layer_greedy(g, q, best, l)

\* One neighbour e.  The heap w pops the nearest found, not the furthest: its
\* order is the reverse of what its comment says.
Visit(g, q, s, e) ==
  CASE ~s.ok \/ e \in s.visited -> s
    [] ~Live(g, e) -> [s EXCEPT !.ok = FALSE]
    [] OTHER ->
         LET keep == \/ Away(g, q, e) < Away(g, q, Nearest(g, q, s.found))
                     \/ Cardinality(s.found) < Ef
             w == s.found \cup {e}
             over == Cardinality(w) > Ef
         IN [s EXCEPT !.visited = @ \cup {e},
                      !.open = IF keep THEN @ \cup {e} ELSE @,
                      !.found = IF ~keep THEN @ ELSE IF over THEN w \ {Nearest(g, q, w)} ELSE w,
                      !.dropped = @ \/ (keep /\ over)]

RECURSIVE Expand(_, _, _, _)
Expand(g, q, l, s) ==
  IF ~s.ok \/ s.open = {} THEN s
  ELSE LET c == Nearest(g, q, s.open)
           popped == [s EXCEPT !.open = @ \ {c}]
       IN IF Away(g, q, c) > Away(g, q, Nearest(g, q, s.found)) THEN s
          ELSE Expand(g, q, l, FoldLeft(LAMBDA t, e : Visit(g, q, t, e), popped, Layer(g, c, l)))

search_layer(g, q, enter, l) ==
  Expand(g, q, l, [visited |-> {enter}, open |-> {enter}, found |-> {enter}, dropped |-> FALSE, ok |-> TRUE])

\* Greedy descent from the layer from to the layer to.
RECURSIVE Descend(_, _, _, _, _)
Descend(g, q, curr, from, to) ==
  IF from < to \/ curr = 0 THEN curr
  ELSE Descend(g, q, search_layer_greedy(g, q, curr, from), from - 1, to)

\* search_knn: the search of layer 0, or of everything in a small graph.
Scans(g) == Cardinality(DOMAIN g.nodes) <= ExactLimit
Found(g, q) ==
  LET enter == Descend(g, q, g.entry, Height(g, g.entry), 2)
  IN IF enter = 0 THEN [ok |-> FALSE, found |-> {}, dropped |-> FALSE] ELSE search_layer(g, q, enter, 1)
search_knn(g, q, k) ==
  Take(ByDistance(g, q, IF Scans(g) THEN DOMAIN g.nodes ELSE Found(g, q).found), k)

-----------------------------------------------------------------------------
(* delete and insert.                                                       *)

\* Mutant: the edges to the node stay.
UnlinkedOneWay(g, pk) == [g EXCEPT !.nodes = Without(@, g.by_pk[pk]), !.by_pk = Without(@, pk)]

\* delete drops the edges to the node from the nodes it has edges to.  A new
\* entry point is any of the tallest left.
Unlinked(g, pk) ==
  LET id == g.by_pk[pk]
      gone == g.nodes[id].neighbors
      strip(i, l) == IF l <= Len(gone) /\ i \in ToSet(gone[l]) THEN SelectSeq(g.nodes[i].neighbors[l], LAMBDA x : x # id)
                     ELSE g.nodes[i].neighbors[l]
      left == [i \in DOMAIN g.nodes \ {id} |->
                 [g.nodes[i] EXCEPT !.neighbors = [l \in 1 .. Height(g, i) |-> strip(i, l)]]]
  IN [g EXCEPT !.nodes = left, !.by_pk = Without(@, pk)]
Tallest(g) == {i \in DOMAIN g.nodes : \A j \in DOMAIN g.nodes : Height(g, j) <= Height(g, i)}
delete(g, pk) ==
  IF pk \notin DOMAIN g.by_pk THEN {g}
  ELSE LET h == Unlinked(g, pk)
       IN IF g.entry # g.by_pk[pk] THEN {h}
          ELSE IF DOMAIN h.nodes = {} THEN {[h EXCEPT !.entry = 0]}
          ELSE {[h EXCEPT !.entry = e] : e \in Tallest(h)}

\* A selected neighbour links back, and keeps its M nearest.
Resized(s, l) == s \o [i \in 1 .. (IF l > Len(s) THEN l - Len(s) ELSE 0) |-> << >>]
LinkBack(g, nb, id, v, l) ==
  LET grown == Resized(g.nodes[nb].neighbors, l)
      list == Append(grown[l], id)
      \* the new node is not in the map yet, so select_neighbors_ids drops it
      kept == IF Len(list) <= M THEN list
              ELSE Take(ByDistance(g, g.nodes[nb].vector, {x \in ToSet(list) : Live(g, x)}), M)
  IN [g EXCEPT !.nodes[nb].neighbors = [grown EXCEPT ![l] = kept]]

\* Layers from l down to 1.
RECURSIVE LinkLayers(_, _, _, _, _, _)
LinkLayers(g, id, v, curr, l, mine) ==
  IF l = 0 THEN [g |-> g, mine |-> mine, ok |-> TRUE]
  ELSE LET s == search_layer(g, v, curr, l)
       IN IF ~s.ok THEN [g |-> g, mine |-> mine, ok |-> FALSE]
          ELSE LET near == ByDistance(g, v, s.found)
                   chosen == Take(near, M)
                   h == FoldLeft(LAMBDA x, nb : LinkBack(x, nb, id, v, l), g, chosen)
               IN LinkLayers(h, id, v, near[1], l - 1, [mine EXCEPT ![l] = chosen])

Node(pk, v, mine) == [pk |-> pk, vector |-> v, neighbors |-> mine]
insert(g, pk, v) ==
  LET id == g.next
      level == Levels[id]
      h == [g EXCEPT !.next = @ + 1]
      blank == [l \in 1 .. level |-> << >>]
      top == Height(h, h.entry)
      curr == Descend(h, v, h.entry, top, level + 1)
      r == LinkLayers(h, id, v, curr, IF level < top THEN level ELSE top, blank)
      added(x, mine, entry) == [x EXCEPT !.nodes = With(@, id, Node(pk, v, mine)), !.by_pk = With(@, pk, id), !.entry = entry]
  IN IF h.entry = 0 THEN [g |-> added(h, blank, id), ok |-> TRUE]
     ELSE IF curr = 0 THEN [g |-> h, ok |-> FALSE]
     ELSE IF ~r.ok THEN [g |-> r.g, ok |-> FALSE]
     ELSE [g |-> added(r.g, r.mine, IF level > top THEN id ELSE h.entry), ok |-> TRUE]

\* Some node lost an edge that still points at it.
OneWay(g) ==
  \E i \in DOMAIN g.nodes : \E l \in 1 .. Height(g, i) : \E j \in ToSet(g.nodes[i].neighbors[l]) :
    ~Live(g, j) \/ i \notin ToSet(Layer(g, j, l))

-----------------------------------------------------------------------------
(* The engine.                                                              *)

Idle == [op |-> "none", rows |-> << >>, pks |-> {}]
Indexed == installed \/ scan.op = "build"

\* A transaction writes or deletes a row; its edits follow, under the commit
\* lock.  A statement that ran before CREATE INDEX has left none.
Commit ==
  /\ edits = << >> /\ work.writes # << >>
  /\ LET pk == Head(work.writes)[1]
         v == Head(work.writes)[2]
         old == IF pk \in DOMAIN rows THEN <<[op |-> "delete", pk |-> pk, v |-> 0]>> ELSE << >>
     IN /\ rows' = IF v = 0 THEN Without(rows, pk) ELSE With(rows, pk, v)
        /\ \/ /\ Indexed
              /\ edits' = old \o (IF v = 0 THEN << >> ELSE <<[op |-> "upsert", pk |-> pk, v |-> v]>>)
              /\ UNCHANGED slips
           \/ /\ ~work.built
              /\ edits' = << >>
              /\ slips' = slips \cup (IF Indexed THEN {"unbuilt"} ELSE {})
  /\ work' = [work EXCEPT !.writes = Tail(@)]
  /\ UNCHANGED <<graph, installed, file, scan>>

\* apply_stats_edit; an upsert deletes first, under a lock of its own.
Edit == Head(edits)
ApplyDelete ==
  /\ edits # << >> /\ Edit.op \in {"delete", "upsert"}
  /\ edits' = IF installed /\ Edit.op = "upsert" THEN <<[Edit EXCEPT !.op = "link"]>> ELSE Tail(edits)
  /\ IF installed THEN graph' \in delete(graph, Edit.pk) /\ UNCHANGED slips
     ELSE graph' = graph /\ slips' = slips \cup {"unbuilt"}
  /\ UNCHANGED <<installed, file, rows, scan, work>>

ApplyLink ==
  /\ edits # << >> /\ Edit.op = "link"
  /\ LET r == insert(graph, Edit.pk, Edit.v)
     IN /\ graph' = r.g
        /\ slips' = slips \cup (IF OneWay(r.g) THEN {"pruned"} ELSE {}) \cup (IF r.ok THEN {} ELSE {"panicked"})
  /\ edits' = << >>
  /\ UNCHANGED <<installed, file, rows, scan, work>>

\* CREATE INDEX on a table whose rows are already there: scan, build and save,
\* then install.  The build is one step: nobody else sees the graph yet.
ScanToBuild ==
  /\ ~installed /\ scan.op = "none"
  /\ scan' = [Idle EXCEPT !.op = "build", !.rows = rows]
  /\ UNCHANGED <<graph, installed, file, rows, edits, work, slips>>
InsertAll(g, rs) == FoldLeft(LAMBDA x, pk : insert(x, pk, rs[pk]).g, g, SetToSeq(DOMAIN rs))
Install ==
  /\ scan.op = "build"
  /\ graph' = InsertAll(EmptyGraph, scan.rows)
  /\ installed' = TRUE /\ file' = graph'
  /\ slips' = slips \cup (IF rows # scan.rows THEN {"unbuilt"} ELSE {}) \cup (IF OneWay(graph') THEN {"pruned"} ELSE {})
  /\ scan' = Idle
  /\ UNCHANGED <<rows, edits, work>>

\* VACUUM: read the live keys; retain_pks lists the nodes to drop, drops them
\* one by one, and the graph is saved if there were any.
ScanToPrune ==
  /\ installed /\ scan.op = "none" /\ work.vacuums > 0
  /\ work' = [work EXCEPT !.vacuums = @ - 1]
  /\ scan' = [Idle EXCEPT !.op = "retain", !.pks = DOMAIN rows]
  /\ UNCHANGED <<graph, installed, file, rows, edits, slips>>
Retain ==
  /\ scan.op = "retain"
  /\ LET dead == DOMAIN graph.by_pk \ scan.pks
     IN scan' = IF dead = {} THEN Idle ELSE [scan EXCEPT !.op = "prune", !.pks = dead]
  /\ UNCHANGED <<graph, installed, file, rows, edits, work, slips>>
Prune ==
  /\ scan.op = "prune"
  /\ \E pk \in scan.pks :
       /\ graph' \in delete(graph, pk)
       /\ slips' = slips \cup (IF pk \in DOMAIN rows THEN {"vacuumed"} ELSE {})
       /\ scan' = [scan EXCEPT !.pks = @ \ {pk}, !.op = IF scan.pks = {pk} THEN "save" ELSE "prune"]
  /\ UNCHANGED <<installed, file, rows, edits, work>>
Save ==
  /\ scan.op = "save"
  /\ file' = graph /\ scan' = Idle
  /\ UNCHANGED <<graph, installed, rows, edits, work, slips>>

\* close saves the graph; a crash does not.  Open loads the file, and the rows
\* come back from the logs.
Content(g) == [pk \in DOMAIN g.by_pk |-> g.nodes[g.by_pk[pk]].vector]
Reopen(saved) ==
  /\ Indexed /\ (saved => edits = << >> /\ scan.op = "none")
  /\ work.reopens > 0 /\ work' = [work EXCEPT !.reopens = @ - 1]
  /\ file' = IF saved THEN graph ELSE file
  /\ graph' = file' /\ installed' = TRUE
  /\ edits' = << >> /\ scan' = Idle
  /\ slips' = slips \cup (IF Content(file') # rows THEN {"crashed"} ELSE {})
  /\ UNCHANGED rows

Init ==
  /\ graph = EmptyGraph /\ file = EmptyGraph
  /\ work \in Scenarios /\ installed = work.built
  /\ rows = << >> /\ edits = << >>
  /\ scan = Idle
  /\ slips = {}

Next ==
  \/ Commit \/ ApplyDelete \/ ApplyLink \/ ScanToBuild \/ Install \/ ScanToPrune \/ Retain \/ Prune \/ Save
  \/ Reopen(TRUE) \/ Reopen(FALSE)

Spec == Init /\ [][Next]_vars

-----------------------------------------------------------------------------
GraphSound(g) ==
  /\ DOMAIN g.nodes = {g.by_pk[pk] : pk \in DOMAIN g.by_pk}
  /\ \A pk \in DOMAIN g.by_pk : g.nodes[g.by_pk[pk]].pk = pk
  /\ IF DOMAIN g.nodes = {} THEN g.entry = 0 ELSE g.entry \in Tallest(g)
  /\ \A i \in DOMAIN g.nodes : \A l \in 1 .. Height(g, i) :
       LET out == g.nodes[i].neighbors[l]
       IN /\ Len(out) <= M /\ Cardinality(ToSet(out)) = Len(out) /\ i \notin ToSet(out)
          /\ \A j \in ToSet(out) : Live(g, j) => l <= Height(g, j)

Nearer(g, q, i) == {j \in DOMAIN g.nodes : Away(g, q, j) < Away(g, q, i)}

(* The vector index answers.  Its graph stays sound: one node per key, an    *)
(* entry point among the tallest nodes, at most M edges per layer, none to    *)
(* itself and none to a node without that layer.  Until some list is pruned   *)
(* every edge leads to a live node, so no insert or search stops on a         *)
(* missing one.  A search of a small graph is exact; of a larger one, it      *)
(* ends in a node none of whose neighbours is nearer, unless the found set    *)
(* overflowed (it then drops the nearest it found).  And between commits the  *)
(* graph holds the table's rows, unless it was read from an old file, built   *)
(* or pruned from a stale scan, or an insert stopped.                         *)
KnnSound ==
  /\ GraphSound(graph)
  /\ "pruned" \notin slips => "panicked" \notin slips /\ ~OneWay(graph)
  /\ graph.entry # 0 => \A q \in Queries :
       IF Scans(graph)
       THEN \A k \in 1 .. 2 : LET r == search_knn(graph, q, k)
            IN \A i \in DOMAIN r : Cardinality(Nearer(graph, q, r[i])) = i - 1
       ELSE LET s == Found(graph, q)
                r == search_knn(graph, q, 1)
            IN s.ok /\ ~s.dropped => Nearer(graph, q, r[1]) \cap ToSet(Layer(graph, r[1], 1)) = {}
  /\ installed /\ edits = << >> /\ slips \subseteq {"pruned"} => Content(graph) = rows
=============================================================================
