------------------------------- MODULE Engine -------------------------------
(***************************************************************************)
(* One node's storage engine: transactions with optimistic validation        *)
(* (engine.rs, txn.rs, epoch.rs), the group-commit write path                *)
(* (group_commit.rs, LocalRaftNode of raft.rs), the memtable, flushes,       *)
(* leveled compaction and its catalog (compaction.rs, SstRegistry of sst.rs),*)
(* VACUUM, and recovery from the WAL segments, the transaction WAL           *)
(* (txn_wal.rs), the SEQNO marker and the SSTs on disk.                      *)
(*                                                                         *)
(* A client thread runs one operation at a time: todo is what is left of its *)
(* code, one name per step another thread can come between.  A write is      *)
(* identified by its tag, the number of the operation that made it.          *)
(***************************************************************************)
EXTENDS Versions, SequencesExt

CONSTANTS
  Client,     \* threads that call the engine
  Key,        \* user keys: natural numbers, for their order
  HardLimit,  \* l0_hard_limit
  QueueDepth, \* compaction_queue_depth
  Budgets,    \* bounds to start from, see Budget
  None

ASSUME KeyAssumption == Key \subseteq Nat

VARIABLES
  up,         \* "opening", "open", "closing" or "down"
  session,    \* what each client is doing
  nextIndex, lastApplied, memtable,    \* LocalRaftNode
  queue, flusher, walClosed,           \* GroupCommitWal
  segments,   \* WAL segment number -> its entries, in order
  segment,    \* wal_segment
  txnWal,     \* TXN_WAL: the write-sets with a Commit record
  seqno,      \* SEQNO
  disk,       \* SST files on disk
  deferred,   \* SstRegistry.retired: files retired while a reader had them pinned
  catalog,    \* CatalogState.levels: the files of the levels
  plans,      \* compactions picked and not finished
  nextSst, watermark,
  active,     \* EpochManager.active: records [id, ts]
  ssi,        \* SsiRegistry.active: records [id, reads, doomed]
  lastCommit, \* key -> last_commit, 0 if none
  occ,        \* holder of txn_commit_mu
  budget,     \* what is left of the member of Budgets chosen
  ops,        \* history: tag -> [index, keys], the index its write was given, 0
              \* if none, and the keys its transaction logged
  acked,      \* history: versions whose writer was told they are committed
  commits     \* history: the transactions committed

nodeVars == <<nextIndex, lastApplied, memtable>>
walVars == <<queue, flusher, walClosed, segments, segment>>
durable == <<txnWal, seqno>>
sstVars == <<disk, deferred, catalog, plans, nextSst, watermark>>
txnVars == <<active, ssi, lastCommit, occ>>
history == <<ops, acked, commits>>
vars == <<up, session, nodeVars, walVars, durable, sstVars, txnVars, budget,
          history>>

Idle == [kind |-> "none", todo |-> <<>>, tag |-> 0, serializable |-> FALSE,
         read |-> 0, reads |-> {}, seen |-> {}, writes |-> {}, index |-> 0,
         mark |-> 0, key |-> 0, best |-> {}, level |-> 0, files |-> {},
         drained |-> {}, segment |-> 0]

Resting(seg) == [step |-> "idle", batch |-> <<>>, applied |-> 0, rotateTo |-> 0,
                 rotator |-> None, stop |-> FALSE, segment |-> seg]

Init ==
  /\ up = "open" /\ session = [c \in Client |-> Idle]
  /\ nextIndex = 1 /\ lastApplied = 0 /\ memtable = {}
  /\ queue = <<>> /\ flusher = Resting(1) /\ walClosed = FALSE
  /\ segments = (1 :> <<>>) /\ segment = 1
  /\ txnWal = <<>> /\ seqno = 0
  /\ disk = {} /\ deferred = {} /\ catalog = {} /\ plans = {} /\ nextSst = 1 /\ watermark = 0
  /\ active = {} /\ ssi = {} /\ lastCommit = [k \in Key |-> 0] /\ occ = None
  /\ ops = <<>> /\ acked = {} /\ commits = {}
  /\ budget \in Budgets

-----------------------------------------------------------------------------
(* Threads *)

\* The deepest SST level.
LastLevel == budget.levels

Spend(kind) == budget[kind] > 0 /\ budget' = [budget EXCEPT ![kind] = @ - 1]

\* Windows in which the engine's snapshots go wrong.  With budget.calm the steps
\* that fall into one wait until it is over; everything else goes on.
\*   HalfApplied: an index at or below last_applied is not in the memtable yet.
\*   Unregistered(c): another transaction has read last_applied and is not in
\*     the epoch manager, so that a watermark published now passes it.
\*   Homeless: versions taken out of the memtable are in no file yet.
\*   Listed(p): a get has listed inputs of p and not pinned them.
Doing(c, steps) == session[c].todo # <<>> /\ Head(session[c].todo) \in steps

HalfApplied ==
  \E c \in Client : Doing(c, {"submit", "send", "wait"})
                    /\ session[c].index \in 1..lastApplied
Unregistered(c) == \E d \in Client \ {c} : Doing(d, {"register"})
Homeless == \E c \in Client : session[c].drained # {}
Listed(p) ==
  \E c \in Client : Doing(c, {"read"})
                    /\ session[c].files \cap {f.id : f \in p.inputs} # {}

\* Client c is about to do step.
At(c, step) == Doing(c, {step})

Set(c, s) == session' = [session EXCEPT ![c] = s]
Done(s) == [s EXCEPT !.todo = Tail(@)]
Continue(c) == Set(c, Done(session[c]))

\* How a transaction ends: inside the lock once it has committed; on an error
\* that leaves commit_transaction, when the Transaction is dropped; and both
\* times when commit_transaction refuses it.
EndSteps == <<"end", "compute", "set", "unlock", "return">>
ErrorSteps(s) == IF s.kind = "txn"
                 THEN <<"unlock", "end", "compute", "set", "return">>
                 ELSE <<"return">>
RefuseSteps(s) == IF s.kind = "txn"
                  THEN <<"end", "compute", "set">> \o ErrorSteps(s)
                  ELSE <<"return">>
FlushSteps == <<"drain", "install", "segment", "rotate", "wait", "kick">>
ProposeSteps == <<"allocate", "submit", "send", "wait", "note", "flush?">>

\* Client c begins the operation s: it is given a tag.
Start(c, s) ==
  /\ session[c].kind = "none" /\ s.kind \in budget.calls[c]
  /\ Set(c, [s EXCEPT !.tag = Len(ops) + 1])
  /\ ops' = Append(ops, [index |-> 0, keys |-> {}])
  /\ UNCHANGED <<acked, commits>>

Return(c) ==
  /\ At(c, "return")
  /\ Set(c, Idle)
  /\ UNCHANGED <<up, nodeVars, walVars, durable, sstVars, txnVars, budget, history>>

-----------------------------------------------------------------------------
(* Transactions *)

\* begin_with_isolation reads last_applied; the rest follows in steps.
Begin(c, serializable) ==
  /\ up = "open" /\ Spend("txns") /\ (budget.calm => ~HalfApplied)
  /\ Start(c, [Idle EXCEPT !.kind = "txn", !.read = lastApplied,
                           !.serializable = serializable,
                           !.todo = <<"register", "compute", "set", "ssi">>])
  /\ UNCHANGED <<up, nodeVars, walVars, durable, sstVars, txnVars>>

\* EpochManager::begin
Register(c) ==
  /\ At(c, "register")
  /\ active' = active \cup {[id |-> session[c].tag, ts |-> session[c].read]}
  /\ Continue(c)
  /\ UNCHANGED <<up, nodeVars, walVars, durable, sstVars, ssi, lastCommit, occ,
                 budget, history>>

\* Mutant: active snapshots forgotten.
OldestNeededIdle == lastApplied + 1

\* publish_watermark, first half: the oldest active snapshot, or one past the
\* last applied index.
OldestNeeded ==
  IF active = {} THEN lastApplied + 1 ELSE Min({t.ts : t \in active})

Compute(c) ==
  /\ At(c, "compute") /\ (budget.calm => ~Unregistered(c))
  /\ Set(c, [Done(session[c]) EXCEPT !.mark = OldestNeeded])
  /\ UNCHANGED <<up, nodeVars, walVars, durable, sstVars, txnVars, budget, history>>

\* publish_watermark, second half.
SetWatermark(c) ==
  /\ At(c, "set")
  /\ watermark' = session[c].mark
  /\ Continue(c)
  /\ UNCHANGED <<up, nodeVars, walVars, durable, disk, deferred, catalog, plans, nextSst,
                 txnVars, budget, history>>

\* Transaction::new_with_isolation
SsiRegister(c) ==
  /\ At(c, "ssi")
  /\ ssi' = IF session[c].serializable
            THEN ssi \cup {[id |-> session[c].tag, reads |-> {}, doomed |-> FALSE]}
            ELSE ssi
  /\ Continue(c)
  /\ UNCHANGED <<up, nodeVars, walVars, durable, sstVars, active, lastCommit, occ,
                 budget, history>>

\* An open transaction with no call under way.
Ready(c) == session[c].kind = "txn" /\ session[c].todo = <<>>

Written(s) == {w.key : w \in s.writes}

\* SsiRegistry::note_read
NoteRead(s, k) ==
  {IF t.id = s.tag THEN [t EXCEPT !.reads = @ \cup {k}] ELSE t : t \in ssi}

\* Transaction::get of a key that is not in the workspace: the memtable, then
\* every level.
Get(c, k) ==
  /\ Ready(c) /\ "get" \in budget.calls[c]
  /\ k \notin Written(session[c]) /\ k \notin {r.key : r \in session[c].seen}
  /\ Cardinality(session[c].seen) + Cardinality(session[c].writes) < budget.ops[c]
  /\ Set(c, [session[c] EXCEPT !.key = k, !.best = {}, !.level = 0,
               !.todo = <<"memtable">>
                        \o [i \in 1..(2 * (LastLevel + 1)) |->
                              IF i % 2 = 1 THEN "list" ELSE "read"]
                        \o <<"noted">>])
  /\ UNCHANGED <<up, nodeVars, walVars, durable, sstVars, txnVars, budget, history>>

GetMemtable(c) ==
  /\ At(c, "memtable") /\ (budget.calm => ~Homeless)
  /\ IF up = "open"
     THEN Set(c, [Done(session[c]) EXCEPT
                    !.best = Visible(memtable, session[c].key, session[c].read)])
     ELSE Set(c, [session[c] EXCEPT !.todo = <<"end", "compute", "set", "return">>])
  /\ UNCHANGED <<up, nodeVars, walVars, durable, sstVars, txnVars, budget, history>>

\* level_files
ListLevel(c) ==
  /\ At(c, "list")
  /\ Set(c, [Done(session[c]) EXCEPT
               !.files = {f.id : f \in {g \in catalog : g.level = session[c].level}}])
  /\ UNCHANGED <<up, nodeVars, walVars, durable, sstVars, txnVars, budget, history>>

\* Pin and search the files listed; one that is retired meanwhile is skipped.
\* The pins are held until the next step.
ReadLevel(c) ==
  LET s == session[c]
      pinned == {f \in disk : f.id \in s.files /\ f.id \notin deferred}
      found == Visible(UNION {f.versions : f \in pinned}, s.key, s.read)
  IN  /\ At(c, "read")
      /\ Set(c, [Done(s) EXCEPT !.best = Newer(s.best, found), !.level = @ + 1,
                                !.files = {f.id : f \in pinned}])
      /\ UNCHANGED <<up, nodeVars, walVars, durable, sstVars, txnVars, budget,
                     history>>

Pins ==
  UNION {session[c].files : c \in {d \in Client :
           session[d].todo # <<>> /\ Head(session[d].todo) \in {"list", "noted"}}}

\* The read-set entry.
NoteGet(c) ==
  LET s == session[c]
  IN  /\ At(c, "noted")
      /\ Set(c, [Done(s) EXCEPT !.reads = @ \cup {s.key}, !.best = {}, !.level = 0,
                   !.files = {}, !.key = 0, !.seen = @ \cup {[key |-> s.key, got |-> s.best]}])
      /\ ssi' = NoteRead(s, s.key)
      /\ UNCHANGED <<up, nodeVars, walVars, durable, sstVars, active, lastCommit,
                     occ, budget, history>>

\* Transaction::put and delete: the key joins the read-set (what the lookup
\* finds is not used), the value goes to the workspace.
Buffer(c, k, del) ==
  LET s == session[c]
  IN  /\ Ready(c) /\ up = "open"
      /\ (IF del THEN "delete" ELSE "write") \in budget.calls[c]
      /\ k \notin Written(s)
      /\ Cardinality(s.seen) + Cardinality(s.writes) < budget.ops[c]
      /\ Set(c, [s EXCEPT !.reads = @ \cup {k},
                          !.writes = @ \cup {[key |-> k, del |-> del]}])
      /\ ssi' = NoteRead(s, k)
      /\ UNCHANGED <<up, nodeVars, walVars, durable, sstVars, active, lastCommit,
                     occ, budget, history>>

\* Mutant: validation before the commit lock.
CommitValidatedFirst(c) ==
  /\ Ready(c) /\ up = "open"
  /\ Set(c, [session[c] EXCEPT !.todo =
       IF session[c].writes = {} THEN <<"end", "compute", "set", "return">>
       ELSE <<"validate", "lock", "admit", "doom", "log">> \o ProposeSteps
            \o EndSteps])
  /\ UNCHANGED <<up, nodeVars, walVars, durable, sstVars, txnVars, budget, history>>

\* Transaction::commit, of nothing and of a write-set.
Commit(c) ==
  /\ Ready(c) /\ up = "open"
  /\ Set(c, [session[c] EXCEPT !.todo =
       IF session[c].writes = {} THEN <<"end", "compute", "set", "return">>
       ELSE <<"lock", "validate", "admit", "doom", "log">> \o ProposeSteps
            \o EndSteps])
  /\ UNCHANGED <<up, nodeVars, walVars, durable, sstVars, txnVars, budget, history>>

\* Transaction::abort, and Drop.
Abort(c) ==
  /\ Ready(c) /\ "abort" \in budget.calls[c]
  /\ Set(c, [session[c] EXCEPT !.todo = <<"end", "compute", "set", "return">>])
  /\ UNCHANGED <<up, nodeVars, walVars, durable, sstVars, txnVars, budget, history>>

Lock(c) ==
  /\ At(c, "lock") /\ occ = None
  /\ occ' = c
  /\ Continue(c)
  /\ UNCHANGED <<up, nodeVars, walVars, durable, sstVars, active, ssi, lastCommit,
                 budget, history>>

Unlock(c) ==
  /\ At(c, "unlock")
  /\ occ' = IF occ = c THEN None ELSE occ
  /\ Continue(c)
  /\ UNCHANGED <<up, nodeVars, walVars, durable, sstVars, active, ssi, lastCommit,
                 budget, history>>

\* A key of the read-set or the write-set was committed after the snapshot.
Stale(s) == \E k \in s.reads \cup Written(s) : lastCommit[k] > s.read

Doomed(s) == \E t \in ssi : t.id = s.tag /\ t.doomed

\* The SSI check, then the OCC check of prepare_txn_commit_unlocked.
Validate(c) ==
  LET s == session[c]
  IN  /\ At(c, "validate")
      /\ IF Doomed(s) \/ Stale(s)
         THEN Set(c, [s EXCEPT !.todo = RefuseSteps(s)])
         ELSE Continue(c)
      /\ UNCHANGED <<up, nodeVars, walVars, durable, sstVars, txnVars, budget,
                     history>>

\* AdmissionController::acquire_timeout: a writer waits while L0 is full, and
\* gives up at its deadline.
Admit(c) ==
  /\ At(c, "admit")
  /\ \/ /\ Cardinality({f \in catalog : f.level = 0}) < HardLimit
        /\ Continue(c)
        /\ UNCHANGED budget
     \/ /\ Spend("timeouts")
        /\ Set(c, [session[c] EXCEPT !.todo = RefuseSteps(session[c])])
  /\ UNCHANGED <<up, nodeVars, walVars, durable, sstVars, txnVars, history>>

\* doom_concurrent_readers
Doom(c) ==
  LET s == session[c]
  IN  /\ At(c, "doom")
      /\ ssi' = IF s.serializable
                THEN {IF t.id # s.tag /\ t.reads \cap Written(s) # {}
                      THEN [t EXCEPT !.doomed = TRUE] ELSE t : t \in ssi}
                ELSE ssi
      /\ Continue(c)
      /\ UNCHANGED <<up, nodeVars, walVars, durable, sstVars, active, lastCommit,
                     occ, budget, history>>

\* Mutant: the transaction WAL is not written.
LogTxnSkipped(c) ==
  /\ At(c, "log")
  /\ ops' = [ops EXCEPT ![session[c].tag].keys = Written(session[c])]
  /\ Continue(c)
  /\ UNCHANGED <<up, nodeVars, walVars, durable, sstVars, txnVars, budget, acked,
                 commits>>

\* log_txn_wal: the write-set and its Commit record, synced.
LogTxn(c) ==
  LET s == session[c]
  IN  /\ At(c, "log")
      /\ txnWal' = Append(txnWal, [tag |-> s.tag, writes |-> s.writes])
      /\ ops' = [ops EXCEPT ![s.tag].keys = Written(s)]
      /\ Continue(c)
      /\ UNCHANGED <<up, nodeVars, walVars, seqno, sstVars, txnVars, budget, acked,
                     commits>>

\* end_transaction, before it publishes the watermark.
End(c) ==
  /\ At(c, "end")
  /\ active' = {t \in active : t.id # session[c].tag}
  /\ ssi' = {t \in ssi : t.id # session[c].tag}
  /\ Continue(c)
  /\ UNCHANGED <<up, nodeVars, walVars, durable, sstVars, lastCommit, occ, budget,
                 history>>

-----------------------------------------------------------------------------
(* Proposals and the group-commit WAL *)

\* TakyonicEngine::put and delete, outside any transaction.
PutPlain(c, k, del) ==
  /\ up = "open" /\ Spend("puts")
  /\ (IF del THEN "delete" ELSE "write") \in budget.calls[c]
  /\ Start(c, [Idle EXCEPT !.kind = "put", !.writes = {[key |-> k, del |-> del]},
                           !.todo = <<"admit">> \o ProposeSteps \o <<"return">>])
  /\ UNCHANGED <<up, nodeVars, walVars, durable, sstVars, txnVars>>

\* LocalRaftNode::propose takes the next index; a closed engine has no node.
Allocate(c) ==
  LET s == session[c]
  IN  /\ At(c, "allocate")
      /\ IF up = "open"
         THEN /\ Set(c, [Done(s) EXCEPT !.index = nextIndex])
              /\ nextIndex' = nextIndex + 1
              /\ ops' = [ops EXCEPT ![s.tag].index = nextIndex]
         ELSE /\ Set(c, [s EXCEPT !.todo = ErrorSteps(s)])
              /\ UNCHANGED <<nextIndex, ops>>
      /\ UNCHANGED <<up, lastApplied, memtable, walVars, durable, sstVars, txnVars,
                     budget, acked, commits>>

\* RaftCommand::to_entries: one version per key, in key order, all with the
\* same commit timestamp.
ToEntries(s) ==
  LET sorted == SetToSortSeq(s.writes, LAMBDA x, y : x.key < y.key)
  IN  [i \in 1..Len(sorted) |-> [key |-> sorted[i].key, seq |-> s.index,
                                by |-> s.tag, del |-> sorted[i].del]]

\* submit and submit_batch: the check of the closed flag, then the send.
Submit(c) ==
  /\ At(c, "submit")
  /\ IF walClosed THEN Set(c, [session[c] EXCEPT !.todo =
                                              ErrorSteps(session[c])])
                  ELSE Continue(c)
  /\ UNCHANGED <<up, nodeVars, walVars, durable, sstVars, txnVars, budget, history>>

Send(c) ==
  /\ At(c, "send")
  /\ IF flusher.step = "exited"
     THEN /\ Set(c, [session[c] EXCEPT !.todo = ErrorSteps(session[c])])
          /\ UNCHANGED queue
     ELSE /\ Continue(c)
          /\ queue' = Append(queue, [kind |-> "append", from |-> c, segment |-> 0,
                                     entries |-> ToEntries(session[c])])
  /\ UNCHANGED <<up, nodeVars, flusher, walClosed, segments, segment, durable,
                 sstVars, txnVars, budget, history>>

\* note_committed_keys, and the write is acknowledged once the call returns.
Note(c) ==
  LET s == session[c]
  IN  /\ At(c, "note")
      /\ lastCommit' = [k \in Key |-> IF k \in Written(s) THEN s.index
                                      ELSE lastCommit[k]]
      /\ acked' = acked \cup Range(ToEntries(s))
      /\ commits' = IF s.kind = "txn"
                    THEN commits \cup {[ts |-> s.index, read |-> s.read,
                           writes |-> Written(s), keys |-> s.reads \cup Written(s)]}
                    ELSE commits
      /\ Continue(c)
      /\ UNCHANGED <<up, nodeVars, walVars, durable, sstVars, active, ssi, occ,
                     budget, ops>>

\* flusher_loop takes what the channel holds, up to a rotation or a shutdown.
Collect ==
  LET stops == {i \in 1..Len(queue) : queue[i].kind # "append"}
      n == IF stops = {} THEN Len(queue) ELSE Min(stops)
      taken == SubSeq(queue, 1, n)
      appends == SelectSeq(taken, LAMBDA m : m.kind = "append")
      last == taken[n]
  IN  /\ flusher.step = "idle" /\ queue # <<>>
      /\ queue' = SubSeq(queue, n + 1, Len(queue))
      /\ flusher' = [flusher EXCEPT !.step = IF appends = <<>> THEN "answer" ELSE "write",
                       !.batch = appends,
                       !.rotateTo = last.segment,
                       !.rotator = IF last.kind = "rotate" THEN last.from ELSE None,
                       !.stop = last.kind = "shutdown"]
      /\ UNCHANGED <<up, session, nodeVars, walClosed, segments, segment, durable,
                     sstVars, txnVars, budget, history>>

BatchEntries == FlattenSeq([i \in 1..Len(flusher.batch) |-> flusher.batch[i].entries])

\* Mutant: the batch is not synced.
WriteBatchUnsynced ==
  /\ flusher.step = "write"
  /\ flusher' = [flusher EXCEPT !.step = "apply"]
  /\ UNCHANGED <<up, session, nodeVars, queue, walClosed, segments, segment, durable,
                 sstVars, txnVars, budget, history>>

\* append_batch_sync: one sync for the batch.
WriteBatch ==
  /\ flusher.step = "write"
  /\ segments' = [segments EXCEPT ![flusher.segment] = @ \o BatchEntries]
  /\ flusher' = [flusher EXCEPT !.step = "apply"]
  /\ UNCHANGED <<up, session, nodeVars, queue, walClosed, segment, durable, sstVars,
                 txnVars, budget, history>>

\* The apply hook, entry by entry: the memtable, then last_applied.
ApplyEntry ==
  LET e == BatchEntries[flusher.applied + 1]
  IN  /\ flusher.step = "apply"
      /\ memtable' = Merge(memtable, {e})
      /\ lastApplied' = Max({lastApplied, e.seq})
      /\ flusher' = [flusher EXCEPT !.applied = @ + 1,
           !.step = IF flusher.applied + 1 = Len(BatchEntries) THEN "answer" ELSE @]
      /\ UNCHANGED <<up, session, nextIndex, queue, walClosed, segments, segment,
                     durable, sstVars, txnVars, budget, history>>

\* Mutant: the caller of a rotation is not answered.
AnswerAppends ==
  LET woken == {flusher.batch[i].from : i \in 1..Len(flusher.batch)}
  IN  /\ flusher.step = "answer"
      /\ session' = [c \in Client |-> IF c \in woken THEN Done(session[c])
                                      ELSE session[c]]
      /\ flusher' = [Resting(IF flusher.rotator = None THEN flusher.segment
                             ELSE flusher.rotateTo)
                     EXCEPT !.step = IF flusher.stop THEN "exited" ELSE "idle"]
      /\ UNCHANGED <<up, nodeVars, queue, walClosed, segments, segment, durable,
                     sstVars, txnVars, budget, history>>

\* The waiters of the batch wake, the rotation takes effect and its caller
\* wakes, and after a shutdown the thread ends.
Answer ==
  LET woken == {flusher.batch[i].from : i \in 1..Len(flusher.batch)}
               \cup {flusher.rotator}
  IN  /\ flusher.step = "answer"
      /\ session' = [c \in Client |-> IF c \in woken THEN Done(session[c])
                                      ELSE session[c]]
      /\ flusher' = [Resting(IF flusher.rotator = None THEN flusher.segment
                             ELSE flusher.rotateTo)
                     EXCEPT !.step = IF flusher.stop THEN "exited" ELSE "idle"]
      /\ UNCHANGED <<up, nodeVars, queue, walClosed, segments, segment, durable,
                     sstVars, txnVars, budget, history>>

Flusher == Collect \/ WriteBatch \/ ApplyEntry \/ Answer

-----------------------------------------------------------------------------
(* Flush *)

\* maybe_flush_node
MaybeFlush(c) ==
  /\ At(c, "flush?")
  /\ IF Cardinality(memtable) >= budget.flushAt
     THEN Set(c, [session[c] EXCEPT !.todo = FlushSteps \o Tail(@)])
     ELSE Continue(c)
  /\ UNCHANGED <<up, nodeVars, walVars, durable, sstVars, txnVars, budget, history>>

\* flush_node: the memtable is emptied under flush_mu; with nothing in it the
\* flush is over.
Drain(c) ==
  LET s == session[c]
  IN  /\ At(c, "drain")
      /\ IF memtable = {}
         THEN Set(c, [s EXCEPT !.todo = SubSeq(@, Len(FlushSteps) + 1, Len(@))])
         ELSE Set(c, [Done(s) EXCEPT !.drained = memtable])
      /\ memtable' = {}
      /\ UNCHANGED <<up, nextIndex, lastApplied, walVars, durable, sstVars, txnVars,
                     budget, history>>

\* SstWriter::write and add_sst: the file is renamed into place, registered and
\* catalogued at level 0.
Install(c) ==
  LET file == [id |-> nextSst, level |-> 0, versions |-> session[c].drained]
  IN  /\ At(c, "install")
      /\ disk' = disk \cup {file} /\ catalog' = catalog \cup {file}
      /\ nextSst' = nextSst + 1
      /\ Set(c, [Done(session[c]) EXCEPT !.drained = {}])
      /\ UNCHANGED <<up, nodeVars, walVars, durable, deferred, plans, watermark,
                     txnVars, budget, history>>

NewSegment(c) ==
  /\ At(c, "segment")
  /\ segment' = segment + 1
  /\ segments' = (segment + 1 :> <<>>) @@ segments
  /\ Set(c, [Done(session[c]) EXCEPT !.segment = segment + 1])
  /\ UNCHANGED <<up, nodeVars, queue, flusher, walClosed, durable, sstVars, txnVars,
                 budget, history>>

\* rotate_wal
Rotate(c) ==
  LET s == session[c]
  IN  /\ At(c, "rotate")
      /\ IF walClosed
         THEN /\ Set(c, [s EXCEPT !.todo = ErrorSteps(s)])
              /\ UNCHANGED queue
         ELSE /\ Continue(c)
              /\ queue' = Append(queue, [kind |-> "rotate", from |-> c,
                                         segment |-> s.segment, entries |-> <<>>])
      /\ UNCHANGED <<up, nodeVars, flusher, walClosed, segments, segment, durable,
                     sstVars, txnVars, budget, history>>

-----------------------------------------------------------------------------
(* Compaction *)

Smallest(f) == Min({v.key : v \in f.versions})
Largest(f) == Max({v.key : v \in f.versions})
Overlaps(f, lo, hi) == Smallest(f) <= hi /\ Largest(f) >= lo

\* Files fs and every file of candidates their joint range meets, transitively.
Closed(fs, candidates) ==
  \A g \in candidates :
    Overlaps(g, Min({Smallest(f) : f \in fs}), Max({Largest(f) : f \in fs})) => g \in fs
Closure(f, candidates) ==
  {g \in candidates : \A fs \in SUBSET candidates :
                         f \in fs /\ Closed(fs, candidates) => g \in fs}

\* Mutant: nothing is reserved.
ReservedNone == {}

Reserved == UNION {p.inputs : p \in plans}

\* Mutant: the overlapping files of the next level are left out.
InputsFromSource(f, l) ==
  IF l = 0 THEN Closure(f, {g \in catalog : g.level = 0}) ELSE {f}

\* The inputs SstManager::pick would take from candidate f of level l.
InputsFrom(f, l) ==
  LET level(n) == {g \in catalog : g.level = n}
      sources == IF l = 0 THEN Closure(f, level(0)) ELSE {f}
      lo == Min({Smallest(g) : g \in sources})
      hi == Max({Largest(g) : g \in sources})
  IN  sources \cup {g \in level(l + 1) : Overlaps(g, lo, hi)}

\* Level order: by id in level 0, by smallest key below.
Rank(f) == IF f.level = 0 THEN f.id ELSE Smallest(f)

\* The plan pick makes for level l, in a set of at most one: the first candidate
\* none of whose inputs is reserved.
Pick(l, id) ==
  LET fits == {f \in catalog : f.level = l /\ InputsFrom(f, l) \cap Reserved = {}}
      first == {f \in fits : \A g \in fits : Rank(f) <= Rank(g)}
  IN  {[level |-> l, inputs |-> InputsFrom(f, l), out |-> id, step |-> "queued",
        versions |-> {}] : f \in first}

Pool(l) == IF l = 0 THEN "rapid" ELSE "haul"
Queued(pool) == {p \in plans : Pool(p.level) = pool /\ p.step = "queued"}

\* submit_l0 and submit_ln for level l: a full queue drops the plan.
Enqueue(l) ==
  IF Cardinality(Queued(Pool(l))) < QueueDepth THEN Pick(l, nextSst) ELSE {}

\* kick_compaction, and the submissions of drain_compaction, one level at a time
\* from level s.level.  A plan dropped has used up its id.
Kick(c) ==
  LET s == session[c]
      new == Enqueue(s.level)
      kept == IF Head(s.todo) = "kick" THEN {} ELSE s.files \cup {p.out : p \in new}
  IN  /\ At(c, "kick") \/ At(c, "dispatch")
      /\ plans' = plans \cup new
      /\ nextSst' = nextSst + Cardinality(Pick(s.level, nextSst))
      /\ Set(c, IF s.level >= LastLevel - 1
                THEN [Done(s) EXCEPT !.level = 0, !.files = kept]
                ELSE [s EXCEPT !.level = @ + 1, !.files = kept])
      /\ UNCHANGED <<up, nodeVars, walVars, durable, disk, deferred, catalog, watermark,
                     txnVars, budget, history>>

\* execute_plan pins and merges the inputs, collecting at the watermark of that
\* moment, and writes and registers the output file.
MergeInputs(p) ==
  LET merged == Survivors(UNION {f.versions : f \in p.inputs}, watermark)
  IN  /\ p.step = "queued"
      /\ \A q \in Queued(Pool(p.level)) : p.out <= q.out
      /\ plans' = (plans \ {p}) \cup {[p EXCEPT !.step = "merged", !.versions = merged]}
      /\ disk' = disk \cup {[id |-> p.out, level |-> p.level + 1, versions |-> merged]}
      /\ UNCHANGED <<up, session, nodeVars, walVars, durable, deferred, catalog,
                     nextSst, watermark, txnVars, budget, history>>

\* install_outputs: in the catalog the output takes the place of the inputs.
InstallOutput(p) ==
  LET file == [id |-> p.out, level |-> p.level + 1, versions |-> p.versions]
  IN  /\ p.step = "merged"
      /\ catalog' = (catalog \ p.inputs) \cup {file}
      /\ plans' = (plans \ {p}) \cup {[p EXCEPT !.step = "installed"]}
      /\ UNCHANGED <<up, session, nodeVars, walVars, durable, disk, deferred,
                     nextSst, watermark, txnVars, budget, history>>

\* SstRegistry::retire of every input: no new pins, and the file is unlinked
\* unless a reader has it pinned.  reap is never called again for one that is.
RetireInputs(p) ==
  LET pinned == {f \in p.inputs : f.id \in Pins}
  IN  /\ p.step = "installed" /\ (budget.calm => ~Listed(p))
      /\ disk' = disk \ (p.inputs \ pinned)
      /\ deferred' = deferred \cup {f.id : f \in pinned}
      /\ plans' = plans \ {p}
      /\ UNCHANGED <<up, session, nodeVars, walVars, durable, catalog, nextSst,
                     watermark, txnVars, budget, history>>

Compaction(p) == MergeInputs(p) \/ InstallOutput(p) \/ RetireInputs(p)

-----------------------------------------------------------------------------
(* VACUUM *)

\* vacuum_table: publish the watermark and collect the memtable, flush, and
\* compact until there is nothing to pick.
Vacuum(c) ==
  /\ up = "open" /\ Spend("vacuums")
  /\ Start(c, [Idle EXCEPT !.kind = "vacuum",
                 !.todo = <<"compute", "set", "mark", "gc">> \o FlushSteps
                          \o <<"dispatch", "tickets", "return">>])
  /\ UNCHANGED <<up, nodeVars, walVars, durable, sstVars, txnVars>>

\* The watermark read back: another thread may have set it meanwhile.
ReadWatermark(c) ==
  /\ At(c, "mark")
  /\ Set(c, [Done(session[c]) EXCEPT !.mark = watermark])
  /\ UNCHANGED <<up, nodeVars, walVars, durable, sstVars, txnVars, budget, history>>

\* gc_below_watermark_prefix
CollectMemtable(c) ==
  /\ At(c, "gc")
  /\ memtable' = Survivors(memtable, session[c].mark)
  /\ Continue(c)
  /\ UNCHANGED <<up, nextIndex, lastApplied, walVars, durable, sstVars, txnVars,
                 budget, history>>

\* drain_compaction waits for the tickets of what it submitted, and submits
\* again unless there was nothing.
AwaitTickets(c) ==
  LET s == session[c]
  IN  /\ At(c, "tickets") /\ \A p \in plans : p.out \notin s.files
      /\ Set(c, IF s.files = {} THEN Done(s)
                ELSE [s EXCEPT !.files = {}, !.todo = <<"dispatch">> \o @])
      /\ UNCHANGED <<up, nodeVars, walVars, durable, sstVars, txnVars, budget, history>>

-----------------------------------------------------------------------------
(* Close, crash and open *)

\* TakyonicEngine::close marks the engine closed, flushes, and goes on.
Close(c) ==
  /\ up = "open" /\ Spend("closes")
  /\ Start(c, [Idle EXCEPT !.kind = "close",
                 !.todo = FlushSteps \o <<"shutdown", "join", "marker", "prune",
                                         "checkpoint", "stop">>])
  /\ up' = "closing"
  /\ UNCHANGED <<nodeVars, walVars, durable, sstVars, txnVars>>

\* GroupCommitWal::shutdown; the segment current now is the first one kept.
Shutdown(c) ==
  /\ At(c, "shutdown")
  /\ walClosed' = TRUE
  /\ queue' = Append(queue, [kind |-> "shutdown", from |-> c, segment |-> 0,
                             entries |-> <<>>])
  /\ Set(c, [Done(session[c]) EXCEPT !.segment = segment])
  /\ UNCHANGED <<up, nodeVars, flusher, segments, segment, durable, sstVars,
                 txnVars, budget, history>>

Join(c) ==
  /\ At(c, "join") /\ flusher.step = "exited"
  /\ Continue(c)
  /\ UNCHANGED <<up, nodeVars, walVars, durable, sstVars, txnVars, budget, history>>

\* write_seq_marker
WriteMarker(c) ==
  /\ At(c, "marker")
  /\ seqno' = nextIndex
  /\ Continue(c)
  /\ UNCHANGED <<up, nodeVars, walVars, txnWal, sstVars, txnVars, budget, history>>

\* prune_wal_segments_below
PruneSegments(c) ==
  /\ At(c, "prune")
  /\ segments' = [n \in {m \in DOMAIN segments : m >= session[c].segment} |-> segments[n]]
  /\ Continue(c)
  /\ UNCHANGED <<up, nodeVars, queue, flusher, walClosed, segment, durable, sstVars,
                 txnVars, budget, history>>

\* checkpoint_truncate
Checkpoint(c) ==
  /\ At(c, "checkpoint")
  /\ txnWal' = <<>>
  /\ Continue(c)
  /\ UNCHANGED <<up, nodeVars, walVars, seqno, sstVars, txnVars, budget, history>>

\* What a stopped process leaves behind is on disk.
Stopped ==
  /\ up' = "down"
  /\ nextIndex' = 1 /\ lastApplied' = 0 /\ memtable' = {}
  /\ queue' = <<>> /\ flusher' = [Resting(0) EXCEPT !.step = "exited"]
  /\ walClosed' = TRUE /\ segment' = 0
  /\ deferred' = {} /\ catalog' = {} /\ plans' = {} /\ nextSst' = 1 /\ watermark' = 0
  /\ active' = {} /\ ssi' = {} /\ lastCommit' = [k \in Key |-> 0] /\ occ' = None

\* The compaction pools have drained and close returns.  A thread parked on a
\* reply stays parked; any other gets an error.
Stop(c) ==
  /\ At(c, "stop") /\ plans = {}
  /\ session' = [d \in Client |->
       IF session[d].todo # <<>> /\ Head(session[d].todo) = "wait"
       THEN session[d] ELSE Idle]
  /\ Stopped
  /\ UNCHANGED <<segments, durable, disk, budget, history>>

\* The process dies.  Of a batch being written, a prefix may be on disk.
Crash ==
  /\ up # "down" /\ Spend("crashes")
  /\ session' = [c \in Client |-> Idle]
  /\ \E n \in 0..(IF flusher.step = "write" THEN Len(BatchEntries) ELSE 0) :
       segments' = IF n = 0 THEN segments
                   ELSE [segments EXCEPT ![flusher.segment] =
                           @ \o SubSeq(BatchEntries, 1, n)]
  /\ Stopped
  /\ UNCHANGED <<durable, disk, history>>

Open(c) ==
  /\ up = "down" /\ Spend("opens")
  /\ Start(c, [Idle EXCEPT !.kind = "open",
                 !.todo = <<"recover", "redo", "truncate", "flush?", "kick",
                            "serve", "return">>])
  /\ up' = "opening"
  /\ UNCHANGED <<nodeVars, walVars, durable, sstVars, txnVars>>

Disjoint(files) ==
  \A f, g \in files :
    f # g /\ f.level = g.level /\ f.level > 0 => ~Overlaps(f, Smallest(g), Largest(g))

\* recover_existing_ssts, which rejects overlapping files, then recover_wal: all
\* segments into the memtable, and the next index above all of them and SEQNO.
Recover(c) ==
  LET logged == UNION {Range(segments[n]) : n \in DOMAIN segments}
      next == Max({seqno, 1} \cup {e.seq + 1 : e \in logged})
  IN  /\ At(c, "recover")
      /\ IF Disjoint(disk)
         THEN /\ catalog' = disk
              /\ nextSst' = 1 + Max({0} \cup {f.id : f \in disk})
              /\ segment' = Max({1} \cup DOMAIN segments)
              /\ segments' = segments @@ (segment' :> <<>>)
              /\ flusher' = Resting(segment')
              /\ walClosed' = FALSE
              /\ memtable' = logged
              /\ nextIndex' = next /\ lastApplied' = next - 1
              /\ Continue(c)
              /\ UNCHANGED up
         ELSE /\ up' = "down" /\ Set(c, Idle)
              /\ UNCHANGED <<catalog, nextSst, segment, segments, flusher,
                             walClosed, memtable, nextIndex, lastApplied>>
      /\ UNCHANGED <<queue, durable, disk, deferred, plans, watermark, txnVars, budget,
                     history>>

\* The redo of TXN_WAL: every operation goes to the memtable with an index of
\* its own, then to the WAL with another, synced.
Redo(c) ==
  LET batch(t) == SetToSortSeq(t.writes, LAMBDA x, y : x.key < y.key)
      tagged(t) == [i \in 1..Len(batch(t)) |->
                      [key |-> batch(t)[i].key, seq |-> 0, by |-> t.tag,
                       del |-> batch(t)[i].del]]
      redone == FlattenSeq([n \in 1..Len(txnWal) |-> tagged(txnWal[n])])
      from(n) == [i \in 1..Len(redone) |-> [redone[i] EXCEPT !.seq = n + i - 1]]
  IN  /\ At(c, "redo")
      /\ memtable' = Merge(memtable, Range(from(nextIndex)))
      /\ segments' = [segments EXCEPT ![segment] =
                        @ \o from(nextIndex + Len(redone))]
      /\ nextIndex' = nextIndex + 2 * Len(redone)
      /\ lastApplied' = nextIndex' - 1
      /\ Continue(c)
      /\ UNCHANGED <<up, queue, flusher, walClosed, segment, durable, sstVars,
                     txnVars, budget, history>>

Truncate(c) ==
  /\ At(c, "truncate")
  /\ txnWal' = <<>>
  /\ Continue(c)
  /\ UNCHANGED <<up, nodeVars, walVars, seqno, sstVars, txnVars, budget, history>>

Serve(c) ==
  /\ At(c, "serve")
  /\ up' = "open"
  /\ Continue(c)
  /\ UNCHANGED <<nodeVars, walVars, durable, sstVars, txnVars, budget, history>>

-----------------------------------------------------------------------------
(* The specification *)

\* The operations a client may begin.
Call(c) ==
  \/ \E serializable \in budget.serializable : Begin(c, serializable)
  \/ \E k \in budget.keys : Get(c, k)
  \/ \E k \in budget.keys, del \in BOOLEAN : Buffer(c, k, del) \/ PutPlain(c, k, del)
  \/ Commit(c) \/ Abort(c) \/ Vacuum(c) \/ Close(c) \/ Open(c)

\* What it has begun and goes on with, by the part of the engine that does it.
SnapshotStep(c) ==
  /\ Doing(c, {"register", "compute", "set", "ssi", "memtable", "list", "read",
                "noted", "end", "return"})
  /\ \/ Register(c) \/ Compute(c) \/ SetWatermark(c) \/ SsiRegister(c)
     \/ GetMemtable(c) \/ ListLevel(c) \/ ReadLevel(c) \/ NoteGet(c)
     \/ End(c) \/ Return(c)

CommitStep(c) ==
  /\ Doing(c, {"lock", "validate", "admit", "doom", "log", "allocate", "submit",
                "send", "note", "unlock"})
  /\ \/ Lock(c) \/ Validate(c) \/ Admit(c) \/ Doom(c) \/ LogTxn(c)
     \/ Allocate(c) \/ Submit(c) \/ Send(c) \/ Note(c) \/ Unlock(c)

FlushStep(c) ==
  /\ Doing(c, {"flush?", "drain", "install", "segment", "rotate", "kick", "mark",
                "gc", "dispatch", "tickets"})
  /\ \/ MaybeFlush(c) \/ Drain(c) \/ Install(c) \/ NewSegment(c) \/ Rotate(c)
     \/ Kick(c) \/ ReadWatermark(c) \/ CollectMemtable(c) \/ AwaitTickets(c)

CloseStep(c) ==
  /\ Doing(c, {"shutdown", "join", "marker", "prune", "checkpoint", "stop"})
  /\ \/ Shutdown(c) \/ Join(c) \/ WriteMarker(c) \/ PruneSegments(c)
     \/ Checkpoint(c) \/ Stop(c)

OpenStep(c) ==
  /\ Doing(c, {"recover", "redo", "truncate", "serve"})
  /\ Recover(c) \/ Redo(c) \/ Truncate(c) \/ Serve(c)

Step(c) ==
  SnapshotStep(c) \/ CommitStep(c) \/ FlushStep(c) \/ CloseStep(c) \/ OpenStep(c)

Compactor == \E p \in plans : Compaction(p)

Next == (\E c \in Client : Call(c) \/ Step(c)) \/ Flusher \/ Compactor \/ Crash

\* Threads that can move do: the client threads, the flusher and the workers.
Fairness ==
  /\ \A c \in Client : WF_session(Step(c))
  /\ WF_flusher(Flusher) /\ WF_plans(Compactor)

Spec == Init /\ [][Next]_vars /\ Fairness

-----------------------------------------------------------------------------
(* Properties *)

\* Everything the node holds: the memtable, what a flush has taken out of it and
\* not yet installed, and the catalogued files.
Stored ==
  memtable \cup UNION {session[c].drained : c \in Client}
           \cup UNION {f.versions : f \in catalog}

Version == [key : Key, seq : Nat, by : Nat, del : BOOLEAN]

\* Every version stored names an operation that was started, and no index is in
\* use that was not handed out.
TypeOK ==
  /\ Stored \subseteq Version
  /\ \A v \in Stored : v.by \in DOMAIN ops
  /\ up = "open" => \A v \in Stored : v.seq < nextIndex
  /\ lastApplied < nextIndex
  /\ \A t \in active : t.ts < nextIndex
  /\ occ \in Client \cup {None}

\* The order of the operations: one that was logged and never given an index
\* comes after those that were.
Later(x, y) ==
  ops[y].index # 0 /\ (ops[x].index = 0 \/ ops[x].index >= ops[y].index)

\* Every get of an open transaction returned the newest version of its key that
\* was acknowledged at or below the snapshot, or one as new (get_at_with_ts).
SnapshotReads ==
  \A c \in Client : session[c].kind = "txn" =>
    \A r \in session[c].seen, v \in acked :
      v.key = r.key /\ v.seq <= session[c].read =>
        \E g \in r.got : g.seq >= v.seq

\* The same outside the windows above: whatever is written, published, flushed,
\* vacuumed and compacted between taking a snapshot and reading it, and while it
\* is read, the version it needs stays where the get looks for it.  In one of the
\* windows the code does lose it.
CalmSnapshotReads == budget.calm => SnapshotReads

\* A transaction that commits has seen, of every key it read or wrote, the last
\* transaction that committed before it: prepare_txn_commit under txn_commit_mu.
FirstCommitterWins ==
  \A t, u \in commits : t.read < u.ts /\ u.ts < t.ts => t.keys \cap u.writes = {}

\* No acknowledged write is lost: the newest stored version of its key is that
\* write or a later one, also after a crash or a close, if the engine opens again
\* (recover_sst_file refuses files a compaction left overlapping).
Recovered ==
  up = "open" =>
    \A a \in acked :
      \E v \in Stored : /\ v.key = a.key
                        /\ \A w \in Stored : w.key = v.key => w.seq <= v.seq
                        /\ v.by = a.by \/ Later(v.by, a.by)

\* A logged transaction is stored whole or not at all once its thread is gone:
\* if one of its writes is there, each of the others is, or was overwritten.
AllOrNothing ==
  up = "open" =>
    \A t \in DOMAIN ops :
      (\E v \in Stored : v.by = t) /\ (\A c \in Client : session[c].tag # t) =>
        \A k \in ops[t].keys :
          \E v \in Stored : v.key = k /\ (v.by = t \/ Later(v.by, t))

\* Below level 0 the files of a level have disjoint ranges, whatever flushes and
\* compactions run at once: install_outputs never has to refuse an output.
LevelsDisjoint == Disjoint(catalog)

\* No file is an input of two compactions, and the inputs of one stay in the
\* catalog and on disk until its output replaces them (pick, install_outputs).
InputsStay ==
  \A p, q \in plans :
    /\ p # q => p.inputs \cap q.inputs = {}
    /\ p.step # "installed" => p.inputs \subseteq catalog
    /\ p.inputs \subseteq disk

\* Every call returns: nothing waits forever for the commit lock, for room in
\* level 0, for the flusher or for a compaction.
CallsReturn == \A c \in Client : (session[c].todo # <<>>) ~> (session[c].todo = <<>>)
=============================================================================
