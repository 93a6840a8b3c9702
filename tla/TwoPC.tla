------------------------------- MODULE TwoPC -------------------------------
(***************************************************************************)
(* Two-phase commit across shards: the TransactionCoordinator of dtxn.rs    *)
(* with its decision log (tc_log.rs), LocalShard participants, and the      *)
(* calls between them (RemoteShard and TwopcGrpcService of                  *)
(* twopc_service.rs).                                                       *)
(*                                                                         *)
(* A shard handler runs in the steps its mutexes cut it into, so handlers   *)
(* of several transactions interleave inside each other.  A value is the    *)
(* number (tag) of the transaction that wrote it, counted by history; ids   *)
(* come from next_txn, which a reopened coordinator may issue again.        *)
(***************************************************************************)
EXTENDS Integers, Sequences, FiniteSetsExt

CONSTANTS
  Client,         \* threads that call execute
  Shard,          \* shards a branch may name
  Registered,     \* the ones given to register_shard
  Key,            \* keys of a shard
  OrderlyReopen,  \* recover_participant is called on no shard that holds a
                  \* write-set of an execute under way or one whose decision
                  \* could not be written, and when the coordinator reopens it
                  \* succeeds on every shard, before new work, with no handler
                  \* of an earlier call under way.
                  \* If FALSE, it runs at any time and new work does not wait
  MaxTxns,        \* bound on the transactions begun
  Budgets,        \* bounds to start from: the clients that run, the requests
                  \* they make (sequences of [shard, writes, reads]), and the
                  \* number of coordinator crashes, of crashes that leave half a
                  \* decision record, of shard outages, and of calls and log
                  \* writes that fail
  Recoverer,      \* the thread that calls recover_participant
  None

ASSUME RegisteredAssumption == Registered \subseteq Shard
ASSUME CallerAssumption == Recoverer \notin Client /\ None \notin Client \cup {Recoverer}

VARIABLES
  nextTxn, clock,  \* next_txn and GlobalClock.next
  decisions,       \* the coordinator's decision table: records [id, state, ts]
  tcLog,           \* TC_DECISIONS: records [id, state, ts, tag], some torn
  tcUp,            \* the coordinator process runs
  unresolved,      \* shards not yet recovered since the coordinator reopened
  session,         \* the execute call of each client
  recovery,        \* the recover_participant call
  answer,          \* what each caller's outstanding call has returned
  handlers,        \* shard handlers under way
  prepared,        \* per shard: prepared write-sets
  locks,           \* per shard: key -> owner id, 0 if free
  log,             \* per shard: raft_log
  store,           \* per shard and key: versions in the order pushed
  lastCommit,      \* per shard and key: last_commit, 0 if none
  down,            \* per shard: crash_after_prepare
  history,         \* tag -> the request
  outcome,         \* tag -> what execute returned
  budget           \* what is left of the member of Budgets chosen

tcVars == <<nextTxn, clock, decisions, tcLog, tcUp, unresolved>>
shardVars == <<prepared, locks, log, store, lastCommit, down>>
vars == <<tcVars, session, recovery, answer, handlers, shardVars, history,
          outcome, budget>>

\* Spends one of a budgeted kind of fault.
Spend(kind) == budget[kind] > 0 /\ budget' = [budget EXCEPT ![kind] = @ - 1]

Caller == Client \cup {Recoverer}

Idle == [pc |-> "idle", id |-> 0, tag |-> 0, read |-> 0, ts |-> 0,
         state |-> "none", i |-> 1]

NoRecovery == [shard |-> None, left |-> {}, at |-> 0]

Init ==
  /\ nextTxn = 1 /\ clock = 1 /\ decisions = {} /\ tcLog = <<>>
  /\ tcUp = TRUE /\ unresolved = {}
  /\ session = [c \in Client |-> Idle]
  /\ recovery = NoRecovery
  /\ answer = [x \in Caller |-> "none"]
  /\ handlers = {}
  /\ prepared = [s \in Shard |-> {}]
  /\ locks = [s \in Shard |-> [k \in Key |-> 0]]
  /\ log = [s \in Shard |-> <<>>]
  /\ store = [s \in Shard |-> [k \in Key |-> <<>>]]
  /\ lastCommit = [s \in Shard |-> [k \in Key |-> 0]]
  /\ down = [s \in Shard |-> FALSE]
  /\ history = <<>> /\ outcome = <<>>
  /\ budget \in Budgets

-----------------------------------------------------------------------------
(* Calls *)

\* Caller x calls a handler at shard s.  A prepare carries its branch; a
\* commit or abort finds the write-set at the shard.
Call(x, kind, s, id, ts, tag, read, branch) ==
  /\ handlers' = handlers \cup
       {[kind |-> kind, shard |-> s, id |-> id, ts |-> ts, tag |-> tag,
         read |-> read, writes |-> branch.writes, reads |-> branch.reads,
         step |-> "start", from |-> x]}
  /\ answer' = [answer EXCEPT ![x] = "wait"]

NoBranch == [writes |-> {}, reads |-> {}]

\* Handler h goes on with its next step.
Step(h, next) ==
  /\ handlers' = (handlers \ {h}) \cup {next}
  /\ UNCHANGED answer

\* Handler h returns r to its caller, if the caller still waits.
Return(h, r) ==
  /\ handlers' = handlers \ {h}
  /\ answer' = IF h.from = None THEN answer ELSE [answer EXCEPT ![h.from] = r]

\* The connection breaks: the caller gets an error, and the request is lost
\* before it starts, or its handler runs on unheard.
CallFails(h) ==
  /\ h.from # None /\ Spend("lost")
  /\ answer' = [answer EXCEPT ![h.from] = "err"]
  /\ \/ h.step = "start" /\ handlers' = handlers \ {h}
     \/ handlers' = (handlers \ {h}) \cup {[h EXCEPT !.from = None]}
  /\ UNCHANGED <<tcVars, session, recovery, shardVars, history, outcome>>

-----------------------------------------------------------------------------
(* Shard handlers *)

\* prepare: occ_validate, against last_commit.
Validate(h) ==
  /\ h.kind = "prepare" /\ h.step = "start"
  /\ IF \E k \in h.reads \cup h.writes : lastCommit[h.shard][k] > h.read
     THEN Return(h, "err")
     ELSE Step(h, [h EXCEPT !.step = "lock"])
  /\ UNCHANGED <<tcVars, session, recovery, shardVars, history, outcome, budget>>

\* Mutant: a lock that is held is waited for.
LockWaiting(h) ==
  /\ h.kind = "prepare" /\ h.step = "lock"
  /\ \A k \in h.writes : locks[h.shard][k] \in {0, h.id}
  /\ Step(h, [h EXCEPT !.step = "log"])
  /\ locks' = [locks EXCEPT ![h.shard] =
                 [k \in Key |-> IF k \in h.writes THEN h.id ELSE @[k]]]
  /\ UNCHANGED <<tcVars, session, recovery, prepared, log, store, lastCommit,
                 down, history, outcome, budget>>

\* prepare: take every write lock, or none and fail without waiting.
Lock(h) ==
  /\ h.kind = "prepare" /\ h.step = "lock"
  /\ IF \E k \in h.writes : locks[h.shard][k] \notin {0, h.id}
     THEN Return(h, "err") /\ UNCHANGED locks
     ELSE /\ Step(h, [h EXCEPT !.step = "log"])
          /\ locks' = [locks EXCEPT ![h.shard] =
                         [k \in Key |-> IF k \in h.writes THEN h.id ELSE @[k]]]
  /\ UNCHANGED <<tcVars, session, recovery, prepared, log, store, lastCommit,
                 down, history, outcome, budget>>

\* prepare: the PREPARED record becomes durable.
LogPrepared(h) ==
  /\ h.kind = "prepare" /\ h.step = "log"
  /\ Step(h, [h EXCEPT !.step = "register"])
  /\ log' = [log EXCEPT ![h.shard] =
       Append(@, [kind |-> "prepare", id |-> h.id, tag |-> h.tag,
                  read |-> h.read, ts |-> 0, writes |-> h.writes])]
  /\ UNCHANGED <<tcVars, session, recovery, prepared, locks, store, lastCommit,
                 down, history, outcome, budget>>

\* prepare: enter the prepared table and acknowledge, unless the shard goes
\* down before it can.
Register(h) ==
  /\ h.kind = "prepare" /\ h.step = "register"
  /\ prepared' = [prepared EXCEPT ![h.shard] =
       {p \in @ : p.id # h.id} \cup
       {[id |-> h.id, tag |-> h.tag, writes |-> h.writes]}]
  /\ Return(h, IF down[h.shard] THEN "err" ELSE "ok")
  /\ UNCHANGED <<tcVars, session, recovery, locks, log, store, lastCommit,
                 down, history, outcome, budget>>

\* commit: remove the write-set from the prepared table; abort the same, but
\* an abort of an unknown transaction goes on.
TakePrepared(h) ==
  LET mine == {p \in prepared[h.shard] : p.id = h.id}
  IN  /\ h.kind \in {"commit", "abort"} /\ h.step = "start"
      /\ \/ /\ down[h.shard] \/ (h.kind = "commit" /\ mine = {})
            /\ Return(h, "err")
            /\ UNCHANGED prepared
         \/ /\ ~down[h.shard] /\ h.kind = "abort" /\ mine = {}
            /\ Step(h, [h EXCEPT !.step = "log"])
            /\ UNCHANGED prepared
         \/ /\ ~down[h.shard]
            /\ \E p \in mine :
                 Step(h, [h EXCEPT !.step = "unlock", !.tag = p.tag,
                                   !.writes = p.writes])
            /\ prepared' = [prepared EXCEPT ![h.shard] = @ \ mine]
      /\ UNCHANGED <<tcVars, session, recovery, locks, log, store, lastCommit,
                     down, history, outcome, budget>>

\* Mutant: an abort keeps the locks.
UnlockCommits(h) ==
  /\ h.step = "unlock"
  /\ Step(h, [h EXCEPT !.step = "log"])
  /\ locks' = [locks EXCEPT ![h.shard] =
       [k \in Key |-> IF k \in h.writes /\ h.kind = "commit" THEN 0 ELSE @[k]]]
  /\ UNCHANGED <<tcVars, session, recovery, prepared, log, store, lastCommit,
                 down, history, outcome, budget>>

\* commit and abort: release the locks of the write-set.
Unlock(h) ==
  /\ h.step = "unlock"
  /\ Step(h, [h EXCEPT !.step = "log"])
  /\ locks' = [locks EXCEPT ![h.shard] =
                 [k \in Key |-> IF k \in h.writes THEN 0 ELSE @[k]]]
  /\ UNCHANGED <<tcVars, session, recovery, prepared, log, store, lastCommit,
                 down, history, outcome, budget>>

\* commit and abort: the outcome becomes durable at the shard.
LogOutcome(h) ==
  /\ h.kind \in {"commit", "abort"} /\ h.step = "log"
  /\ log' = [log EXCEPT ![h.shard] =
       Append(@, [kind |-> h.kind, id |-> h.id, tag |-> h.tag, read |-> 0,
                  ts |-> h.ts, writes |-> h.writes])]
  /\ IF h.kind = "commit" THEN Step(h, [h EXCEPT !.step = "apply"])
                          ELSE Return(h, "ok")
  /\ UNCHANGED <<tcVars, session, recovery, prepared, locks, store, lastCommit,
                 down, history, outcome, budget>>

\* commit: apply_writes.
ApplyWrites(h) ==
  /\ h.step = "apply"
  /\ store' = [store EXCEPT ![h.shard] =
       [k \in Key |-> IF k \in h.writes
                      THEN Append(@[k], [ts |-> h.ts, tag |-> h.tag]) ELSE @[k]]]
  /\ lastCommit' = [lastCommit EXCEPT ![h.shard] =
       [k \in Key |-> IF k \in h.writes THEN h.ts ELSE @[k]]]
  /\ Return(h, "ok")
  /\ UNCHANGED <<tcVars, session, recovery, prepared, locks, log, down,
                 history, outcome, budget>>

Handle(h) ==
  \/ Validate(h) \/ Lock(h) \/ LogPrepared(h) \/ Register(h)
  \/ TakePrepared(h) \/ Unlock(h) \/ LogOutcome(h) \/ ApplyWrites(h)

\* crash_after_prepare is set: the shard stops answering.
Outage(s) ==
  /\ ~down[s] /\ Spend("outage")
  /\ down' = [down EXCEPT ![s] = TRUE]
  /\ UNCHANGED <<tcVars, session, recovery, answer, handlers, prepared, locks,
                 log, store, lastCommit, history, outcome>>

\* What replaying the log l leaves prepared: the last record of the id is its
\* prepare.
PreparedIn(l) ==
  {[id |-> l[i].id, tag |-> l[i].tag, writes |-> l[i].writes] :
     i \in {j \in DOMAIN l : /\ l[j].kind = "prepare"
                             /\ \A m \in DOMAIN l : m > j => l[m].id # l[j].id}}

\* Replaying record j of l removes the lock of k: a commit that writes k, or an
\* abort that ends a prepare of k.
Unlocks(l, j, k) ==
  \/ l[j].kind = "commit" /\ k \in l[j].writes
  \/ /\ l[j].kind = "abort"
     /\ \E i \in 1..(j - 1) :
          /\ l[i].kind = "prepare" /\ l[i].id = l[j].id /\ k \in l[i].writes
          /\ \A m \in (i + 1)..(j - 1) : l[m].id # l[j].id

\* The owner of k after replaying l: the last prepare of k, unless a later
\* record removed the lock.
OwnerIn(l, k) ==
  LET locked == {i \in DOMAIN l :
                   /\ l[i].kind = "prepare" /\ k \in l[i].writes
                   /\ \A m \in DOMAIN l : m > i =>
                        /\ ~Unlocks(l, m, k)
                        /\ ~(l[m].kind = "prepare" /\ k \in l[m].writes)}
  IN  IF locked = {} THEN 0 ELSE l[CHOOSE i \in locked : TRUE].id

\* The shard process starts again: its handlers are gone, and
\* recover_from_raft_log rebuilds the tables and applies the commits again.
RestartShard(s) ==
  LET dead == {h \in handlers : h.shard = s}
      commits(k) == SelectSeq(log[s], LAMBDA r : r.kind = "commit" /\ k \in r.writes)
  IN  /\ down[s]
      /\ down' = [down EXCEPT ![s] = FALSE]
      /\ handlers' = handlers \ dead
      /\ answer' = [x \in Caller |-> IF \E h \in dead : h.from = x THEN "err"
                                     ELSE answer[x]]
      /\ prepared' = [prepared EXCEPT ![s] = PreparedIn(log[s])]
      /\ locks' = [locks EXCEPT ![s] = [k \in Key |-> OwnerIn(log[s], k)]]
      /\ store' = [store EXCEPT ![s] = [k \in Key |->
           @[k] \o [i \in DOMAIN commits(k) |->
                      [ts |-> commits(k)[i].ts, tag |-> commits(k)[i].tag]]]]
      /\ lastCommit' = [lastCommit EXCEPT ![s] = [k \in Key |->
           IF commits(k) = <<>> THEN @[k] ELSE commits(k)[Len(commits(k))].ts]]
      /\ UNCHANGED <<tcVars, session, recovery, log, history, outcome, budget>>

-----------------------------------------------------------------------------
(* The coordinator: execute *)

Branches(c) == history[session[c].tag]
Branch(c) == Branches(c)[session[c].i]
More(c) == session[c].i <= Len(Branches(c))

\* begin allocates the id and the read timestamp; commit of no branches goes
\* straight to finish_abort.
Begin(c) ==
  /\ c \in budget.clients
  /\ tcUp /\ session[c].pc = "idle" /\ Len(history) < MaxTxns
  /\ OrderlyReopen => unresolved = {}
  /\ nextTxn' = nextTxn + 1 /\ clock' = clock + 1
  /\ \E req \in budget.requests :
       /\ session' = [session EXCEPT ![c] =
            [Idle EXCEPT !.pc = IF req = <<>> THEN "undo" ELSE "prepare",
                         !.id = nextTxn, !.tag = Len(history) + 1, !.read = clock]]
       /\ history' = Append(history, req)
       /\ outcome' = Append(outcome, "pending")
  /\ UNCHANGED <<decisions, tcLog, tcUp, unresolved, recovery, answer, handlers,
                 shardVars, budget>>

\* The three loops over the branches call the shards one after the other.
CallBranch(c) ==
  LET s == session[c]
      kind == CASE s.pc = "prepare" -> "prepare" [] s.pc = "undo" -> "abort"
                [] s.pc = "apply" -> "commit"
  IN  /\ s.pc \in {"prepare", "undo", "apply"} /\ answer[c] = "none" /\ More(c)
      /\ Branch(c).shard \in Registered
      /\ IF s.pc = "prepare"
         THEN Call(c, kind, Branch(c).shard, s.id, 0, s.tag, s.read, Branch(c))
         ELSE Call(c, kind, Branch(c).shard, s.id, s.ts, 0, 0, NoBranch)
      /\ UNCHANGED <<tcVars, session, recovery, shardVars, history, outcome, budget>>

\* A branch names an unknown shard: prepare fails, abort passes over it.
SkipBranch(c) ==
  /\ session[c].pc \in {"prepare", "undo"} /\ answer[c] = "none" /\ More(c)
  /\ Branch(c).shard \notin Registered
  /\ session' = [session EXCEPT ![c].pc = "undo",
                                ![c].i = IF session[c].pc = "undo" THEN @ + 1 ELSE 1]
  /\ UNCHANGED <<tcVars, recovery, answer, handlers, shardVars, history,
                 outcome, budget>>

Finish(c, result) ==
  /\ session' = [session EXCEPT ![c] = Idle]
  /\ outcome' = [outcome EXCEPT ![session[c].tag] = result]

\* Mutant: a failed commit of a branch goes on with the next.
TakeAnswerAnyway(c) ==
  LET s == session[c] IN
  /\ s.pc \in {"prepare", "undo", "apply"} /\ answer[c] \in {"ok", "err"}
  /\ answer' = [answer EXCEPT ![c] = "none"]
  /\ IF answer[c] = "err" /\ s.pc = "prepare"
     THEN session' = [session EXCEPT ![c].pc = "undo", ![c].i = 1]
     ELSE session' = [session EXCEPT ![c].i = @ + 1]
  /\ UNCHANGED <<tcVars, recovery, handlers, shardVars, history, outcome, budget>>

\* Mutant: a failed prepare goes on with the next branch.
TakeAnswerUnvoted(c) ==
  LET s == session[c] IN
  /\ s.pc \in {"prepare", "undo", "apply"} /\ answer[c] \in {"ok", "err"}
  /\ answer' = [answer EXCEPT ![c] = "none"]
  /\ IF answer[c] = "err" /\ s.pc = "apply"
     THEN Finish(c, "error")
     ELSE session' = [session EXCEPT ![c].i = @ + 1] /\ UNCHANGED outcome
  /\ UNCHANGED <<tcVars, recovery, handlers, shardVars, history, budget>>

\* The answer of a shard: a failed prepare turns to the aborts, whose answers
\* are ignored; a failed commit ends the call with an error.
TakeAnswer(c) ==
  LET s == session[c] IN
  /\ s.pc \in {"prepare", "undo", "apply"} /\ answer[c] \in {"ok", "err"}
  /\ answer' = [answer EXCEPT ![c] = "none"]
  /\ \/ /\ answer[c] = "ok" \/ s.pc = "undo"
        /\ session' = [session EXCEPT ![c].i = @ + 1]
        /\ UNCHANGED outcome
     \/ /\ answer[c] = "err" /\ s.pc = "prepare"
        /\ session' = [session EXCEPT ![c].pc = "undo", ![c].i = 1]
        /\ UNCHANGED outcome
     \/ answer[c] = "err" /\ s.pc = "apply" /\ Finish(c, "error")
  /\ UNCHANGED <<tcVars, recovery, handlers, shardVars, history, budget>>

\* persist_decision, first half: the table in memory.
Decide(c) ==
  LET s == session[c]
      state == IF s.pc = "prepare" THEN "committed" ELSE "aborted"
      ts == IF s.pc = "prepare" THEN clock ELSE 0
  IN  /\ s.pc \in {"prepare", "undo"} /\ answer[c] = "none" /\ ~More(c)
      /\ clock' = IF s.pc = "prepare" THEN clock + 1 ELSE clock
      /\ decisions' = {d \in decisions : d.id # s.id}
                        \cup {[id |-> s.id, state |-> state, ts |-> ts]}
      /\ session' = [session EXCEPT ![c].pc = "persist", ![c].ts = ts,
                                    ![c].state = state, ![c].i = 1]
      /\ UNCHANGED <<nextTxn, tcLog, tcUp, unresolved, recovery, answer, handlers,
                     shardVars, history, outcome, budget>>

DecisionOf(c) == [id |-> session[c].id, state |-> session[c].state,
                  ts |-> session[c].ts, tag |-> session[c].tag]

\* A record that is not whole.
Torn == [id |-> 0, state |-> "torn", ts |-> 0, tag |-> 0]

\* persist_decision, second half: the durable record.
Persist(c) ==
  /\ session[c].pc = "persist"
  /\ tcLog' = Append(tcLog, DecisionOf(c))
  /\ IF session[c].state = "aborted" THEN Finish(c, "aborted")
     ELSE /\ session' = [session EXCEPT ![c].pc = "apply"]
          /\ UNCHANGED outcome
  /\ UNCHANGED <<nextTxn, clock, decisions, tcUp, unresolved, recovery, answer,
                 handlers, shardVars, history, budget>>

\* The append or its sync fails, with none, all or part of the record in the
\* file; only an abort ignores the error.
PersistFails(c) ==
  /\ session[c].pc = "persist" /\ budget.lost > 0
  /\ \/ Spend("lost") /\ tcLog' \in {tcLog, Append(tcLog, DecisionOf(c))}
     \/ /\ budget.torn > 0
        /\ tcLog' = Append(tcLog, Torn)
        /\ budget' = [budget EXCEPT !.lost = @ - 1, !.torn = @ - 1]
  /\ Finish(c, IF session[c].state = "aborted" THEN "aborted" ELSE "error")
  /\ UNCHANGED <<nextTxn, clock, decisions, tcUp, unresolved, recovery, answer,
                 handlers, shardVars, history>>

\* Every shard has committed.
Committed(c) ==
  /\ session[c].pc = "apply" /\ answer[c] = "none" /\ ~More(c)
  /\ Finish(c, "committed")
  /\ UNCHANGED <<tcVars, recovery, answer, handlers, shardVars, history, budget>>

Execute(c) ==
  \/ CallBranch(c) \/ SkipBranch(c) \/ TakeAnswer(c)
  \/ Decide(c) \/ Persist(c) \/ PersistFails(c) \/ Committed(c)

-----------------------------------------------------------------------------
(* The coordinator: crash, open, recover_participant *)

\* The coordinator dies.  A decision being written is on disk, missing or torn;
\* the shards run the calls they have received.
Crash ==
  /\ tcUp /\ budget.crash > 0
  /\ tcUp' = FALSE
  /\ \/ /\ UNCHANGED tcLog
        /\ Spend("crash")
     \/ /\ \E c \in Client : /\ session[c].pc = "persist"
                             /\ tcLog' = Append(tcLog, DecisionOf(c))
        /\ Spend("crash")
     \/ /\ \E c \in Client : session[c].pc = "persist"
        /\ budget.torn > 0
        /\ tcLog' = Append(tcLog, Torn)
        /\ budget' = [budget EXCEPT !.crash = @ - 1, !.torn = @ - 1]
  /\ decisions' = {}
  /\ session' = [c \in Client |-> Idle]
  /\ recovery' = NoRecovery
  /\ answer' = [x \in Caller |-> "none"]
  /\ handlers' = {[h EXCEPT !.from = None] : h \in handlers}
  /\ UNCHANGED <<nextTxn, clock, unresolved, shardVars, history, outcome>>

\* What load reads: it stops at the first torn record.  If records follow one it
\* may also fail on a checksum that does not match, and Open is not taken.
Readable(l) == {l[i] : i \in {j \in DOMAIN l : \A m \in 1..j : l[m] # Torn}}

\* load and open: later records win, ids go on above the largest one read, the
\* clock starts again.  Appending goes on behind a torn tail.
Open ==
  LET read == Readable(tcLog)
      last(r) == CHOOSE j \in DOMAIN tcLog :
                   /\ tcLog[j] \in read /\ tcLog[j].id = r.id
                   /\ \A m \in DOMAIN tcLog :
                        tcLog[m] \in read /\ tcLog[m].id = r.id => m <= j
  IN  /\ ~tcUp
      /\ OrderlyReopen => handlers = {}
      /\ tcUp' = TRUE
      /\ decisions' = {[id |-> r.id, state |-> tcLog[last(r)].state,
                        ts |-> tcLog[last(r)].ts] : r \in read}
      /\ nextTxn' = 1 + Max({0} \cup {r.id : r \in read})
      /\ clock' = 1
      /\ unresolved' = Registered
      /\ UNCHANGED <<tcLog, session, recovery, answer, handlers, shardVars,
                     history, outcome, budget>>

Quiet(s) == ~down[s] /\ \A h \in handlers : h.shard # s

\* The execute of id is over, and a commit it decided is in the log.
Settled(id) ==
  /\ \A c \in Client : session[c].id # id
  /\ (\E d \in decisions : d.id = id /\ d.state = "committed") =>
       \E i \in DOMAIN tcLog : tcLog[i].id = id /\ tcLog[i].state = "committed"

\* recover_participant asks for the prepared ids; a failed call counts as none.
\* A call that has nothing to resolve changes nothing, but for the shards a
\* reopened coordinator still has to go through.
StartRecovery(s) ==
  LET orphans == {p.id : p \in prepared[s]} IN
  /\ tcUp /\ recovery = NoRecovery
  /\ orphans # {} \/ s \in unresolved
  /\ OrderlyReopen => /\ s \in unresolved => Quiet(s)
                      /\ \A id \in orphans : Settled(id)
  /\ \/ /\ recovery' = [shard |-> s, left |-> orphans, at |-> 0]
        /\ UNCHANGED budget
     \/ /\ ~OrderlyReopen /\ Spend("lost")
        /\ recovery' = [shard |-> s, left |-> {}, at |-> 0]
  /\ UNCHANGED <<tcVars, session, answer, handlers, shardVars, history, outcome>>

\* Mutant: recovery commits at the clock of the moment.
ResolveNow(id) ==
  /\ id \in recovery.left /\ answer[Recoverer] = "none"
  /\ recovery' = [recovery EXCEPT !.at = id]
  /\ \/ \E d \in decisions :
          /\ d.id = id /\ d.state = "committed"
          /\ Call(Recoverer, "commit", recovery.shard, id, clock, 0, 0, NoBranch)
     \/ /\ ~\E d \in decisions : d.id = id /\ d.state = "committed"
        /\ Call(Recoverer, "abort", recovery.shard, id, 0, 0, 0, NoBranch)
  /\ UNCHANGED <<tcVars, session, shardVars, history, outcome, budget>>

\* Mutant: every prepared transaction is presumed aborted.
ResolvePresumed(id) ==
  /\ id \in recovery.left /\ answer[Recoverer] = "none"
  /\ recovery' = [recovery EXCEPT !.at = id]
  /\ Call(Recoverer, "abort", recovery.shard, id, 0, 0, 0, NoBranch)
  /\ UNCHANGED <<tcVars, session, shardVars, history, outcome, budget>>

\* It commits what was decided so and aborts the rest.
Resolve(id) ==
  /\ id \in recovery.left /\ answer[Recoverer] = "none"
  /\ recovery' = [recovery EXCEPT !.at = id]
  /\ \/ \E d \in decisions :
          /\ d.id = id /\ d.state = "committed"
          /\ Call(Recoverer, "commit", recovery.shard, id, d.ts, 0, 0, NoBranch)
     \/ /\ ~\E d \in decisions : d.id = id /\ d.state = "committed"
        /\ Call(Recoverer, "abort", recovery.shard, id, 0, 0, 0, NoBranch)
  /\ UNCHANGED <<tcVars, session, shardVars, history, outcome, budget>>

\* Its loop goes on after an answer and gives up after an error.
Resolved ==
  /\ answer[Recoverer] \in {"ok", "err"}
  /\ answer' = [answer EXCEPT ![Recoverer] = "none"]
  /\ recovery' = IF answer[Recoverer] = "ok"
                 THEN [recovery EXCEPT !.left = @ \ {recovery.at}, !.at = 0]
                 ELSE NoRecovery
  /\ UNCHANGED <<tcVars, session, handlers, shardVars, history, outcome, budget>>

EndRecovery ==
  /\ recovery.shard # None /\ recovery.left = {}
  /\ OrderlyReopen /\ recovery.shard \in unresolved => Quiet(recovery.shard)
  /\ recovery' = NoRecovery
  /\ unresolved' = unresolved \ {recovery.shard}
  /\ UNCHANGED <<nextTxn, clock, decisions, tcLog, tcUp, session, answer,
                 handlers, shardVars, history, outcome, budget>>

Recover == (\E id \in recovery.left : Resolve(id)) \/ Resolved \/ EndRecovery

-----------------------------------------------------------------------------
Next ==
  \/ \E c \in Client : Begin(c) \/ Execute(c)
  \/ \E h \in handlers : Handle(h) \/ CallFails(h)
  \/ \E s \in Shard : Outage(s) \/ RestartShard(s)
  \/ Crash \/ Open
  \/ \E s \in Registered : StartRecovery(s)
  \/ Recover

\* Threads run: a call that has begun goes on, and so does its handler.
Fairness ==
  \A c \in Client : /\ WF_vars(Execute(c))
                    /\ WF_vars(\E h \in handlers : h.from = c /\ Handle(h))

Spec == Init /\ [][Next]_vars /\ Fairness

-----------------------------------------------------------------------------
(* Properties *)

Id == 0..MaxTxns
Ts == 0..(2 * MaxTxns + 1)
Tag == 0..MaxTxns
BranchSet == [shard : Shard, writes : SUBSET Key, reads : SUBSET Key]

\* Every variable keeps the shape of the field or file it stands for.
TypeOK ==
  /\ nextTxn \in 1..(MaxTxns + 1) /\ clock \in Ts
  /\ decisions \subseteq [id : Id, state : {"committed", "aborted"}, ts : Ts]
  /\ tcLog \in Seq([id : Id, state : {"committed", "aborted", "torn"},
                    ts : Ts, tag : Tag])
  /\ tcUp \in BOOLEAN /\ unresolved \subseteq Registered
  /\ session \in [Client ->
       [pc : {"idle", "prepare", "undo", "persist", "apply"}, id : Id, tag : Tag,
        read : Ts, ts : Ts, state : {"none", "committed", "aborted"}, i : Nat]]
  /\ recovery \in [shard : Registered \cup {None}, left : SUBSET Id, at : Id]
  /\ answer \in [Caller -> {"none", "wait", "ok", "err"}]
  /\ handlers \subseteq
       [kind : {"prepare", "commit", "abort"}, shard : Registered, id : Id,
        ts : Ts, tag : Tag, read : Ts, writes : SUBSET Key, reads : SUBSET Key,
        step : {"start", "lock", "log", "register", "unlock", "apply"},
        from : Caller \cup {None}]
  /\ prepared \in [Shard -> SUBSET [id : Id, tag : Tag, writes : SUBSET Key]]
  /\ locks \in [Shard -> [Key -> Id]]
  /\ log \in [Shard -> Seq([kind : {"prepare", "commit", "abort"}, id : Id,
                            tag : Tag, read : Ts, ts : Ts, writes : SUBSET Key])]
  /\ store \in [Shard -> [Key -> Seq([ts : Ts, tag : Tag])]]
  /\ lastCommit \in [Shard -> [Key -> Ts]]
  /\ down \in [Shard -> BOOLEAN]
  /\ history \in Seq(Seq(BranchSet)) /\ Len(outcome) = Len(history)
  /\ outcome \in Seq({"pending", "committed", "aborted", "error"})

LogHas(s, kind, t) == \E i \in DOMAIN log[s] : log[s][i].kind = kind /\ log[s][i].tag = t

\* The shard's log has an abort behind the prepare of t.
Discarded(s, t) ==
  \E i, j \in DOMAIN log[s] :
    /\ i < j /\ log[s][i].kind = "prepare" /\ log[s][i].tag = t
    /\ log[s][j].kind = "abort" /\ log[s][j].id = log[s][i].id

TakesPart(s, t) ==
  t \in DOMAIN history /\ \E i \in DOMAIN history[t] : history[t][i].shard = s

\* Where transaction t stands at shard s, as the durable logs tell it.
Standing(t, s) ==
  CASE ~TakesPart(s, t)       -> "out"
    [] LogHas(s, "commit", t) -> "committed"
    [] Discarded(s, t)        -> "aborted"
    [] LogHas(s, "prepare", t) -> "prepared"
    [] OTHER                  -> "working"

DecidedTags == {r.tag : r \in {tcLog[i] : i \in {j \in DOMAIN tcLog :
                                                   tcLog[j].state = "committed"}}}

AC == INSTANCE AtomicCommit
        WITH Transaction <- 1..MaxTxns,
             decided <- DecidedTags,
             standing <- [t \in 1..MaxTxns |-> [s \in Shard |-> Standing(t, s)]]

\* What the durable logs of coordinator and shards say is an atomic commit: no
\* shard commits a transaction before its decision is durable, the decision
\* needs the vote of every branch, and no shard discards what was decided,
\* through crashes of either side, lost calls and recover_participant.
Implements == AC!Spec

\* No transaction is committed at one shard and discarded at another.
Agreement == AC!Agreement

\* A transaction commits everywhere at the timestamp of its durable decision,
\* also where recover_participant finished it, and later than it read.
SameTimestamp ==
  \A s \in Shard : \A i \in DOMAIN log[s] : log[s][i].kind = "commit" =>
    /\ \E j \in DOMAIN tcLog : /\ tcLog[j].tag = log[s][i].tag
                               /\ tcLog[j].state = "committed"
                               /\ tcLog[j].ts = log[s][i].ts
    /\ \A j \in DOMAIN log[s] :
         log[s][j].kind = "prepare" /\ log[s][j].tag = log[s][i].tag =>
           log[s][j].read < log[s][i].ts

\* What execute returns is true for good: Committed means every write is in the
\* store of its shard, Aborted that no shard ever commits it, not even by a
\* handler that outlived its call.
OutcomeIsTrue ==
  \A t \in DOMAIN outcome :
    /\ outcome[t] = "committed" =>
         \A i \in DOMAIN history[t] : \A k \in history[t][i].writes :
           LET versions == store[history[t][i].shard][k]
           IN  \E v \in DOMAIN versions : versions[v].tag = t
    /\ outcome[t] = "aborted" => \A s \in Shard : ~LogHas(s, "commit", t)

\* A lock belongs to a prepared write-set, which orphaned_prepared lists and
\* recover_participant resolves, or to a handler that is about to register or to
\* release it.  A write-set may wait for recover_participant for good (a prepare
\* that runs after its abort leaves one), but no lock is left without one.
LocksTraceable ==
  \A s \in Shard : \A k \in Key : locks[s][k] # 0 =>
    \/ \E p \in prepared[s] : p.id = locks[s][k] /\ k \in p.writes
    \/ \E h \in handlers : /\ h.shard = s /\ h.id = locks[s][k] /\ k \in h.writes
                           /\ \/ h.kind = "prepare" /\ h.step \in {"log", "register"}
                              \/ h.step = "unlock"

\* Locks are refused, never waited for, so every call of execute returns, given
\* that each call of a shard is answered or fails (RemoteShard sets no deadline).
CallsReturn ==
  \A c \in Client : session[c].pc # "idle" ~> session[c].pc = "idle"
=============================================================================
