-------------------------------- MODULE Raft --------------------------------
(***************************************************************************)
(* The replicated log of a Takyonic cluster: RaftConsensus (consensus.rs)   *)
(* over RaftLog (raft_log.rs), ClusterMembership (membership.rs), the RPC   *)
(* fan-out of network.rs and the ticker of cluster.rs.                      *)
(*                                                                         *)
(* Handlers run under the soft-state mutex and are atomic here, except at   *)
(* the two places where the code drops the mutex before touching the log:   *)
(* flush_pending_proposes (BeginFlush .. EndFlush) and                      *)
(* handle_append_entries (HandleAppendEntries .. AppendToLog ..             *)
(* FinishAppend).  Overlap says whether other handlers may run inside those *)
(* windows.                                                                 *)
(***************************************************************************)
EXTENDS Integers, Sequences, FiniteSets, FiniteSetsExt

CONSTANTS
  Server,             \* node ids, joining nodes included
  Bootstrap,          \* voters the cluster is opened with (TakyonicNode::open)
  Value,              \* client commands; each is proposed at most once
  Changes,            \* membership commands; each is proposed at most once
  Noop,               \* RaftCommand::Noop
  None,               \* Option::None
  SnapshotThreshold,  \* Config::raft_snapshot_threshold, 0 disables compaction
  MaxBatch,           \* MAX_BATCH: entries in one AppendEntries request
  Overlap,            \* may handlers of a node run inside its lock-free windows
  MaxElections,       \* bound: elections started in a behaviour
  MaxBusy,            \* bound: nodes in the middle of a tick at the same time
  MaxRounds,          \* bound: replication rounds of all leaders together
  MaxRestarts,        \* bound: process restarts in a behaviour
  MaxFailures,        \* bound: RPCs that fail at their caller
  MaxVoteFailures,    \* bound: failures after which RequestVote RPCs do not fail
  MaxStale            \* bound: requests in flight whose caller has given up

\* RaftCommand::AddNode / RemoveNode (raft.rs), the address left out.
Add(n) == [op |-> "add", id |-> n]
Remove(n) == [op |-> "remove", id |-> n]
ConfigChange == {Add(n) : n \in Server} \cup {Remove(n) : n \in Server}

ASSUME ServerAssumption ==
  /\ IsFiniteSet(Server)
  /\ Bootstrap \subseteq Server
  /\ None \notin Server
ASSUME CommandAssumption ==
  /\ Changes \subseteq ConfigChange
  /\ Value \cap ConfigChange = {}
  /\ Noop \notin ConfigChange
  /\ Noop \notin Value
ASSUME BoundAssumption ==
  /\ {MaxElections, MaxRounds, MaxBusy, MaxRestarts, MaxFailures,
      MaxVoteFailures, MaxStale} \subseteq Nat
  /\ SnapshotThreshold \in Nat
  /\ MaxBatch \in Nat \ {0}
  /\ Overlap \in BOOLEAN

VARIABLES
  \* the part of the soft state of a node that elections rest on
  currentTerm, votedFor, role,
  \* the rest of a node: log, cursors, proposals, membership, state machine
  st,
  \* ticker of a node: what it is in the middle of, and the RPCs it awaits
  phase, batch, calls, votes,
  \* RPCs: requests in flight, open handle_append_entries calls, replies
  net, windows, replies,
  \* history: votes ever granted to another node, leaders ever elected,
  \* acknowledged proposals, proposals made, and how many elections,
  \* replication rounds, restarts and RPC failures there have been
  ballots, leaders, acked, proposed, elections, rounds, restarts, failures

voteVars == <<currentTerm, votedFor, role>>
tickVars == <<phase, batch, calls, votes>>
rpcVars  == <<net, windows, replies>>
counters == <<elections, rounds, restarts, failures>>
history  == <<ballots, leaders, acked, proposed, counters>>
vars == <<voteVars, st, tickVars, rpcVars, history>>

-----------------------------------------------------------------------------
(* Types *)

Command == Value \cup Changes \cup {Noop}
Entry   == [index : Nat, term : Nat, cmd : Command]
Waiter  == [index : Nat, cmd : Command]

\* SoftState (consensus.rs) without term, vote and role, together with the
\* RaftLog (in-memory log, durable frames wal, snapshot boundary), the saved
\* MEMBERSHIP.meta and the engine: the sequence of entries it has applied,
\* whose length is last_applied.
Node ==
  [log : Seq(Entry), wal : Seq(Entry), snap : [index : Nat, term : Nat],
   commit : Nat, next : [Server -> Nat], match : [Server -> Nat],
   pending : Seq(Command), waiters : SUBSET Waiter,
   members : SUBSET Server, base : SUBSET Server, saved : SUBSET Server,
   removed : BOOLEAN, applied : Seq(Entry)]

VoteRequest ==
  [type : {"RequestVote"}, from : Server, to : Server, live : BOOLEAN,
   term : Nat, lastIndex : Nat, lastTerm : Nat]
AppendRequest ==
  [type : {"AppendEntries"}, from : Server, to : Server, live : BOOLEAN,
   term : Nat, prevIndex : Nat, prevTerm : Nat, entries : Seq(Entry),
   commit : Nat]
SnapshotRequest ==
  [type : {"InstallSnapshot"}, from : Server, to : Server, live : BOOLEAN,
   term : Nat, index : Nat, lastTerm : Nat, members : SUBSET Server,
   data : Seq(Entry)]
Request == VoteRequest \cup AppendRequest \cup SnapshotRequest
Window  == [stage : {"append", "commit"}, req : AppendRequest]
Reply ==
  [type : {"RequestVote", "AppendEntries", "InstallSnapshot"},
   from : Server, to : Server, sent : Nat, term : Nat, ok : BOOLEAN,
   match : Nat]

-----------------------------------------------------------------------------
(* RaftLog *)

LastIndex(s) == IF s.log = <<>> THEN s.snap.index ELSE s.log[Len(s.log)].index
LastTerm(s)  == IF s.log = <<>> THEN s.snap.term ELSE s.log[Len(s.log)].term

\* Positions of the in-memory entries with an index: more than one when the
\* durable log resurrected an entry that had been truncated.
At(s, n) == {k \in DOMAIN s.log : s.log[k].index = n}

\* entry(n): the first one found.
EntryAt(s, n) == s.log[Min(At(s, n))]

TermAt(s, n) ==
  CASE n = 0                           -> 0
    [] n > 0 /\ n = s.snap.index       -> s.snap.term
    [] n > s.snap.index /\ At(s, n) # {} -> EntryAt(s, n).term
    [] OTHER                           -> None

\* Entries with an index below n; the log is sorted, so they are a prefix.
Below(s, n) == Cardinality({k \in DOMAIN s.log : s.log[k].index < n})

EntriesFrom(s, n) == SubSeq(s.log, Below(s, n) + 1, Len(s.log))

\* Mutant: a conflicting suffix stays in the log.
TruncateFromNothing(s, n) == s

\* truncate_after(n - 1): the in-memory log only.
TruncateFrom(s, n) == [s EXCEPT !.log = SubSeq(@, 1, Below(s, n))]

\* append_batch / append_commands: durable, then in memory.
AppendBatch(s, es) == [s EXCEPT !.log = @ \o es, !.wal = @ \o es]

\* compact_through(n): the durable log is rewritten with the suffix.
CompactThrough(s, n) ==
  LET rest == EntriesFrom(s, n + 1)
  IN  [s EXCEPT !.snap = [index |-> n, term |-> EntryAt(s, n).term],
                !.log = rest, !.wal = rest]

\* Mutant: the candidate's log is not compared.
UpToDateAlways(s, index, term) == TRUE

UpToDate(s, index, term) ==
  \/ term > LastTerm(s)
  \/ term = LastTerm(s) /\ index >= LastIndex(s)

-----------------------------------------------------------------------------
(* ClusterMembership *)

\* Mutant: half of the members are enough.
QuorumHalf(m) == Cardinality(m) \div 2

Quorum(m) == Cardinality(m) \div 2 + 1

IsConfig(c) == c \in Changes
HasConfig(es) == \E k \in DOMAIN es : IsConfig(es[k].cmd)

\* apply_config_to folded over es: the last change about a node decides.
MembersAfter(m, es) ==
  {n \in Server :
     LET about == {k \in DOMAIN es : /\ IsConfig(es[k].cmd)
                                     /\ es[k].cmd \in {Add(n), Remove(n)}}
     IN  IF about = {} THEN n \in m ELSE es[Max(about)].cmd = Add(n)}

\* apply_config_change_immediate for each configuration entry of es, which the
\* node has just appended.  A leader that adds a node before it has a snapshot
\* takes one first, and restarts the cursors of the nodes that changed.
AppendConfig(s, es, isLeader) ==
  LET voters(k) == MembersAfter(s.members, SubSeq(es, 1, k))
      changed == {k \in DOMAIN es : voters(k - 1) # voters(k)}
      members == MembersAfter(s.members, es)
      applied == Len(s.applied)
      seed == /\ isLeader /\ s.snap.index = 0 /\ applied > 0
              /\ At(s, applied) # {}
              /\ \E k \in DOMAIN es, n \in Server : es[k].cmd = Add(n)
      t == IF seed THEN CompactThrough(s, applied) ELSE s
      reset == {n \in Server : \E k \in changed :
                                 \/ es[k].cmd = Remove(n)
                                 \/ isLeader /\ es[k].cmd = Add(n)}
      first(n) == IF isLeader /\ n \in members THEN Max({t.snap.index, 1}) ELSE 1
  IN  IF ~HasConfig(es) THEN s
      ELSE [t EXCEPT
              !.members = members,
              !.saved = IF changed = {} THEN @ ELSE members,
              !.next = [n \in Server |-> IF n \in reset THEN first(n) ELSE s.next[n]],
              !.match = [n \in Server |-> IF n \in reset THEN 0 ELSE s.match[n]]]

\* rebuild_membership_from_log, after a conflicting suffix was truncated.
RebuildMembers(s) ==
  LET live == MembersAfter(s.base, EntriesFrom(s, s.snap.index + 1))
  IN  [s EXCEPT !.members = live,
                !.saved = IF live = s.members THEN @ ELSE live]

-----------------------------------------------------------------------------
(* Steps shared by the handlers; each maps a node to the node after it *)

\* become_follower / start_election fail the callers that are parked.
Drain(s) == [s EXCEPT !.pending = <<>>, !.waiters = {}]

\* Mutant: the whole log is compacted, applied or not.
MaybeCompactAll(s) ==
  IF SnapshotThreshold > 0 /\ Len(s.log) >= SnapshotThreshold
  THEN [CompactThrough(s, LastIndex(s)) EXCEPT !.saved = s.members]
  ELSE s

\* maybe_compact
MaybeCompact(s) ==
  IF /\ SnapshotThreshold > 0
     /\ Len(s.log) >= SnapshotThreshold
     /\ Len(s.applied) > s.snap.index
     /\ At(s, Len(s.applied)) # {}
  THEN [CompactThrough(s, Len(s.applied)) EXCEPT !.saved = s.members]
  ELSE s

\* apply_committed_to(commit) on node i: the contiguous entries the log holds.
ApplyCommitted(i, s) ==
  LET start == Max({Len(s.applied), s.snap.index}) + 1
      gaps  == {n \in start..s.commit : At(s, n) = {}}
      end   == IF gaps = {} THEN s.commit ELSE Min(gaps) - 1
      new   == [k \in 1..(end - start + 1) |-> EntryAt(s, start + k - 1)]
  IN  IF end < start THEN s
      ELSE MaybeCompact(
             [s EXCEPT !.applied = @ \o new,
                       !.base = MembersAfter(@, new),
                       !.saved = IF HasConfig(new) THEN s.members ELSE @,
                       !.removed = \/ @
                                   \/ \E k \in DOMAIN new :
                                        /\ IsConfig(new[k].cmd)
                                        /\ new[k].cmd = Remove(i)])

\* advance_commit_index on the leader i of this term.
AdvanceCommit(i, s, term) ==
  LET match == IF i \in s.members
               THEN [s.match EXCEPT ![i] = Max({@, LastIndex(s)})]
               ELSE s.match
      replicated(n) == {p \in s.members : match[p] >= n}
      good == {n \in s.commit + 1 .. LastIndex(s) :
                 /\ TermAt(s, n) = term
                 /\ Cardinality(replicated(n)) >= Quorum(s.members)}
  IN  [s EXCEPT !.match = match,
                !.commit = IF good = {} THEN @ ELSE Max(good)]

\* notify_waiters: the proposals it answers, and the node without them.
Ready(s)  == {w \in s.waiters : w.index <= s.commit}
Notify(s) == [s EXCEPT !.waiters = @ \ Ready(s)]
Acks(i, s) == {[index |-> w.index, cmd |-> w.cmd, term |-> currentTerm[i]] :
                 w \in {v \in Ready(s) : v.cmd # Noop}}

\* Mutant: a removed leader keeps leading.
RoleAfterUnchanged(r, s) == r

\* Role after apply_committed_to: a leader whose removal it applied steps down.
RoleAfter(r, s) == IF s.removed /\ r = "Leader" THEN "Follower" ELSE r

-----------------------------------------------------------------------------
(* RPCs *)

\* peer_needs_snapshot, the cooldown aside.
NeedsSnapshot(s, p) == s.snap.index > 0 /\ s.next[p] <= s.snap.index

\* The requests of replicate_to_all: InstallSnapshot when the peer's cursor is
\* inside the compacted prefix, else AppendEntries with the suffix from the
\* cursor (leader_peer_cursor), of which at most MaxBatch entries are sent.
\* The snapshot carries the live membership and the applied state.
PeerRequest(i, p, s) ==
  IF NeedsSnapshot(s, p)
  THEN [type |-> "InstallSnapshot", from |-> i, to |-> p, live |-> TRUE,
        term |-> currentTerm[i], index |-> s.snap.index,
        lastTerm |-> s.snap.term, members |-> s.members,
        data |-> SubSeq(s.applied, 1, s.snap.index)]
  ELSE LET prev == Max({s.next[p] - 1, 0})
           term == TermAt(s, prev)
           suffix == EntriesFrom(s, s.next[p])
       IN  [type |-> "AppendEntries", from |-> i, to |-> p, live |-> TRUE,
            term |-> currentTerm[i], prevIndex |-> prev,
            prevTerm |-> IF term = None THEN 0 ELSE term,
            entries |-> SubSeq(suffix, 1, Min({Len(suffix), MaxBatch})),
            commit |-> s.commit]

\* Node i, in state s and role r, sends a round of replication requests.  A
\* peer that is owed a snapshot is skipped while its cooldown lasts.
Broadcast(i, s, r) ==
  LET peers == IF r = "Leader" THEN s.members \ {i} ELSE {}
  IN  \E skipped \in SUBSET {p \in peers : NeedsSnapshot(s, p)} :
        /\ calls' = [calls EXCEPT ![i] = peers \ skipped]
        /\ net' = net \cup {PeerRequest(i, p, s) : p \in peers \ skipped}

\* Answer request m; the answer is lost if the caller has given up.
Answer(m, term, ok, match) ==
  replies' = IF m.live
             THEN replies \cup
                    {[type |-> m.type, from |-> m.to, to |-> m.from,
                      sent |-> m.term, term |-> term, ok |-> ok,
                      match |-> match]}
             ELSE replies

\* The caller of the RPC from i to j no longer waits for it.
Orphan(m, i, j) == IF m.from = i /\ m.to = j THEN [m EXCEPT !.live = FALSE] ELSE m
OrphanWindow(w, i, j) == [w EXCEPT !.req = Orphan(@, i, j)]

\* become_follower(term): forgets the vote, also when the term is not new.
BecomeFollower(i, term) ==
  /\ currentTerm' = [currentTerm EXCEPT ![i] = term]
  /\ votedFor' = [votedFor EXCEPT ![i] = None]
  /\ role' = [role EXCEPT ![i] = "Follower"]

-----------------------------------------------------------------------------
(* Scheduling *)

\* The ticker awaits every RPC of a round before it ticks again.
Free(i) ==
  /\ phase[i] = "idle" /\ calls[i] = {}
  /\ Cardinality({j \in Server : phase[j] # "idle" \/ calls[j] # {}}) < MaxBusy

\* Without Overlap nothing else runs while a window is open anywhere: windows
\* of different nodes touch disjoint state, so this loses no interleaving but
\* those inside one node's window.
Quiet == Overlap \/ (windows = {} /\ \A i \in Server : phase[i] # "append")

-----------------------------------------------------------------------------
(* Initial state: TakyonicNode::open for the bootstrap voters, open_joining   *)
(* (empty membership) for the others                                        *)

InitNode(i) ==
  LET voters == IF i \in Bootstrap THEN Bootstrap ELSE {}
  IN  [log |-> <<>>, wal |-> <<>>, snap |-> [index |-> 0, term |-> 0],
       commit |-> 0, next |-> [j \in Server |-> 1],
       match |-> [j \in Server |-> 0], pending |-> <<>>, waiters |-> {},
       members |-> voters, base |-> voters, saved |-> voters,
       removed |-> FALSE, applied |-> <<>>]

NoBatch == [term |-> 0, cmds |-> <<>>]

Init ==
  /\ currentTerm = [i \in Server |-> 0]
  /\ votedFor = [i \in Server |-> None]
  /\ role = [i \in Server |-> "Follower"]
  /\ st = [i \in Server |-> InitNode(i)]
  /\ phase = [i \in Server |-> "idle"]
  /\ batch = [i \in Server |-> NoBatch]
  /\ calls = [i \in Server |-> {}]
  /\ votes = [i \in Server |-> {}]
  /\ net = {} /\ windows = {} /\ replies = {}
  /\ ballots = {} /\ leaders = {} /\ acked = {} /\ proposed = {}
  /\ elections = 0 /\ rounds = 0 /\ restarts = 0 /\ failures = 0

-----------------------------------------------------------------------------
(* Elections *)

\* run_election up to the RequestVote fan-out.  Time is abstracted: the
\* election timeout of a node that is not leading may expire at any tick.
RunElection(i) ==
  LET peers == st[i].members \ {i}
  IN  /\ Quiet /\ Free(i)
      /\ role[i] # "Leader" /\ ~st[i].removed /\ i \in st[i].members
      /\ elections < MaxElections
      /\ elections' = elections + 1
      /\ currentTerm' = [currentTerm EXCEPT ![i] = @ + 1]
      /\ role' = [role EXCEPT ![i] = "Candidate"]
      /\ votedFor' = [votedFor EXCEPT ![i] = i]
      /\ st' = [st EXCEPT ![i] = Drain(@)]
      /\ phase' = [phase EXCEPT ![i] = "vote"]
      /\ calls' = [calls EXCEPT ![i] = peers]
      /\ votes' = [votes EXCEPT ![i] =
                     IF peers = {} THEN {[term |-> currentTerm[i] + 1, from |-> i]}
                     ELSE {}]
      /\ net' = net \cup
           {[type |-> "RequestVote", from |-> i, to |-> p, live |-> TRUE,
             term |-> currentTerm[i] + 1, lastIndex |-> LastIndex(st[i]),
             lastTerm |-> LastTerm(st[i])] : p \in peers}
      /\ UNCHANGED <<batch, windows, replies, ballots, leaders, acked, proposed,
                     rounds, restarts, failures>>

\* Mutant: the vote already given is not looked at.
CanVoteTwice(i, m) == TRUE

\* voted_for allows a vote for the sender of m, once its term is adopted.
CanVote(i, m) == m.term > currentTerm[i] \/ votedFor[i] \in {None, m.from}

\* handle_request_vote
HandleRequestVote(m) ==
  LET i == m.to
      deaf == \/ st[i].removed \/ i \notin st[i].members
              \/ m.term < currentTerm[i]
      newer == m.term > currentTerm[i]
      grant == ~deaf /\ CanVote(i, m) /\ UpToDate(st[i], m.lastIndex, m.lastTerm)
  IN  /\ Quiet /\ m.type = "RequestVote"
      /\ currentTerm' = [currentTerm EXCEPT
                           ![i] = IF ~deaf /\ newer THEN m.term ELSE @]
      /\ role' = [role EXCEPT ![i] = IF ~deaf /\ newer THEN "Follower" ELSE @]
      /\ votedFor' = [votedFor EXCEPT ![i] = CASE grant -> m.from
                                               [] ~grant /\ ~deaf /\ newer -> None
                                               [] OTHER -> @]
      /\ st' = [st EXCEPT ![i] = IF ~deaf /\ newer THEN Drain(@) ELSE @]
      /\ net' = net \ {m}
      /\ Answer(m, currentTerm'[i], grant, 0)
      /\ ballots' = IF grant
                    THEN ballots \cup
                           {[term |-> m.term, voter |-> i, candidate |-> m.from]}
                    ELSE ballots
      /\ UNCHANGED <<tickVars, windows, leaders, acked, proposed, counters>>

\* The end of run_election: every RPC has returned, count the votes of members
\* for the current term (record_vote_granted).
\* become_leader resets the cursors and parks the no-op of the new term.
FinishElection(i) ==
  LET s == st[i]
      granted == {p \in s.members \cup {i} :
                    [term |-> currentTerm[i], from |-> p] \in votes[i]}
      won == /\ role[i] = "Candidate" /\ granted # {}
             /\ Cardinality(granted \ {i}) + 1 >= Quorum(s.members)
      peers == s.members \ {i}
      last == LastIndex(s)
  IN  /\ Quiet /\ phase[i] = "vote" /\ calls[i] = {}
      /\ votes' = [votes EXCEPT ![i] = {}]
      /\ IF won
         THEN /\ role' = [role EXCEPT ![i] = "Leader"]
              /\ st' = [st EXCEPT ![i] =
                          [s EXCEPT
                             !.next = [p \in Server |->
                                         IF p \in peers THEN last + 1 ELSE s.next[p]],
                             !.match = [p \in Server |->
                                          IF p = i THEN last
                                          ELSE IF p \in peers THEN 0 ELSE s.match[p]],
                             !.pending = Append(@, Noop)]]
              /\ leaders' = leaders \cup {[term |-> currentTerm[i], id |-> i]}
              /\ phase' = [phase EXCEPT ![i] = "won"]
         ELSE /\ phase' = [phase EXCEPT ![i] = "idle"]
              /\ UNCHANGED <<role, st, leaders>>
      /\ UNCHANGED <<currentTerm, votedFor, batch, calls, rpcVars, ballots,
                     acked, proposed, counters>>

-----------------------------------------------------------------------------
(* Proposals and replication *)

HasUncommittedConfig(s) ==
  \E n \in s.commit + 1 .. LastIndex(s) :
    At(s, n) # {} /\ IsConfig(EntryAt(s, n).cmd)

\* propose: park a command at the leader.
Propose(i, c) ==
  /\ Quiet /\ role[i] = "Leader" /\ ~st[i].removed
  /\ c \notin proposed
  /\ IsConfig(c) => ~HasUncommittedConfig(st[i])
  /\ st' = [st EXCEPT ![i].pending = Append(@, c)]
  /\ proposed' = proposed \cup {c}
  /\ UNCHANGED <<voteVars, tickVars, rpcVars, ballots, leaders, acked, counters>>

NewRound ==
  /\ rounds < MaxRounds
  /\ rounds' = rounds + 1
  /\ UNCHANGED <<ballots, leaders, acked, proposed, elections, restarts, failures>>

\* replicate_to_all, when flush_pending_proposes has something to flush: take
\* the parked proposals and the term under the lock.
BeginFlush(i) ==
  /\ Quiet /\ ~st[i].removed /\ role[i] = "Leader"
  /\ Free(i) \/ phase[i] = "won"
  /\ st[i].pending # <<>>
  /\ batch' = [batch EXCEPT ![i] = [term |-> currentTerm[i],
                                    cmds |-> st[i].pending]]
  /\ st' = [st EXCEPT ![i].pending = <<>>]
  /\ phase' = [phase EXCEPT ![i] = "append"]
  /\ NewRound
  /\ UNCHANGED <<voteVars, calls, votes, rpcVars>>

\* replicate_to_all with nothing to flush: heartbeats and catch-up.  A node
\* that lost the lead right after winning it sends nothing.
Heartbeat(i) ==
  /\ Quiet
  /\ \/ Free(i) /\ role[i] = "Leader" /\ ~st[i].removed /\ st[i].pending = <<>>
     \/ /\ phase[i] = "won"
        /\ role[i] # "Leader" \/ st[i].removed \/ st[i].pending = <<>>
  /\ Broadcast(i, st[i], role[i])
  /\ phase' = [phase EXCEPT ![i] = "idle"]
  /\ NewRound
  /\ UNCHANGED <<voteVars, st, batch, votes, windows, replies>>

\* The rest of flush_pending_proposes, without the lock until the log is
\* written, and the replication round that follows it.
EndFlush(i) ==
  LET s == st[i]
      b == batch[i]
      last == LastIndex(s)
      new == [k \in DOMAIN b.cmds |->
                [index |-> last + k, term |-> b.term, cmd |-> b.cmds[k]]]
      t == AppendConfig(AppendBatch(s, new), new, role[i] = "Leader")
      leading == role[i] = "Leader" /\ currentTerm[i] = b.term
      parked == {[index |-> last + k, cmd |-> b.cmds[k]] : k \in DOMAIN b.cmds}
      u == AdvanceCommit(i, [t EXCEPT !.waiters = @ \cup parked,
                                      !.match[i] = LastIndex(t)], b.term)
      v == IF leading THEN ApplyCommitted(i, u) ELSE t
  IN  /\ phase[i] = "append"
      /\ st' = [st EXCEPT ![i] = IF leading THEN Notify(v) ELSE t]
      /\ acked' = IF leading THEN acked \cup Acks(i, v) ELSE acked
      /\ role' = [role EXCEPT ![i] = RoleAfter(@, v)]
      /\ Broadcast(i, v, role'[i])
      /\ phase' = [phase EXCEPT ![i] = "idle"]
      /\ batch' = [batch EXCEPT ![i] = NoBatch]
      /\ UNCHANGED <<currentTerm, votedFor, votes, windows, replies, ballots,
                     leaders, proposed, counters>>

-----------------------------------------------------------------------------
(* Inbound AppendEntries and InstallSnapshot *)

\* handle_append_entries up to the point where it drops the lock.
HandleAppendEntries(m) ==
  LET i == m.to
      stale == m.term < currentTerm[i]
      follow == ~stale /\ (m.term > currentTerm[i] \/ role[i] # "Follower")
      consistent == m.prevIndex = 0 \/ TermAt(st[i], m.prevIndex) = m.prevTerm
  IN  /\ Quiet /\ m.type = "AppendEntries"
      /\ IF follow
         THEN BecomeFollower(i, m.term) /\ st' = [st EXCEPT ![i] = Drain(@)]
         ELSE UNCHANGED <<voteVars, st>>
      /\ net' = net \ {m}
      /\ IF ~stale /\ consistent
         THEN /\ windows' = windows \cup {[stage |-> "append", req |-> m]}
              /\ UNCHANGED replies
         ELSE /\ Answer(m, currentTerm'[i], FALSE,
                        IF stale THEN 0 ELSE LastIndex(st[i]))
              /\ UNCHANGED windows
      /\ UNCHANGED <<tickVars, history>>

\* Its unlocked middle: truncate at the first conflict and append what is
\* missing.  Entries that do not continue the log are refused.
AppendToLog(w) ==
  LET m == w.req
      i == m.to
      s == st[i]
      es == m.entries
      conflicts == {k \in DOMAIN es :
                      /\ es[k].index > s.snap.index
                      /\ TermAt(s, es[k].index) \notin {None, es[k].term}}
      first == IF conflicts = {} THEN 1 ELSE Min(conflicts)
      kept == IF conflicts = {} THEN s ELSE TruncateFrom(s, es[first].index)
      last == LastIndex(kept)
      fresh == {k \in first..Len(es) : es[k].index > last}
      indexes == {es[k].index : k \in fresh}
      gap == indexes # last + 1 .. last + Cardinality(indexes)
      new == [n \in 1..Cardinality(indexes) |->
                es[Min({k \in fresh : es[k].index = last + n})]]
      base == IF conflicts = {} THEN kept ELSE RebuildMembers(kept)
  IN  /\ w.stage = "append"
      /\ IF gap
         THEN /\ st' = [st EXCEPT ![i] = kept]
              /\ windows' = windows \ {w}
              /\ Answer(m, m.term, FALSE, last)
         ELSE /\ st' = [st EXCEPT ![i] =
                          AppendConfig(AppendBatch(base, new), new,
                                       role[i] = "Leader")]
              /\ windows' = (windows \ {w}) \cup {[w EXCEPT !.stage = "commit"]}
              /\ UNCHANGED replies
      /\ UNCHANGED <<voteVars, tickVars, net, history>>

\* Mutant: the leader's commit index is taken even when it is behind.
FollowCommitAlways(s, commit) == Min({commit, LastIndex(s)})

\* The follower's commit index after a leader announced its own.
FollowCommit(s, commit) ==
  IF commit > s.commit THEN Min({commit, LastIndex(s)}) ELSE s.commit

\* Its end, under the lock again: follow the leader's commit index and apply.
FinishAppend(w) ==
  LET m == w.req
      i == m.to
      match == LastIndex(st[i])
      s == ApplyCommitted(i, [st[i] EXCEPT !.commit = FollowCommit(st[i], m.commit)])
  IN  /\ w.stage = "commit"
      /\ st' = [st EXCEPT ![i] = s]
      /\ role' = [role EXCEPT ![i] = RoleAfter(@, s)]
      /\ windows' = windows \ {w}
      /\ Answer(m, currentTerm[i], TRUE, match)
      /\ UNCHANGED <<currentTerm, votedFor, tickVars, net, history>>

\* Mutant: the commit index is not moved to the snapshot boundary.
InstalledNoCommit(s, m) ==
  [Drain(s) EXCEPT !.log = <<>>, !.wal = <<>>,
                   !.snap = [index |-> m.index, term |-> m.lastTerm],
                   !.applied = m.data,
                   !.members = m.members, !.base = m.members,
                   !.saved = m.members, !.removed = m.to \notin m.members]

\* install_sst_snapshot and RaftLog::install_snapshot: the snapshot replaces
\* the state machine and the whole log.
Installed(s, m) ==
  [Drain(s) EXCEPT !.log = <<>>, !.wal = <<>>,
                   !.snap = [index |-> m.index, term |-> m.lastTerm],
                   !.applied = m.data, !.commit = Max({@, m.index}),
                   !.members = m.members, !.base = m.members,
                   !.saved = m.members, !.removed = m.to \notin m.members]

\* handle_install_snapshot, its chunks as one blob.
HandleInstallSnapshot(m) ==
  LET i == m.to
      stale == m.term < currentTerm[i]
  IN  /\ Quiet /\ m.type = "InstallSnapshot"
      /\ IF stale
         THEN UNCHANGED <<voteVars, st>>
         ELSE /\ BecomeFollower(i, m.term)
              /\ st' = [st EXCEPT ![i] = Installed(@, m)]
      /\ net' = net \ {m}
      /\ Answer(m, currentTerm'[i], TRUE, m.index)
      /\ UNCHANGED <<tickVars, windows, history>>

-----------------------------------------------------------------------------
(* Replies, timeouts and restarts *)

\* The caller takes reply r.
Take(r) ==
  /\ Quiet
  /\ calls' = [calls EXCEPT ![r.to] = @ \ {r.from}]
  /\ replies' = replies \ {r}
  /\ UNCHANGED <<phase, batch, net, windows, proposed, counters, ballots, leaders>>

\* maybe_step_down: every caller checks the reply's term first.
StepDown(r) ==
  /\ r.term > currentTerm[r.to]
  /\ Take(r)
  /\ BecomeFollower(r.to, r.term)
  /\ st' = [st EXCEPT ![r.to] = Drain(@)]
  /\ UNCHANGED <<votes, acked>>

\* run_election keeps the votes granted in the term it asked for.
RecordVote(r) ==
  /\ r.type = "RequestVote" /\ r.term <= currentTerm[r.to]
  /\ Take(r)
  /\ votes' = [votes EXCEPT ![r.to] =
                 IF r.ok /\ r.term = r.sent
                 THEN @ \cup {[term |-> r.sent, from |-> r.from]} ELSE @]
  /\ UNCHANGED <<voteVars, st, acked>>

\* on_append_success
AppendSucceeded(r) ==
  LET i == r.to
      s == ApplyCommitted(i,
             AdvanceCommit(i, [st[i] EXCEPT !.match[r.from] = r.match,
                                            !.next[r.from] = r.match + 1],
                           currentTerm[i]))
  IN  /\ r.type = "AppendEntries" /\ r.ok
      /\ r.term <= currentTerm[i] /\ role[i] = "Leader"
      /\ Take(r)
      /\ st' = [st EXCEPT ![i] = Notify(s)]
      /\ acked' = acked \cup Acks(i, s)
      /\ role' = [role EXCEPT ![i] = RoleAfter(@, s)]
      /\ UNCHANGED <<currentTerm, votedFor, votes>>

\* on_append_failure: jump to the follower's tip, or back by one.
AppendFailed(r) ==
  LET i == r.to
  IN  /\ r.type = "AppendEntries" /\ ~r.ok
      /\ r.term <= currentTerm[i] /\ role[i] = "Leader"
      /\ Take(r)
      /\ st' = [st EXCEPT ![i].next[r.from] =
                  IF r.match > 0 THEN Min({r.match + 1, @}) ELSE Max({@ - 1, 1})]
      /\ UNCHANGED <<voteVars, votes, acked>>

\* on_snapshot_success: the commit index may advance, nothing is applied.
SnapshotSucceeded(r) ==
  LET i == r.to
  IN  /\ r.type = "InstallSnapshot" /\ r.term = r.sent
      /\ r.term <= currentTerm[i] /\ role[i] = "Leader"
      /\ Take(r)
      /\ st' = [st EXCEPT ![i] =
                  AdvanceCommit(i, [@ EXCEPT !.match[r.from] = r.match,
                                             !.next[r.from] = r.match + 1],
                                currentTerm[i])]
      /\ UNCHANGED <<voteVars, votes, acked>>

\* A replication reply that reaches a node that no longer leads.
IgnoreReply(r) ==
  /\ r.type # "RequestVote" /\ r.term <= currentTerm[r.to]
  /\ role[r.to] # "Leader"
  /\ Take(r)
  /\ UNCHANGED <<voteVars, st, votes, acked>>

\* Requests whose caller has given up, within the bound.
FewStale(ms, ws) ==
  Cardinality({m \in ms : ~m.live}) + Cardinality({w \in ws : ~w.req.live})
    <= MaxStale

\* Mutant: the cursor is decremented without saturating.
UnreachableBelowOne(s, p) == [s EXCEPT !.next[p] = @ - 1]

\* on_peer_unreachable: back off, toward the snapshot boundary if there is one.
Unreachable(s, p) ==
  LET next == s.next[p]
  IN  [s EXCEPT !.next[p] = IF s.snap.index > 0 /\ next > s.snap.index
                            THEN Max({(next + s.snap.index) \div 2, s.snap.index})
                            ELSE Max({next - 1, 1})]

\* The RPC from i to j fails at the caller.  The request may be lost, or still
\* be executed, or have been executed with its reply lost.
RpcFailed(i, j) ==
  LET mine(m) == m.live /\ m.from = i /\ m.to = j
  IN  /\ Quiet /\ j \in calls[i]
      /\ failures < IF phase[i] = "vote" THEN MaxVoteFailures ELSE MaxFailures
      /\ failures' = failures + 1
      /\ calls' = [calls EXCEPT ![i] = @ \ {j}]
      /\ replies' = {r \in replies : r.to # i \/ r.from # j}
      /\ \/ net' = {m \in net : ~mine(m)}
         \/ (\E m \in net : mine(m)) /\ net' = {Orphan(m, i, j) : m \in net}
      /\ windows' = {OrphanWindow(w, i, j) : w \in windows}
      /\ FewStale(net', windows')
      /\ st' = [st EXCEPT ![i] =
                  IF phase[i] # "vote" /\ role[i] = "Leader"
                  THEN Unreachable(@, j) ELSE @]
      /\ UNCHANGED <<voteVars, phase, batch, votes, ballots, leaders, acked,
                     proposed, elections, rounds, restarts>>

\* A crash of node i and its next open: the term, the vote and all soft state
\* are gone, the durable log is replayed in index order, and the state machine
\* resumes from the snapshot boundary.
Restart(i) ==
  LET s == st[i]
      fresh == InitNode(i)
      base == IF s.saved = {} THEN fresh.members ELSE s.saved
      frames == {k \in DOMAIN s.wal : s.wal[k].index > s.snap.index}
      before(a, b) == \/ s.wal[a].index < s.wal[b].index
                      \/ s.wal[a].index = s.wal[b].index /\ a < b
  IN  /\ Quiet /\ restarts < MaxRestarts
      /\ restarts' = restarts + 1
      /\ currentTerm' = [currentTerm EXCEPT ![i] = 0]
      /\ votedFor' = [votedFor EXCEPT ![i] = None]
      /\ role' = [role EXCEPT ![i] = "Follower"]
      /\ \E order \in [1..Cardinality(frames) -> frames] :
           LET log == [k \in DOMAIN order |-> s.wal[order[k]]]
               live == MembersAfter(base, log)
               last == LastIndex([s EXCEPT !.log = log])
           IN  /\ \A a, b \in DOMAIN order : a < b => before(order[a], order[b])
               /\ st' = [st EXCEPT ![i] =
                           [fresh EXCEPT
                              !.log = log, !.wal = s.wal, !.snap = s.snap,
                              !.commit = s.snap.index,
                              !.next = [p \in Server |->
                                          IF p \in live \ {i} THEN last + 1 ELSE 1],
                              !.members = live, !.base = base, !.saved = live,
                              !.removed = i \notin live /\ live # {},
                              !.applied = SubSeq(s.applied, 1, s.snap.index)]]
      /\ phase' = [phase EXCEPT ![i] = "idle"]
      /\ batch' = [batch EXCEPT ![i] = NoBatch]
      /\ calls' = [calls EXCEPT ![i] = {}]
      /\ votes' = [votes EXCEPT ![i] = {}]
      /\ \/ net' = {m \in net : m.from # i \/ ~m.live}
         \/ /\ \E m \in net : m.from = i /\ m.live
            /\ net' = {Orphan(m, i, m.to) : m \in net}
      /\ windows' = {OrphanWindow(w, i, w.req.to) : w \in {v \in windows : v.req.to # i}}
      /\ FewStale(net', windows')
      /\ replies' = {r \in replies : r.to # i}
      /\ UNCHANGED <<ballots, leaders, acked, proposed, elections, rounds, failures>>

-----------------------------------------------------------------------------

Next ==
  \/ \E i \in Server :
       \/ RunElection(i) \/ FinishElection(i)
       \/ BeginFlush(i) \/ EndFlush(i) \/ Heartbeat(i)
       \/ Restart(i)
  \/ \E i \in Server, c \in Value \cup Changes : Propose(i, c)
  \/ \E m \in net :
       HandleRequestVote(m) \/ HandleAppendEntries(m) \/ HandleInstallSnapshot(m)
  \/ \E w \in windows : AppendToLog(w) \/ FinishAppend(w)
  \/ \E r \in replies :
       \/ StepDown(r) \/ RecordVote(r) \/ AppendSucceeded(r)
       \/ AppendFailed(r) \/ SnapshotSucceeded(r) \/ IgnoreReply(r)
  \/ \E i, j \in Server : RpcFailed(i, j)

Spec == Init /\ [][Next]_vars

-----------------------------------------------------------------------------
(* Properties *)

\* Every variable has the type its Rust counterpart has.
TypeOK ==
  /\ currentTerm \in [Server -> Nat]
  /\ votedFor \in [Server -> Server \cup {None}]
  /\ role \in [Server -> {"Follower", "Candidate", "Leader"}]
  /\ st \in [Server -> Node]
  /\ phase \in [Server -> {"idle", "vote", "won", "append"}]
  /\ batch \in [Server -> [term : Nat, cmds : Seq(Command)]]
  /\ calls \in [Server -> SUBSET Server]
  /\ votes \in [Server -> SUBSET [term : Nat, from : Server]]
  /\ net \subseteq Request
  /\ windows \subseteq Window
  /\ replies \subseteq Reply
  /\ ballots \subseteq [term : Nat, voter : Server, candidate : Server]
  /\ leaders \subseteq [term : Nat, id : Server]
  /\ acked \subseteq [index : Nat, cmd : Command, term : Nat]
  /\ proposed \subseteq Value \cup Changes
  /\ {elections, rounds, restarts, failures} \subseteq Nat

\* At most one node is ever elected in a term (become_leader), whatever the
\* order of votes, timeouts and step-downs.
ElectionSafety ==
  \A a, b \in leaders : a.term = b.term => a.id = b.id

\* The state machines of any two nodes have applied the same commands as far
\* as both have got (apply_committed_to).
StateMachineSafety ==
  \A i, j \in Server :
    \A k \in DOMAIN st[i].applied \cap DOMAIN st[j].applied :
      st[i].applied[k] = st[j].applied[k]

\* Two logs that agree on the term of an index agree on everything up to it
\* (the consistency check and truncation of handle_append_entries).
LogMatching ==
  \A i, j \in Server :
    \A k \in DOMAIN st[i].log \cap DOMAIN st[j].log :
      st[i].log[k].term = st[j].log[k].term =>
        SubSeq(st[i].log, 1, k) = SubSeq(st[j].log, 1, k)

\* A proposal whose caller was told Ok (notify_waiters) is in the log of every
\* leader of that or a later term, at the index the caller was told.
AckedSurvives ==
  \A i \in Server, a \in acked :
    role[i] = "Leader" /\ currentTerm[i] >= a.term =>
      \/ a.index <= st[i].snap.index
      \/ At(st[i], a.index) # {} /\ EntryAt(st[i], a.index).cmd = a.cmd

\* Nothing is applied that is not committed (apply_committed_to,
\* handle_install_snapshot).
AppliedWithinCommit ==
  \A i \in Server : Len(st[i].applied) <= st[i].commit

\* Nothing is compacted away that the state machine has not applied
\* (maybe_compact, apply_config_change_immediate, handle_install_snapshot).
SnapshotWithinApplied ==
  \A i \in Server : st[i].snap.index <= Len(st[i].applied)

\* A node that knows it was removed neither leads nor campaigns
\* (apply_committed_to steps down, the ticker idles).
RemovedIsPassive ==
  \A i \in Server : st[i].removed => role[i] = "Follower"

\* Only a restart makes a node's commit index smaller.
CommitMonotonic ==
  [][\A i \in Server : st'[i].commit >= st[i].commit \/ restarts' # restarts]_vars

\* A rejected AppendEntries moves the leader's cursor for that peer down
\* (on_append_failure), so that the next round tries an earlier entry.
RejectionBacksOff ==
  [][\A r \in replies \ replies' :
       r.type = "AppendEntries" /\ ~r.ok /\ role[r.to] = "Leader"
         /\ role'[r.to] = "Leader" /\ failures' = failures
       => \/ st'[r.to].next[r.from] < st[r.to].next[r.from]
          \/ st[r.to].next[r.from] = 1]_vars

=============================================================================
