------------------------- MODULE RaftElectionLemmas -------------------------
(***************************************************************************)
(* The invariant behind one leader per term, for every cluster whose       *)
(* membership is fixed, that takes no snapshots and whose nodes do not     *)
(* restart, and the steps that move no vote: proposals, replication and its *)
(* replies, and failed calls.                                              *)
(*                                                                         *)
(* The argument does not rest on a vote being kept: become_follower forgets *)
(* the vote when a candidate hears from the leader of its own term.  It    *)
(* rests on the votes given to others being kept, and on that leader being *)
(* the only one of the term.                                               *)
(***************************************************************************)
EXTENDS RaftTypeProofs

StaticCluster ==
  Changes = {} /\ SnapshotThreshold = 0 /\ MaxRestarts = 0

Voters(i) == IF i \in Bootstrap THEN Bootstrap ELSE {}

Ballot(t, j, c) == [term |-> t, voter |-> j, candidate |-> c]

\* No node changes its membership, compacts its log or is removed.
Fixed(i, s) ==
  /\ s.snap.index = 0 /\ s.removed = FALSE
  /\ s.members = Voters(i) /\ s.base = Voters(i)

\* AppendEntries come from elected leaders; there are no snapshots.
NetInv ==
  \A m \in net :
    /\ m.type # "InstallSnapshot" /\ m.from # m.to
    /\ m.type = "AppendEntries" => [term |-> m.term, id |-> m.from] \in leaders

\* A vote that is under way or counted was cast.
CastInv ==
  /\ \A r \in replies : r.type = "RequestVote" /\ r.ok =>
       Ballot(r.sent, r.from, r.to) \in ballots
  /\ \A i \in Server : \A v \in votes[i] :
       v.from # i => Ballot(v.term, v.from, i) \in ballots

\* A candidate or leader has voted for itself; a leader was elected.
RoleInv ==
  \A i \in Server :
    /\ role[i] # "Follower" => votedFor[i] = i /\ i \in Bootstrap
    /\ role[i] = "Leader" => [term |-> currentTerm[i], id |-> i] \in leaders

\* Node j is past term t, or still stands by its vote for c in term t.
Bound(j, t, c) ==
  \/ currentTerm[j] > t
  \/ currentTerm[j] = t /\ votedFor[j] = c

\* A vote for another node binds the voter, so there is one per term.
BallotInv ==
  /\ \A b \in ballots : b.voter # b.candidate /\ Bound(b.voter, b.term, b.candidate)
  /\ \A a, b \in ballots :
       a.term = b.term /\ a.voter = b.voter => a.candidate = b.candidate

\* A leader stands by its own vote, gave no other in its term, and has the
\* votes of a majority.
LeaderInv ==
  /\ \A l \in leaders : Bound(l.id, l.term, l.id)
  /\ \A l \in leaders, b \in ballots : b.term = l.term => b.voter # l.id
  /\ \A l \in leaders : \E Q \in SUBSET Bootstrap :
       /\ 2 * Cardinality(Q) > Cardinality(Bootstrap)
       /\ \A j \in Q : j # l.id => Ballot(l.term, j, l.id) \in ballots

ElectionInv ==
  /\ RaftInv
  /\ \A i \in Server : Fixed(i, st[i])
  /\ NetInv /\ CastInv /\ RoleInv /\ BallotInv /\ LeaderInv /\ ElectionSafety

-----------------------------------------------------------------------------
(* Without configuration changes and compaction the shared steps leave the   *)
(* membership and the snapshot alone                                        *)

\* The fields the election argument depends on.
Same(s, t) ==
  /\ t.snap = s.snap /\ t.removed = s.removed
  /\ t.members = s.members /\ t.base = s.base

\* Fixed depends on the fields of Same only.
LEMMA SameFixed ==
  ASSUME NEW s, NEW t, NEW i, Same(s, t), Fixed(i, s)
  PROVE  Fixed(i, t)
BY DEF Same, Fixed

\* Without configuration changes no entry changes the membership.
LEMMA NoConfig ==
  ASSUME StaticCluster, NEW es, NEW m \in SUBSET Server
  PROVE  ~HasConfig(es) /\ MembersAfter(m, es) = m
<1>1. \A c : ~IsConfig(c)
  BY DEF StaticCluster, IsConfig
<1> QED
  BY <1>1 DEF HasConfig, MembersAfter

\* The operators on a node that leave membership and snapshot alone.
LEMMA SimpleSame ==
  ASSUME StaticCluster, NEW s \in Node
  PROVE  /\ Same(s, Drain(s)) /\ Same(s, Notify(s)) /\ MaybeCompact(s) = s
         /\ \A es, b : AppendConfig(s, es, b) = s
         /\ \A es : Same(s, AppendBatch(s, es))
         /\ \A n : Same(s, TruncateFrom(s, n))
         /\ \A i, t : Same(s, AdvanceCommit(i, s, t))
         /\ \A p : Same(s, Unreachable(s, p))
<1>1. Same(s, Drain(s)) /\ Same(s, Notify(s))
  BY DEF Same, Drain, Notify, Node
<1>2. MaybeCompact(s) = s
  BY DEF StaticCluster, MaybeCompact
<1>3. \A es, b : AppendConfig(s, es, b) = s
  BY NoConfig DEF AppendConfig
<1>4. \A es : Same(s, AppendBatch(s, es))
  BY DEF Same, AppendBatch, Node
<1>5. \A n : Same(s, TruncateFrom(s, n))
  BY DEF Same, TruncateFrom, Node
<1>6. \A i, t : Same(s, AdvanceCommit(i, s, t))
  BY DEF Same, AdvanceCommit, Node
<1>7. \A p : Same(s, Unreachable(s, p))
  BY DEF Same, Unreachable, Node
<1> QED
  BY <1>1, <1>2, <1>3, <1>4, <1>5, <1>6, <1>7

\* Rebuilding the membership from a log without changes gives the base.
LEMMA RebuildFixed ==
  ASSUME StaticCluster, NEW s \in Node, NEW i, Fixed(i, s)
  PROVE  Fixed(i, RebuildMembers(s))
<1>1. MembersAfter(s.base, EntriesFrom(s, s.snap.index + 1)) = s.base
  BY NoConfig DEF Node
<1> QED
  BY <1>1 DEF RebuildMembers, Fixed, Node

\* Applying entries that are no configuration changes keeps the membership.
LEMMA ApplyFixed ==
  ASSUME StaticCluster, NEW s \in Sound, NEW i \in Server, NEW j, Fixed(j, s)
  PROVE  Fixed(j, ApplyCommitted(i, s))
<1> DEFINE start == Max({Len(s.applied), s.snap.index}) + 1
           gaps  == {n \in start..s.commit : At(s, n) = {}}
           end   == IF gaps = {} THEN s.commit ELSE Min(gaps) - 1
           new   == [k \in 1..(end - start + 1) |-> EntryAt(s, start + k - 1)]
           gone  == \E k \in DOMAIN new : IsConfig(new[k].cmd) /\ new[k].cmd = Remove(i)
           saved == IF HasConfig(new) THEN s.members ELSE s.saved
           t == [s EXCEPT !.applied = @ \o new, !.base = MembersAfter(@, new),
                          !.saved = saved, !.removed = @ \/ gone]
<1>1. CASE end < start
  BY <1>1 DEF ApplyCommitted
<1>2. CASE ~(end < start)
  <2>1. ApplyCommitted(i, s) = MaybeCompact(t)
    BY <1>2 DEF ApplyCommitted
  <2>2. MaybeCompact(t) = t
    BY DEF MaybeCompact, StaticCluster
  <2>3. gone = FALSE
    BY DEF StaticCluster, IsConfig
  <2> HIDE DEF new, gone, saved
  <2>4. MembersAfter(s.base, new) = s.base
    BY NoConfig, SoundNode DEF Node
  <2>5. Fixed(j, t)
    BY <2>3, <2>4, SoundNode DEF Fixed, Node
  <2> QED
    BY <2>1, <2>2, <2>5
<1> QED
  BY <1>1, <1>2

-----------------------------------------------------------------------------
(* Every step keeps the membership fixed *)

\* Only node i changes, and it stays fixed.
LEMMA OneNodeFixed ==
  ASSUME RaftInv, \A j \in Server : Fixed(j, st[j]), NEW i \in Server, NEW t,
         st' = [st EXCEPT ![i] = t], Fixed(i, t)
  PROVE  \A j \in Server : Fixed(j, st'[j])
<1> TAKE j \in Server
<1>1. st'[j] = IF j = i THEN t ELSE st[j]
  BY DEF RaftInv, TypeOK
<1> QED
  BY <1>1

\* Moving the cursors of a peer does not touch the membership.
LEMMA CursorFixed ==
  ASSUME NEW s \in Sound, NEW i, Fixed(i, s), NEW p, NEW m, NEW n
  PROVE  Fixed(i, [s EXCEPT !.match[p] = m, !.next[p] = n])
BY DEF Fixed, Sound, Node

\* start_election and become_leader do not touch the membership.
LEMMA ElectionStepFixed ==
  ASSUME StaticCluster, ElectionInv, NEW i \in Server,
         RunElection(i) \/ FinishElection(i)
  PROVE  \A j \in Server : Fixed(j, st'[j])
<1> USE DEF ElectionInv
<1>1. st[i] \in Node /\ Fixed(i, st[i])
  BY DEF RaftInv, TypeOK
<1>2. CASE RunElection(i)
  BY <1>1, <1>2, SimpleSame, SameFixed, OneNodeFixed DEF RunElection
<1>3. CASE FinishElection(i)
  <2>1. \/ st' = st
        \/ \E next, match, pending :
             st' = [st EXCEPT ![i] = [st[i] EXCEPT !.next = next, !.match = match,
                                                   !.pending = pending]]
    <3> DEFINE s == st[i]
               peers == s.members \ {i}
               last == LastIndex(s)
               next == [p \in Server |-> IF p \in peers THEN last + 1 ELSE s.next[p]]
               match == [p \in Server |->
                           IF p = i THEN last
                           ELSE IF p \in peers THEN 0 ELSE s.match[p]]
               pending == Append(s.pending, Noop)
    <3>1. \/ st' = st
          \/ st' = [st EXCEPT ![i] = [st[i] EXCEPT !.next = next, !.match = match,
                                                   !.pending = pending]]
      BY <1>3 DEF FinishElection
    <3> HIDE DEF next, match, pending
    <3> QED
      BY <3>1
  <2>2. \A next, match, pending :
          Fixed(i, [st[i] EXCEPT !.next = next, !.match = match, !.pending = pending])
    BY <1>1 DEF Fixed, Node
  <2> QED
    BY <2>1, <2>2, OneNodeFixed
<1> QED
  BY <1>2, <1>3

\* propose and the start of a flush do not touch the membership.
LEMMA ProposalStepFixed ==
  ASSUME StaticCluster, ElectionInv, NEW i \in Server,
         BeginFlush(i) \/ \E c \in Value \cup Changes : Propose(i, c)
  PROVE  \A j \in Server : Fixed(j, st'[j])
<1> USE DEF ElectionInv
<1>1. st[i] \in Node /\ Fixed(i, st[i]) /\ st \in [Server -> Node]
  BY DEF RaftInv, TypeOK
<1>2. \E p : st' = [st EXCEPT ![i] = [st[i] EXCEPT !.pending = p]]
  BY <1>1 DEF BeginFlush, Propose
<1>3. \A p : Fixed(i, [st[i] EXCEPT !.pending = p])
  BY <1>1 DEF Fixed, Node
<1> QED
  BY <1>2, <1>3, OneNodeFixed

\* The end of a flush leaves the membership alone; what it broadcasts is taken
\* from a node that is still fixed.
LEMMA EndFlushFixed ==
  ASSUME StaticCluster, ElectionInv, NEW i \in Server, EndFlush(i)
  PROVE  /\ \A j \in Server : Fixed(j, st'[j])
         /\ \E v \in Sound : /\ Fixed(i, v) /\ Broadcast(i, v, role'[i])
                             /\ role' = [role EXCEPT ![i] = RoleAfter(@, v)]
<1> USE DEF ElectionInv
<1> DEFINE s == st[i]
           b == batch[i]
           last == LastIndex(s)
           new == [k \in DOMAIN b.cmds |->
                     [index |-> last + k, term |-> b.term, cmd |-> b.cmds[k]]]
           t == AppendConfig(AppendBatch(s, new), new, role[i] = "Leader")
           leading == role[i] = "Leader" /\ currentTerm[i] = b.term
           parked == {[index |-> last + k, cmd |-> b.cmds[k]] : k \in DOMAIN b.cmds}
           t2 == [t EXCEPT !.waiters = @ \cup parked, !.match[i] = LastIndex(t)]
           u == AdvanceCommit(i, t2, b.term)
           v == IF leading THEN ApplyCommitted(i, u) ELSE t
<1>1. /\ s \in Sound /\ last \in Nat /\ Fixed(i, s)
      /\ b.term \in Nat /\ b.cmds \in Seq(Command)
      /\ Len(b.cmds) \in Nat /\ DOMAIN b.cmds = 1..Len(b.cmds)
      /\ \A k \in DOMAIN b.cmds : b.cmds[k] \in Command
  BY SoundNode, LastIndexType, LenProperties DEF RaftInv, TypeOK
<1>2. new \in Seq(Entry)
  <2>1. \A k \in 1..Len(b.cmds) :
           [index |-> last + k, term |-> b.term, cmd |-> b.cmds[k]] \in Entry
    BY <1>1 DEF Entry
  <2> QED
    BY <1>1, <2>1
<1>3. parked \in SUBSET Waiter
  BY <1>1 DEF Waiter
<1> HIDE DEF new, parked
<1>4. t \in Sound /\ Fixed(i, t)
  <2>1. AppendBatch(s, new) \in Sound /\ Fixed(i, AppendBatch(s, new))
    BY <1>1, <1>2, AppendBatchSound, SimpleSame, SameFixed, SoundNode
  <2> QED
    BY <2>1, SimpleSame, SoundNode
<1>5. t2 \in Sound /\ Fixed(i, t2)
  <2> DEFINE match == [t.match EXCEPT ![i] = LastIndex(t)]
  <2> HIDE DEF t
  <2>1. LastIndex(t) \in Nat
    BY <1>4, SoundNode, LastIndexType
  <2>2. match \in [Server -> Nat] /\ t.waiters \cup parked \in SUBSET Waiter
    BY <1>3, <1>4, <2>1 DEF Sound, Node
  <2>3. t2 = [t EXCEPT !.waiters = @ \cup parked, !.match = match]
    BY <1>4 DEF Sound, Node
  <2> HIDE DEF match
  <2>4. t2 \in Sound
    BY <1>4, <2>2, <2>3 DEF Sound, Node
  <2>5. Fixed(i, t2)
    BY <1>4, <2>3 DEF Sound, Node, Fixed
  <2> QED
    BY <2>4, <2>5
<1> HIDE DEF t, t2
<1>6. u \in Sound /\ Fixed(i, u)
  BY <1>5, AdvanceCommitSound, SimpleSame, SameFixed, SoundNode
<1> HIDE DEF u
<1>7. v \in Sound /\ Fixed(i, v) /\ Notify(v) \in Sound
  BY <1>4, <1>6, ApplyCommittedSound, ApplyFixed, NotifySound
<1>8. /\ st' = [st EXCEPT ![i] = IF leading THEN Notify(v) ELSE t]
      /\ role' = [role EXCEPT ![i] = RoleAfter(@, v)]
      /\ Broadcast(i, v, role'[i])
  BY DEF EndFlush, u, t, t2, parked, new
<1> HIDE DEF v, leading
<1>9. Fixed(i, IF leading THEN Notify(v) ELSE t)
  BY <1>4, <1>7, SimpleSame, SameFixed, SoundNode
<1>10. \A j \in Server : Fixed(j, st'[j])
  BY <1>8, <1>9, OneNodeFixed
<1> QED
  BY <1>7, <1>8, <1>10

\* Handling a vote or append request does not touch the membership.
LEMMA RequestStepFixed ==
  ASSUME StaticCluster, ElectionInv, NEW m \in net,
         HandleRequestVote(m) \/ HandleAppendEntries(m)
  PROVE  \A j \in Server : Fixed(j, st'[j])
<1> USE DEF ElectionInv
<1> DEFINE i == m.to
<1>1. i \in Server
  BY RequestFields, SoundNode DEF RaftInv
<1>2. st[i] \in Node /\ Fixed(i, st[i])
  BY <1>1 DEF RaftInv, TypeOK
<1>3. st' = st \/ st' = [st EXCEPT ![i] = Drain(st[i])]
               \/ st' = [st EXCEPT ![i] = st[i]]
  BY DEF HandleRequestVote, HandleAppendEntries
<1>4. Fixed(i, Drain(st[i]))
  BY <1>2, SimpleSame, SameFixed
<1> HIDE DEF i
<1> QED
  BY <1>1, <1>2, <1>3, <1>4, OneNodeFixed

\* The log work of an append leaves the membership alone, and no follower
\* becomes anything else there.
LEMMA WindowStepFixed ==
  ASSUME StaticCluster, ElectionInv, NEW w \in windows,
         AppendToLog(w) \/ FinishAppend(w)
  PROVE  /\ \A j \in Server : Fixed(j, st'[j])
         /\ \A j \in Server : role'[j] \in {role[j], "Follower"}
<1> USE DEF ElectionInv
<1> DEFINE m == w.req
           i == m.to
           s == st[i]
<1>1. m \in AppendRequest /\ i \in Server /\ m.commit \in Nat
  BY DEF RaftInv, TypeOK, Window, AppendRequest
<1>2. s \in Sound /\ s \in Node /\ Fixed(i, s) /\ role \in [Server -> {"Follower", "Candidate", "Leader"}]
  BY <1>1, SoundNode DEF RaftInv, TypeOK
<1>3. CASE AppendToLog(w)
  <2>1. \E n : \E kept \in {s, TruncateFrom(s, n)} :
          \E base \in {kept, RebuildMembers(kept)} :
            \E new, b :
              st' \in {[st EXCEPT ![i] = kept],
                       [st EXCEPT ![i] = AppendConfig(AppendBatch(base, new), new, b)]}
    <3> DEFINE es == m.entries
               conflicts == {k \in DOMAIN es :
                               /\ es[k].index > s.snap.index
                               /\ TermAt(s, es[k].index) \notin {None, es[k].term}}
               first == IF conflicts = {} THEN 1 ELSE Min(conflicts)
               kept == IF conflicts = {} THEN s ELSE TruncateFrom(s, es[first].index)
               last == LastIndex(kept)
               fresh == {k \in first..Len(es) : es[k].index > last}
               indexes == {es[k].index : k \in fresh}
               new == [n \in 1..Cardinality(indexes) |->
                         es[Min({k \in fresh : es[k].index = last + n})]]
               base == IF conflicts = {} THEN kept ELSE RebuildMembers(kept)
    <3>1. \/ st' = [st EXCEPT ![i] = kept]
          \/ st' = [st EXCEPT ![i] =
                      AppendConfig(AppendBatch(base, new), new, role[i] = "Leader")]
      BY <1>3 DEF AppendToLog
    <3>2. kept \in {s, TruncateFrom(s, es[first].index)}
      OBVIOUS
    <3>3. base \in {kept, RebuildMembers(kept)}
      OBVIOUS
    <3> HIDE DEF new, base, kept, first, es
    <3> QED
      BY <3>1, <3>2, <3>3
  <2>2. \A n : TruncateFrom(s, n) \in Sound /\ Fixed(i, TruncateFrom(s, n))
    BY <1>2, TruncateFromSound, SimpleSame, SameFixed
  <2>3. \A n : \A kept \in {s, TruncateFrom(s, n)} :
          \A base \in {kept, RebuildMembers(kept)} :
            /\ base \in Sound /\ Fixed(i, base) /\ Fixed(i, kept)
    BY <1>2, <2>2, RebuildMembersSound, RebuildFixed, SoundNode
  <2>4. \A base \in Sound : Fixed(i, base) =>
          \A new, b : Fixed(i, AppendConfig(AppendBatch(base, new), new, b))
    <3> SUFFICES ASSUME NEW base \in Sound, Fixed(i, base), NEW new, NEW b
                 PROVE  Fixed(i, AppendConfig(AppendBatch(base, new), new, b))
      OBVIOUS
    <3>1. Fixed(i, AppendBatch(base, new))
      BY SimpleSame, SameFixed, SoundNode
    <3>2. AppendConfig(AppendBatch(base, new), new, b) = AppendBatch(base, new)
      BY NoConfig DEF AppendConfig
    <3> QED
      BY <3>1, <3>2
  <2>5. \E t : st' = [st EXCEPT ![i] = t] /\ Fixed(i, t)
    <3> HIDE DEF s, i
    <3> QED
      BY <2>1, <2>3, <2>4
  <2>6. role' = role
    BY <1>3 DEF AppendToLog, voteVars
  <2> QED
    BY <1>1, <2>5, <2>6, OneNodeFixed
<1>4. CASE FinishAppend(w)
  <2> DEFINE c == FollowCommit(s, m.commit)
             t == ApplyCommitted(i, [s EXCEPT !.commit = c])
  <2>1. c \in Nat
    BY <1>1, <1>2, FollowCommitType
  <2>2. st' = [st EXCEPT ![i] = t] /\ role' = [role EXCEPT ![i] = RoleAfter(@, t)]
    BY <1>4 DEF FinishAppend
  <2> HIDE DEF c
  <2>3. [s EXCEPT !.commit = c] \in Sound /\ Fixed(i, [s EXCEPT !.commit = c])
    BY <1>2, <2>1 DEF Sound, Node, Fixed
  <2>4. Fixed(i, t)
    BY <1>1, <2>3, ApplyFixed
  <2> HIDE DEF t, s, i
  <2> QED
    BY <1>1, <1>2, <2>2, <2>4, OneNodeFixed DEF RoleAfter
<1> QED
  BY <1>3, <1>4

\* Handling a reply does not touch the membership.
LEMMA ReplyStepFixed ==
  ASSUME StaticCluster, ElectionInv, NEW r \in replies,
         \/ StepDown(r) \/ RecordVote(r) \/ AppendSucceeded(r)
         \/ AppendFailed(r) \/ SnapshotSucceeded(r) \/ IgnoreReply(r)
  PROVE  \A j \in Server : Fixed(j, st'[j])
<1> USE DEF ElectionInv
<1> DEFINE i == r.to
           p == r.from
           s == st[i]
           moved == [s EXCEPT !.match[p] = r.match, !.next[p] = r.match + 1]
<1>1. i \in Server /\ p \in Server /\ r.match \in Nat
  BY DEF RaftInv, TypeOK, Reply
<1>2. s \in Sound /\ s \in Node /\ Fixed(i, s) /\ st \in [Server -> Sound]
  BY <1>1, SoundNode DEF RaftInv
<1>3. moved \in Sound /\ Fixed(i, moved)
  BY <1>1, <1>2, CursorSound, CursorFixed
<1>4. CASE StepDown(r)
  <2>1. st' = [st EXCEPT ![i] = Drain(s)]
    BY <1>4 DEF StepDown
  <2> QED
    BY <1>1, <1>2, <2>1, SimpleSame, SameFixed, OneNodeFixed
<1>5. CASE RecordVote(r) \/ IgnoreReply(r)
  BY <1>5 DEF RecordVote, IgnoreReply
<1>6. CASE AppendSucceeded(r)
  <2> DEFINE u == AdvanceCommit(i, moved, currentTerm[i])
             t == ApplyCommitted(i, u)
  <2>1. st' = [st EXCEPT ![i] = Notify(t)]
    BY <1>6 DEF AppendSucceeded
  <2> HIDE DEF moved, i
  <2>2. u \in Sound /\ Fixed(i, u)
    BY <1>1, <1>3, AdvanceCommitSound, SimpleSame, SameFixed, SoundNode
  <2> HIDE DEF u
  <2>3. t \in Sound /\ Fixed(i, t)
    BY <1>1, <2>2, ApplyCommittedSound, ApplyFixed
  <2> HIDE DEF t
  <2>4. Fixed(i, Notify(t))
    BY <2>3, SimpleSame, SameFixed, SoundNode
  <2> QED
    BY <1>1, <2>1, <2>4, OneNodeFixed
<1>7. CASE AppendFailed(r)
  <2>1. \E n : st' = [st EXCEPT ![i] = [s EXCEPT !.next[p] = n]]
    BY <1>1, <1>2, <1>7 DEF AppendFailed
  <2>2. \A n : Fixed(i, [s EXCEPT !.next[p] = n])
    BY <1>2 DEF Fixed, Node
  <2> QED
    BY <1>1, <2>1, <2>2, OneNodeFixed
<1>8. CASE SnapshotSucceeded(r)
  <2>1. st' = [st EXCEPT ![i] = AdvanceCommit(i, moved, currentTerm[i])]
    BY <1>8 DEF SnapshotSucceeded
  <2> HIDE DEF moved, i
  <2>2. Fixed(i, AdvanceCommit(i, moved, currentTerm[i]))
    BY <1>3, SimpleSame, SameFixed, SoundNode
  <2> QED
    BY <1>1, <2>1, <2>2, OneNodeFixed
<1> QED
  BY <1>4, <1>5, <1>6, <1>7, <1>8

\* A failed call does not touch the membership.
LEMMA FailureStepFixed ==
  ASSUME StaticCluster, ElectionInv, NEW i \in Server, NEW j \in Server,
         RpcFailed(i, j)
  PROVE  \A k \in Server : Fixed(k, st'[k])
<1> USE DEF ElectionInv
<1>1. st[i] \in Node /\ Fixed(i, st[i])
  BY SoundNode DEF RaftInv
<1>2. \E t \in {st[i], Unreachable(st[i], j)} : st' = [st EXCEPT ![i] = t]
  BY DEF RpcFailed
<1>3. Fixed(i, Unreachable(st[i], j))
  BY <1>1, SimpleSame, SameFixed
<1> QED
  BY <1>1, <1>2, <1>3, OneNodeFixed

-----------------------------------------------------------------------------
(* Steps that give no vote and elect nobody *)

\* A step that leaves terms, votes and leaders alone and at most steps a node
\* down preserves the invariant if it sends nothing wrong.
LEMMA QuietStep ==
  ASSUME ElectionInv, RaftInv', \A j \in Server : Fixed(j, st'[j]),
         UNCHANGED <<currentTerm, votedFor, votes, ballots, leaders>>,
         \A j \in Server : role'[j] \in {role[j], "Follower"},
         NetInv',
         \A r \in replies' : r.type = "RequestVote" => r \in replies
  PROVE  ElectionInv'
<1>1. CastInv'
  BY DEF ElectionInv, CastInv
<1>2. RoleInv'
  BY DEF ElectionInv, RoleInv
<1>3. BallotInv'
  BY DEF ElectionInv, BallotInv, Bound
<1>4. LeaderInv'
  BY DEF ElectionInv, LeaderInv, Bound
<1>5. ElectionSafety'
  BY DEF ElectionInv, ElectionSafety
<1> QED
  BY <1>1, <1>2, <1>3, <1>4, <1>5 DEF ElectionInv

\* What a leader of a fixed cluster sends is no snapshot, goes to another
\* node and names an elected leader.
LEMMA BroadcastNet ==
  ASSUME ElectionInv, NEW i \in Server, NEW s \in Sound, Fixed(i, s), NEW r,
         r = "Leader" => [term |-> currentTerm[i], id |-> i] \in leaders,
         Broadcast(i, s, r), leaders' = leaders
  PROVE  NetInv'
<1> DEFINE peers == IF r = "Leader" THEN s.members \ {i} ELSE {}
<1>1. PICK skipped : net' = net \cup {PeerRequest(i, p, s) : p \in peers \ skipped}
  BY DEF Broadcast
<1>2. ASSUME NEW p \in peers
      PROVE  /\ PeerRequest(i, p, s).type = "AppendEntries"
             /\ PeerRequest(i, p, s).from = i /\ PeerRequest(i, p, s).to = p
             /\ PeerRequest(i, p, s).term = currentTerm[i]
             /\ r = "Leader" /\ p # i
  <2>1. r = "Leader" /\ p # i
    OBVIOUS
  <2>2. ~NeedsSnapshot(s, p)
    BY DEF NeedsSnapshot, Fixed
  <2> HIDE DEF peers
  <2>3. \E prev, t, es :
          PeerRequest(i, p, s) =
            [type |-> "AppendEntries", from |-> i, to |-> p, live |-> TRUE,
             term |-> currentTerm[i], prevIndex |-> prev, prevTerm |-> t,
             entries |-> es, commit |-> s.commit]
    BY <2>2, Zenon DEF PeerRequest
  <2>4. \A prev, t, es, q :
          q = [type |-> "AppendEntries", from |-> i, to |-> p, live |-> TRUE,
               term |-> currentTerm[i], prevIndex |-> prev, prevTerm |-> t,
               entries |-> es, commit |-> s.commit]
          => q.type = "AppendEntries" /\ q.from = i /\ q.to = p /\ q.term = currentTerm[i]
    OBVIOUS
  <2> QED
    BY <2>1, <2>3, <2>4, Zenon
<1> HIDE DEF peers
<1>3. ASSUME NEW m \in net'
      PROVE  /\ m.type # "InstallSnapshot" /\ m.from # m.to
             /\ m.type = "AppendEntries" =>
                  [term |-> m.term, id |-> m.from] \in leaders
  <2>1. CASE m \in net
    BY <2>1 DEF ElectionInv, NetInv
  <2>2. CASE m \notin net
    <3>1. PICK p \in peers : m = PeerRequest(i, p, s)
      BY <1>1, <2>2
    <3> QED
      BY <1>2, <3>1
  <2> QED
    BY <2>1, <2>2
<1> QED
  BY <1>3 DEF NetInv

\* Proposals, flushes and heartbeats change no vote.
LEMMA ProposalStepElection ==
  ASSUME StaticCluster, ElectionInv, RaftInv', NEW i \in Server,
         \/ BeginFlush(i) \/ EndFlush(i) \/ Heartbeat(i)
         \/ \E c \in Value \cup Changes : Propose(i, c)
  PROVE  ElectionInv'
<1>0. role \in [Server -> {"Follower", "Candidate", "Leader"}] /\ st[i] \in Sound
  BY DEF ElectionInv, RaftInv, TypeOK
<1>1. CASE BeginFlush(i) \/ \E c \in Value \cup Changes : Propose(i, c)
  <2>1. UNCHANGED <<currentTerm, votedFor, votes, ballots, leaders, role, net,
                    replies>>
    BY <1>1 DEF BeginFlush, Propose, NewRound, voteVars, tickVars, rpcVars
  <2>2. NetInv'
    BY <2>1 DEF ElectionInv, NetInv
  <2> QED
    BY <1>1, <2>1, <2>2, ProposalStepFixed, QuietStep
<1>2. CASE Heartbeat(i)
  <2>1. /\ UNCHANGED <<currentTerm, votedFor, votes, ballots, leaders, role, st,
                       replies>>
        /\ Broadcast(i, st[i], role[i])
    BY <1>2 DEF Heartbeat, NewRound, voteVars
  <2>2. NetInv'
    BY <1>0, <2>1, BroadcastNet DEF ElectionInv, RoleInv
  <2> QED
    BY <2>1, <2>2, QuietStep DEF ElectionInv
<1>3. CASE EndFlush(i)
  <2>1. UNCHANGED <<currentTerm, votedFor, votes, ballots, leaders, replies>>
    BY <1>3 DEF EndFlush
  <2>2. PICK v \in Sound : /\ Fixed(i, v) /\ Broadcast(i, v, role'[i])
                           /\ role' = [role EXCEPT ![i] = RoleAfter(@, v)]
    BY <1>3, EndFlushFixed
  <2>3. \A j \in Server : role'[j] \in {role[j], "Follower"}
    BY <1>0, <2>2 DEF RoleAfter
  <2>4. role'[i] = "Leader" => [term |-> currentTerm[i], id |-> i] \in leaders
    BY <2>3 DEF ElectionInv, RoleInv
  <2>5. NetInv'
    BY <2>1, <2>2, <2>4, BroadcastNet
  <2>6. \A j \in Server : Fixed(j, st'[j])
    BY <1>3, EndFlushFixed
  <2> QED
    BY <2>1, <2>3, <2>5, <2>6, QuietStep
<1> QED
  BY <1>1, <1>2, <1>3

\* An answer to a request that is not a RequestVote is not a vote.
LEMMA AnswerNoVote ==
  ASSUME NEW m, m.type # "RequestVote", NEW term, NEW ok, NEW match,
         Answer(m, term, ok, match)
  PROVE  \A r \in replies' : r.type = "RequestVote" => r \in replies
BY DEF Answer

\* The log work of an append changes no vote.
LEMMA WindowStepElection ==
  ASSUME StaticCluster, ElectionInv, RaftInv', NEW w \in windows,
         AppendToLog(w) \/ FinishAppend(w)
  PROVE  ElectionInv'
<1>1. UNCHANGED <<currentTerm, votedFor, votes, ballots, leaders, net>>
  BY DEF AppendToLog, FinishAppend, voteVars, tickVars, history
<1>2. \A r \in replies' : r.type = "RequestVote" => r \in replies
  <2>1. w.req.type # "RequestVote"
    BY DEF ElectionInv, RaftInv, TypeOK, Window, AppendRequest
  <2>2. \/ replies' = replies
        \/ \E term, ok, match : Answer(w.req, term, ok, match)
    BY DEF AppendToLog, FinishAppend
  <2> QED
    BY <2>1, <2>2, AnswerNoVote
<1>3. NetInv'
  BY <1>1 DEF ElectionInv, NetInv
<1>4. /\ \A j \in Server : Fixed(j, st'[j])
      /\ \A j \in Server : role'[j] \in {role[j], "Follower"}
  BY WindowStepFixed
<1> QED
  BY <1>1, <1>2, <1>3, <1>4, QuietStep

\* Replies to AppendEntries change no vote unless they carry a newer term.
LEMMA ReplicationReplyElection ==
  ASSUME StaticCluster, ElectionInv, RaftInv', NEW r \in replies,
         \/ AppendSucceeded(r) \/ AppendFailed(r)
         \/ SnapshotSucceeded(r) \/ IgnoreReply(r)
  PROVE  ElectionInv'
<1>1. UNCHANGED <<currentTerm, votedFor, votes, ballots, leaders, net>>
  BY DEF AppendSucceeded, AppendFailed, SnapshotSucceeded, IgnoreReply, Take,
         voteVars
<1>2. replies' \subseteq replies
  BY DEF AppendSucceeded, AppendFailed, SnapshotSucceeded, IgnoreReply, Take
<1>3. \A j \in Server : role'[j] \in {role[j], "Follower"}
  <2>1. role \in [Server -> {"Follower", "Candidate", "Leader"}]
    BY DEF ElectionInv, RaftInv, TypeOK
  <2>2. role' = role \/ \E s : role' = [role EXCEPT ![r.to] = RoleAfter(@, s)]
    BY DEF AppendSucceeded, AppendFailed, SnapshotSucceeded, IgnoreReply, voteVars
  <2> QED
    BY <2>1, <2>2 DEF RoleAfter
<1>4. NetInv'
  BY <1>1 DEF ElectionInv, NetInv
<1>5. \A j \in Server : Fixed(j, st'[j])
  BY ReplyStepFixed
<1> QED
  BY <1>1, <1>2, <1>3, <1>4, <1>5, QuietStep

\* A failed call changes no vote.
LEMMA FailureStepElection ==
  ASSUME StaticCluster, ElectionInv, RaftInv', NEW i \in Server, NEW j \in Server,
         RpcFailed(i, j)
  PROVE  ElectionInv'
<1>1. UNCHANGED <<currentTerm, votedFor, votes, ballots, leaders, role>>
  BY DEF RpcFailed, voteVars
<1>2. replies' \subseteq replies
  BY DEF RpcFailed
<1>3. NetInv'
  <2>1. net' \subseteq net \/ net' = {Orphan(m, i, j) : m \in net}
    BY DEF RpcFailed
  <2>2. ASSUME NEW m \in net
        PROVE  /\ Orphan(m, i, j).type = m.type /\ Orphan(m, i, j).from = m.from
               /\ Orphan(m, i, j).to = m.to /\ Orphan(m, i, j).term = m.term
    <3>1. m \in Request
      BY SoundNode DEF ElectionInv, RaftInv
    <3> QED
      BY <3>1 DEF Orphan, Request, VoteRequest, AppendRequest, SnapshotRequest
  <2>3. \A n \in net' : \E m \in net :
          n.type = m.type /\ n.from = m.from /\ n.to = m.to /\ n.term = m.term
    BY <2>1, <2>2
  <2> QED
    BY <1>1, <2>3 DEF ElectionInv, NetInv
<1>4. \A k \in Server : Fixed(k, st'[k])
  BY FailureStepFixed
<1> QED
  BY <1>1, <1>2, <1>3, <1>4, QuietStep

=============================================================================
