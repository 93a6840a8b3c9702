--------------------------- MODULE RaftTypeProofs ---------------------------
(***************************************************************************)
(* Every step of Raft preserves RaftInv, hence type correctness and the     *)
(* bound on what a snapshot may cover, for every value of the constants.    *)
(***************************************************************************)
EXTENDS RaftTypeLemmas

-----------------------------------------------------------------------------
(* Every step preserves RaftInv *)

\* The strengthened types imply the plain ones.
LEMMA SoundNode == Sound \subseteq Node /\ Faithful \subseteq Request
BY DEF Sound, Faithful

\* start_election and the vote requests of run_election.
LEMMA RunElectionInv ==
  ASSUME RaftInv, NEW i \in Server, RunElection(i)
  PROVE  RaftInv'
<1> USE DEF RaftInv
<1> DEFINE peers == st[i].members \ {i}
           ask(p) == [type |-> "RequestVote", from |-> i, to |-> p, live |-> TRUE,
                      term |-> currentTerm[i] + 1, lastIndex |-> LastIndex(st[i]),
                      lastTerm |-> LastTerm(st[i])]
<1>1. st' \in [Server -> Sound]
  BY DrainSound DEF RunElection
<1>2. peers \subseteq Server
  BY DEF Sound, Node
<1>3. net' \subseteq Faithful
  <2>1. LastIndex(st[i]) \in Nat /\ LastTerm(st[i]) \in Nat
    BY SoundNode, LastIndexType
  <2>2. currentTerm[i] + 1 \in Nat
    BY DEF TypeOK
  <2>3. \A p \in peers : ask(p) \in VoteRequest /\ ask(p).type # "InstallSnapshot"
    BY <1>2, <2>1, <2>2 DEF VoteRequest
  <2>4. \A p \in peers : ask(p) \in Faithful
    BY <2>3 DEF Faithful, Request
  <2>5. net' = net \cup {ask(p) : p \in peers}
    BY DEF RunElection
  <2> QED
    BY <2>4, <2>5
<1>4. /\ currentTerm' \in [Server -> Nat]
      /\ votedFor' \in [Server -> Server \cup {None}]
      /\ role' \in [Server -> {"Follower", "Candidate", "Leader"}]
      /\ phase' \in [Server -> {"idle", "vote", "won", "append"}]
      /\ calls' \in [Server -> SUBSET Server]
      /\ elections' \in Nat
  BY <1>2 DEF RunElection, TypeOK
<1>6. votes' \in [Server -> SUBSET [term : Nat, from : Server]]
  <2>1. [term |-> currentTerm[i] + 1, from |-> i] \in [term : Nat, from : Server]
    BY DEF TypeOK
  <2> QED
    BY <2>1 DEF RunElection, TypeOK
<1>5. UNCHANGED <<batch, windows, replies, ballots, leaders, acked, proposed,
                  rounds, restarts, failures>>
  BY DEF RunElection
<1> QED
  BY <1>1, <1>3, <1>4, <1>5, <1>6, SoundNode DEF TypeOK

\* handle_request_vote.
LEMMA HandleRequestVoteInv ==
  ASSUME RaftInv, NEW m \in net, HandleRequestVote(m)
  PROVE  RaftInv'
<1> USE DEF RaftInv
<1>1. m \in Request /\ m.from \in Server /\ m.to \in Server /\ m.term \in Nat
  BY SoundNode, RequestFields
<1>2. st' \in [Server -> Sound]
  BY <1>1, DrainSound DEF HandleRequestVote
<1>3. /\ currentTerm' \in [Server -> Nat]
      /\ votedFor' \in [Server -> Server \cup {None}]
      /\ role' \in [Server -> {"Follower", "Candidate", "Leader"}]
  BY <1>1 DEF HandleRequestVote, TypeOK
<1>4. replies' \subseteq Reply
  <2>1. PICK ok \in BOOLEAN : Answer(m, currentTerm'[m.to], ok, 0)
    BY DEF HandleRequestVote
  <2>2. currentTerm'[m.to] \in Nat
    BY <1>1, <1>3
  <2> QED
    BY <1>1, <2>1, <2>2, AnswerType DEF TypeOK
<1>5. UNCHANGED <<phase, batch, calls, votes, windows, leaders, acked, proposed,
                  elections, rounds, restarts, failures>>
  BY DEF HandleRequestVote, tickVars, counters
<1>6. net' \subseteq Faithful
  BY DEF HandleRequestVote
<1>7. ballots' \subseteq [term : Nat, voter : Server, candidate : Server]
  <2>1. \/ ballots' = ballots
        \/ ballots' = ballots \cup
             {[term |-> m.term, voter |-> m.to, candidate |-> m.from]}
    BY DEF HandleRequestVote
  <2> QED
    BY <1>1, <2>1 DEF TypeOK
<1> QED
  BY <1>2, <1>3, <1>4, <1>5, <1>6, <1>7, SoundNode DEF TypeOK

\* The end of run_election, become_leader included.
LEMMA FinishElectionInv ==
  ASSUME RaftInv, NEW i \in Server, FinishElection(i)
  PROVE  RaftInv'
<1> USE DEF RaftInv
<1> DEFINE s == st[i]
           peers == s.members \ {i}
           last == LastIndex(s)
           next == [p \in Server |-> IF p \in peers THEN last + 1 ELSE s.next[p]]
           match == [p \in Server |-> IF p = i THEN last
                                      ELSE IF p \in peers THEN 0 ELSE s.match[p]]
           t == [s EXCEPT !.next = next, !.match = match,
                          !.pending = Append(@, Noop)]
<1>1. /\ s \in Sound /\ last \in Nat
      /\ s.next \in [Server -> Nat] /\ s.match \in [Server -> Nat]
      /\ s.pending \in Seq(Command)
  BY SoundNode, LastIndexType DEF Sound, Node
<1>2. t \in Sound
  <2>1. next \in [Server -> Nat] /\ match \in [Server -> Nat]
    BY <1>1
  <2>2. Append(s.pending, Noop) \in Seq(Command)
    BY <1>1 DEF Command
  <2> HIDE DEF next, match
  <2> QED
    BY <1>1, <2>1, <2>2 DEF Sound, Node
<1>3. st' = [st EXCEPT ![i] = t] \/ st' = st
  BY DEF FinishElection
<1> HIDE DEF t
<1>4. st' \in [Server -> Sound]
  BY <1>2, <1>3
<1>5. /\ role' \in [Server -> {"Follower", "Candidate", "Leader"}]
      /\ phase' \in [Server -> {"idle", "vote", "won", "append"}]
      /\ votes' \in [Server -> SUBSET [term : Nat, from : Server]]
      /\ leaders' \subseteq [term : Nat, id : Server]
  <2>1. /\ role' = [role EXCEPT ![i] = "Leader"] \/ role' = role
        /\ \/ phase' = [phase EXCEPT ![i] = "won"]
           \/ phase' = [phase EXCEPT ![i] = "idle"]
        /\ votes' = [votes EXCEPT ![i] = {}]
        /\ \/ leaders' = leaders \cup {[term |-> currentTerm[i], id |-> i]}
           \/ leaders' = leaders
    BY DEF FinishElection
  <2>2. role' \in [Server -> {"Follower", "Candidate", "Leader"}]
    BY <2>1 DEF TypeOK
  <2>3. phase' \in [Server -> {"idle", "vote", "won", "append"}]
    BY <2>1 DEF TypeOK
  <2>4. votes' \in [Server -> SUBSET [term : Nat, from : Server]]
    BY <2>1 DEF TypeOK
  <2>5. [term |-> currentTerm[i], id |-> i] \in [term : Nat, id : Server]
    BY DEF TypeOK
  <2>6. leaders' \subseteq [term : Nat, id : Server]
    BY <2>1, <2>5 DEF TypeOK
  <2> QED
    BY <2>2, <2>3, <2>4, <2>6
<1>6. UNCHANGED <<currentTerm, votedFor, batch, calls, net, windows, replies,
                  ballots, acked, proposed, elections, rounds, restarts,
                  failures>>
  BY DEF FinishElection, rpcVars, counters
<1> QED
  BY <1>4, <1>5, <1>6, SoundNode DEF TypeOK

\* propose.
LEMMA ProposeInv ==
  ASSUME RaftInv, NEW i \in Server, NEW c \in Value \cup Changes, Propose(i, c)
  PROVE  RaftInv'
<1> USE DEF RaftInv
<1>1. st[i] \in Sound /\ Append(st[i].pending, c) \in Seq(Command)
  BY DEF Sound, Node, Command
<1>2. [st[i] EXCEPT !.pending = Append(@, c)] \in Sound
  BY <1>1 DEF Sound, Node
<1>3. st' = [st EXCEPT ![i] = [st[i] EXCEPT !.pending = Append(@, c)]]
  BY DEF Propose
<1>4. st' \in [Server -> Sound]
  BY <1>2, <1>3
<1>5. proposed' \subseteq Value \cup Changes
  BY DEF Propose, TypeOK
<1>6. UNCHANGED <<currentTerm, votedFor, role, phase, batch, calls, votes, net,
                  windows, replies, ballots, leaders, acked, elections, rounds, restarts,
                  failures>>
  BY DEF Propose, voteVars, tickVars, rpcVars, counters
<1> QED
  BY <1>4, <1>5, <1>6, SoundNode DEF TypeOK

\* flush_pending_proposes up to the append outside the lock.
LEMMA BeginFlushInv ==
  ASSUME RaftInv, NEW i \in Server, BeginFlush(i)
  PROVE  RaftInv'
<1> USE DEF RaftInv
<1>1. st[i] \in Sound /\ st[i].pending \in Seq(Command) /\ <<>> \in Seq(Command)
  BY DEF Sound, Node
<1>2. [st[i] EXCEPT !.pending = <<>>] \in Sound
  BY <1>1 DEF Sound, Node
<1>3. st' = [st EXCEPT ![i] = [st[i] EXCEPT !.pending = <<>>]]
  BY DEF BeginFlush
<1>4. st' \in [Server -> Sound]
  BY <1>2, <1>3
<1>5. /\ phase' \in [Server -> {"idle", "vote", "won", "append"}]
      /\ batch' \in [Server -> [term : Nat, cmds : Seq(Command)]]
      /\ rounds' \in Nat
  BY <1>1 DEF BeginFlush, NewRound, TypeOK
<1>6. UNCHANGED <<currentTerm, votedFor, role, calls, votes, net, windows,
                  replies, ballots, leaders, acked, proposed, elections, restarts,
                  failures>>
  BY DEF BeginFlush, NewRound, voteVars, rpcVars
<1> QED
  BY <1>4, <1>5, <1>6, SoundNode DEF TypeOK

\* replicate_to_all on a tick without proposals.
LEMMA HeartbeatInv ==
  ASSUME RaftInv, NEW i \in Server, Heartbeat(i)
  PROVE  RaftInv'
<1> USE DEF RaftInv
<1>1. st[i] \in Sound /\ Broadcast(i, st[i], role[i])
  BY DEF Heartbeat
<1>2. calls' \in [Server -> SUBSET Server] /\ net' \subseteq Faithful
  BY <1>1, BroadcastType
<1>3. phase' \in [Server -> {"idle", "vote", "won", "append"}] /\ rounds' \in Nat
  BY DEF Heartbeat, NewRound, TypeOK
<1>4. UNCHANGED <<currentTerm, votedFor, role, st, batch, votes, windows,
                  replies, ballots, leaders, acked, proposed, elections, restarts,
                  failures>>
  BY DEF Heartbeat, NewRound, voteVars
<1> QED
  BY <1>2, <1>3, <1>4, SoundNode DEF TypeOK

\* flush_pending_proposes after the append, commit and apply included.
LEMMA EndFlushInv ==
  ASSUME RaftInv, NEW i \in Server, EndFlush(i)
  PROVE  RaftInv'
<1> USE DEF RaftInv
<1> DEFINE s == st[i]
           b == batch[i]
           last == LastIndex(s)
           new == [k \in DOMAIN b.cmds |->
                     [index |-> last + k, term |-> b.term, cmd |-> b.cmds[k]]]
           t == AppendConfig(AppendBatch(s, new), new, role[i] = "Leader")
           leading == role[i] = "Leader" /\ currentTerm[i] = b.term
           parked == {[index |-> last + k, cmd |-> b.cmds[k]] : k \in DOMAIN b.cmds}
           t2 == [t EXCEPT !.waiters = @ \cup parked, !.match[i] = LastIndex(t)]
           u == AdvanceCommit(i, t2, b.term)
           v == IF leading THEN ApplyCommitted(i, u) ELSE t
<1>1. /\ s \in Sound /\ last \in Nat
      /\ b.term \in Nat /\ b.cmds \in Seq(Command)
      /\ Len(b.cmds) \in Nat /\ DOMAIN b.cmds = 1..Len(b.cmds)
      /\ \A k \in DOMAIN b.cmds : b.cmds[k] \in Command
  BY SoundNode, LastIndexType, LenProperties DEF TypeOK
<1>2. new \in Seq(Entry)
  <2>1. \A k \in 1..Len(b.cmds) :
           [index |-> last + k, term |-> b.term, cmd |-> b.cmds[k]] \in Entry
    BY <1>1 DEF Entry
  <2> QED
    BY <1>1, <2>1
<1>3. parked \in SUBSET Waiter
  BY <1>1 DEF Waiter
<1> HIDE DEF new, parked
<1>4. t \in Sound
  BY <1>1, <1>2, AppendBatchSound, AppendConfigSound
<1>5. t2 \in Sound
  <2> DEFINE match == [t.match EXCEPT ![i] = LastIndex(t)]
  <2> HIDE DEF t
  <2>1. LastIndex(t) \in Nat
    BY <1>4, SoundNode, LastIndexType
  <2>2. match \in [Server -> Nat] /\ t.waiters \cup parked \in SUBSET Waiter
    BY <1>3, <1>4, <2>1 DEF Sound, Node
  <2>3. t2 = [t EXCEPT !.waiters = @ \cup parked, !.match = match]
    BY <1>4 DEF Sound, Node
  <2> HIDE DEF match
  <2> QED
    BY <1>4, <2>2, <2>3 DEF Sound, Node
<1> HIDE DEF t, t2
<1>6. v \in Sound /\ Notify(v) \in Sound
  BY <1>4, <1>5, AdvanceCommitSound, ApplyCommittedSound, NotifySound
<1>7. /\ st' = [st EXCEPT ![i] = IF leading THEN Notify(v) ELSE t]
      /\ acked' = IF leading THEN acked \cup Acks(i, v) ELSE acked
      /\ role' = [role EXCEPT ![i] = RoleAfter(@, v)]
      /\ Broadcast(i, v, role'[i])
  BY DEF EndFlush, t, t2, parked, new
<1>8. st' \in [Server -> Sound]
  BY <1>4, <1>6, <1>7
<1> HIDE DEF v
<1>9. acked' \subseteq [index : Nat, cmd : Command, term : Nat]
  <2>1. Acks(i, v) \subseteq [index : Nat, cmd : Command, term : Nat]
    BY <1>6, AcksType
  <2> QED
    BY <1>7, <2>1 DEF TypeOK
<1>10. calls' \in [Server -> SUBSET Server] /\ net' \subseteq Faithful
  BY <1>6, <1>7, BroadcastType
<1>11. /\ role' \in [Server -> {"Follower", "Candidate", "Leader"}]
       /\ phase' \in [Server -> {"idle", "vote", "won", "append"}]
       /\ batch' \in [Server -> [term : Nat, cmds : Seq(Command)]]
  <2>1. NoBatch \in [term : Nat, cmds : Seq(Command)]
    BY DEF NoBatch
  <2> QED
    BY <1>7, <2>1 DEF EndFlush, RoleAfter, TypeOK
<1>12. UNCHANGED <<currentTerm, votedFor, votes, windows, replies, ballots, leaders,
                   proposed, elections, rounds, restarts, failures>>
  BY DEF EndFlush, counters
<1> QED
  BY <1>8, <1>9, <1>10, <1>11, <1>12, SoundNode DEF TypeOK

\* handle_append_entries under the first lock.
LEMMA HandleAppendEntriesInv ==
  ASSUME RaftInv, NEW m \in net, HandleAppendEntries(m)
  PROVE  RaftInv'
<1> USE DEF RaftInv
<1>1. /\ m \in Request /\ m.to \in Server /\ m.term \in Nat
      /\ m \in AppendRequest
  BY SoundNode, RequestFields, RequestKind DEF HandleAppendEntries
<1>2. /\ st' \in [Server -> Sound]
      /\ currentTerm' \in [Server -> Nat]
      /\ votedFor' \in [Server -> Server \cup {None}]
      /\ role' \in [Server -> {"Follower", "Candidate", "Leader"}]
  <2>1. \/ BecomeFollower(m.to, m.term) /\ st' = [st EXCEPT ![m.to] = Drain(@)]
        \/ UNCHANGED <<voteVars, st>>
    BY DEF HandleAppendEntries
  <2>2. st' \in [Server -> Sound]
    BY <1>1, <2>1, DrainSound
  <2> QED
    BY <1>1, <2>1, <2>2, BecomeFollowerType DEF voteVars, TypeOK
<1>3. replies' \subseteq Reply
  <2>1. \/ UNCHANGED replies
        \/ \E n \in {0, LastIndex(st[m.to])} :
             Answer(m, currentTerm'[m.to], FALSE, n)
    BY DEF HandleAppendEntries
  <2>2. LastIndex(st[m.to]) \in Nat /\ currentTerm'[m.to] \in Nat
    BY <1>1, <1>2, SoundNode, LastIndexType
  <2> QED
    BY <1>1, <2>1, <2>2, AnswerType DEF TypeOK
<1>4. windows' \subseteq Window
  <2>1. windows' = windows \cup {[stage |-> "append", req |-> m]} \/ windows' = windows
    BY DEF HandleAppendEntries
  <2> QED
    BY <1>1, <2>1 DEF Window, TypeOK
<1>5. UNCHANGED <<phase, batch, calls, votes, ballots, leaders, acked, proposed,
                  elections, rounds, restarts, failures>>
  BY DEF HandleAppendEntries, tickVars, history, counters
<1>6. net' \subseteq Faithful
  BY DEF HandleAppendEntries
<1> QED
  BY <1>2, <1>3, <1>4, <1>5, <1>6, SoundNode DEF TypeOK

\* handle_append_entries after the log work: commit, apply, reply.
LEMMA FinishAppendInv ==
  ASSUME RaftInv, NEW w \in windows, FinishAppend(w)
  PROVE  RaftInv'
<1> USE DEF RaftInv
<1> DEFINE m == w.req
           i == m.to
           c == FollowCommit(st[i], m.commit)
           s == ApplyCommitted(i, [st[i] EXCEPT !.commit = c])
<1>1. /\ m \in AppendRequest /\ m \in Request /\ i \in Server
      /\ m.commit \in Nat /\ st[i] \in Sound
  BY DEF TypeOK, Window, AppendRequest, Request
<1>2. c \in Nat /\ LastIndex(st[i]) \in Nat
  BY <1>1, SoundNode, FollowCommitType, LastIndexType
<1> HIDE DEF c
<1>3. [st[i] EXCEPT !.commit = c] \in Sound
  BY <1>1, <1>2 DEF Sound, Node
<1>4. s \in Sound
  BY <1>1, <1>3, ApplyCommittedSound
<1>5. st' = [st EXCEPT ![i] = s] /\ role' = [role EXCEPT ![i] = RoleAfter(@, s)]
  BY DEF FinishAppend, c
<1> HIDE DEF s
<1>6. /\ st' \in [Server -> Sound]
      /\ role' \in [Server -> {"Follower", "Candidate", "Leader"}]
  BY <1>1, <1>4, <1>5 DEF RoleAfter, TypeOK
<1>7. replies' \subseteq Reply
  <2>1. Answer(m, currentTerm[i], TRUE, LastIndex(st[i]))
    BY DEF FinishAppend
  <2>2. currentTerm[i] \in Nat
    BY <1>1 DEF TypeOK
  <2> QED
    BY <1>1, <1>2, <2>1, <2>2, AnswerType DEF TypeOK
<1>8. windows' \subseteq Window
  BY DEF FinishAppend, TypeOK
<1>9. UNCHANGED <<currentTerm, votedFor, phase, batch, calls, votes, net,
                  ballots, leaders, acked, proposed, elections, rounds, restarts,
                  failures>>
  BY DEF FinishAppend, tickVars, history, counters
<1> QED
  BY <1>6, <1>7, <1>8, <1>9, SoundNode DEF TypeOK

\* handle_append_entries: the conflict check, truncation and append.
LEMMA AppendToLogInv ==
  ASSUME RaftInv, NEW w \in windows, AppendToLog(w)
  PROVE  RaftInv'
<1> USE DEF RaftInv
<1> DEFINE m == w.req
           i == m.to
           s == st[i]
           es == m.entries
           conflicts == {k \in DOMAIN es :
                           /\ es[k].index > s.snap.index
                           /\ TermAt(s, es[k].index) \notin {None, es[k].term}}
           first == IF conflicts = {} THEN 1 ELSE Min(conflicts)
           kept == IF conflicts = {} THEN s ELSE TruncateFrom(s, es[first].index)
           last == LastIndex(kept)
           fresh == {k \in first..Len(es) : es[k].index > last}
           indexes == {es[k].index : k \in fresh}
           gap == indexes # last + 1 .. last + Cardinality(indexes)
           new == [n \in 1..Cardinality(indexes) |->
                     es[Min({k \in fresh : es[k].index = last + n})]]
           base == IF conflicts = {} THEN kept ELSE RebuildMembers(kept)
           t == AppendConfig(AppendBatch(base, new), new, role[i] = "Leader")
<1>1. /\ m \in AppendRequest /\ m \in Request /\ i \in Server /\ s \in Sound
      /\ m.term \in Nat /\ es \in Seq(Entry)
      /\ Len(es) \in Nat /\ DOMAIN es = 1..Len(es)
  BY LenProperties DEF TypeOK, Window, AppendRequest, Request
<1>2. first \in Nat \ {0}
  <2>0. conflicts \subseteq DOMAIN es
    OBVIOUS
  <2> HIDE DEF conflicts, es
  <2>1. conflicts \subseteq Nat \ {0}
    BY <1>1, <2>0
  <2>2. CASE conflicts # {}
    BY <2>1, <2>2, MinNat
  <2> QED
    BY <2>2
<1>3. kept \in Sound /\ base \in Sound
  BY <1>1, TruncateFromSound, RebuildMembersSound
<1>4. last \in Nat
  BY <1>3, SoundNode, LastIndexType
<1> HIDE DEF conflicts, first, kept, base, last
<1>5. /\ fresh \subseteq 1..Len(es)
      /\ \A k \in fresh : es[k] \in Entry
  BY <1>1, <1>2, ElementOfSeq
<1>6. Cardinality(indexes) \in Nat
  <2> DEFINE f == [k \in fresh |-> es[k].index]
  <2>1. IsFiniteSet(fresh)
    <3> HIDE DEF fresh
    <3>1. \A n \in Nat : IsFiniteSet(1..n)
      BY FS_Interval
    <3>2. IsFiniteSet(1..Len(es))
      BY <1>1, <3>1
    <3> QED
      BY <1>5, <3>2, FS_Subset
  <2>2. IsFiniteSet(indexes)
    <3> HIDE DEF fresh
    <3>1. f \in Surjection(fresh, indexes)
      BY DEF Surjection
    <3> HIDE DEF f, indexes
    <3> QED
      BY <2>1, <3>1, FS_Surjection
  <2> QED
    BY <2>2, FS_CardinalityType
<1>7. ASSUME ~gap
      PROVE  new \in Seq(Entry)
  <2> DEFINE c == Cardinality(indexes)
             at(n) == {k \in fresh : es[k].index = last + n}
  <2>1. ASSUME NEW n \in 1..c
        PROVE  es[Min(at(n))] \in Entry
    <3>1. c \in Nat /\ indexes = last + 1 .. last + c
      BY <1>6, <1>7
    <3> HIDE DEF c
    <3>2. last + n \in last + 1 .. last + c
      BY <1>4, <3>1
    <3>3. last + n \in indexes
      BY <3>1, <3>2
    <3>4. at(n) # {} /\ at(n) \subseteq Nat
      BY <1>1, <1>5, <3>3
    <3>5. Min(at(n)) \in at(n)
      BY <3>4, MinNat
    <3> QED
      BY <1>5, <3>5
  <2>2. new = [n \in 1..c |-> es[Min(at(n))]]
    OBVIOUS
  <2> HIDE DEF c, at, new
  <2>3. c \in Nat
    BY <1>6 DEF c
  <2> QED
    BY <2>1, <2>2, <2>3
<1>8. /\ w.stage = "append"
      /\ \/ /\ st' = [st EXCEPT ![i] = kept]
            /\ windows' = windows \ {w}
            /\ Answer(m, m.term, FALSE, last)
         \/ /\ ~gap
            /\ st' = [st EXCEPT ![i] = t]
            /\ windows' = (windows \ {w}) \cup {[w EXCEPT !.stage = "commit"]}
            /\ UNCHANGED replies
  BY DEF AppendToLog, conflicts, first, kept, base, last
<1>9. st' \in [Server -> Sound]
  <2> HIDE DEF new, gap
  <2>1. ~gap => t \in Sound
    BY <1>3, <1>7, AppendBatchSound, AppendConfigSound
  <2> HIDE DEF t
  <2> QED
    BY <1>1, <1>3, <1>8, <2>1
<1> HIDE DEF gap, t
<1>10. windows' \subseteq Window
  <2>1. [w EXCEPT !.stage = "commit"] \in Window
    <3> HIDE DEF m, i, s, es
    <3>1. w \in Window
      BY DEF TypeOK
    <3> QED
      BY <3>1 DEF Window
  <2> QED
    BY <1>8, <2>1 DEF TypeOK
<1>11. replies' \subseteq Reply
  BY <1>1, <1>4, <1>8, AnswerType DEF TypeOK
<1>12. UNCHANGED <<currentTerm, votedFor, role, phase, batch, calls, votes, net,
                   ballots, leaders, acked, proposed, elections, rounds, restarts,
                   failures>>
  BY DEF AppendToLog, voteVars, tickVars, history, counters
<1> QED
  BY <1>9, <1>10, <1>11, <1>12, SoundNode DEF TypeOK

\* handle_install_snapshot.
LEMMA HandleInstallSnapshotInv ==
  ASSUME RaftInv, NEW m \in net, HandleInstallSnapshot(m)
  PROVE  RaftInv'
<1> USE DEF RaftInv
<1> DEFINE i == m.to
           s == Drain(st[i])
           commit == Max({s.commit, m.index})
<1>1. m \in Request /\ m \in SnapshotRequest /\ Len(m.data) = m.index
  BY RequestKind DEF Faithful, HandleInstallSnapshot
<1>2. /\ i \in Server /\ m.term \in Nat /\ m.index \in Nat /\ m.lastTerm \in Nat
      /\ m.members \in SUBSET Server /\ m.data \in Seq(Entry)
  BY <1>1 DEF SnapshotRequest
<1>3. s \in Sound /\ s.commit \in Nat
  BY <1>2, DrainSound DEF Sound, Node
<1> HIDE DEF s
<1>4. commit \in Nat
  BY <1>2, <1>3, TwoNaturals, Zenon
<1> HIDE DEF commit
<1>5. Installed(st[i], m) =
        [s EXCEPT !.log = <<>>, !.wal = <<>>,
                  !.snap = [index |-> m.index, term |-> m.lastTerm],
                  !.applied = m.data, !.commit = commit,
                  !.members = m.members, !.base = m.members,
                  !.saved = m.members, !.removed = i \notin m.members]
  BY <1>3 DEF Installed, s, commit, Sound, Node
<1>6. Installed(st[i], m) \in Node
  <2> DEFINE snap == [index |-> m.index, term |-> m.lastTerm]
             gone == i \notin m.members
             t == [s EXCEPT !.log = <<>>, !.wal = <<>>, !.snap = snap,
                            !.applied = m.data, !.commit = commit,
                            !.members = m.members, !.base = m.members,
                            !.saved = m.members, !.removed = gone]
  <2>1. <<>> \in Seq(Entry) /\ gone \in BOOLEAN /\ snap \in [index : Nat, term : Nat]
    BY <1>2
  <2>2. Installed(st[i], m) = t
    BY <1>5
  <2> HIDE DEF snap, gone
  <2>3. t \in Node
    BY <1>2, <1>3, <1>4, <2>1 DEF Sound, Node
  <2> QED
    BY <2>2, <2>3
<1>7. /\ Installed(st[i], m).snap.index = m.index
      /\ Installed(st[i], m).applied = m.data
  BY <1>3, <1>5 DEF Sound, Node
<1>8. Installed(st[i], m) \in Sound
  BY <1>1, <1>2, <1>6, <1>7 DEF Sound
<1>9. \/ BecomeFollower(i, m.term) /\ st' = [st EXCEPT ![i] = Installed(@, m)]
      \/ UNCHANGED <<voteVars, st>>
  BY DEF HandleInstallSnapshot
<1>10. st' \in [Server -> Sound]
  BY <1>2, <1>8, <1>9
<1>11. /\ currentTerm' \in [Server -> Nat]
       /\ votedFor' \in [Server -> Server \cup {None}]
       /\ role' \in [Server -> {"Follower", "Candidate", "Leader"}]
  BY <1>2, <1>9, BecomeFollowerType DEF voteVars, TypeOK
<1>12. replies' \subseteq Reply
  <2>1. Answer(m, currentTerm'[i], TRUE, m.index) /\ currentTerm'[i] \in Nat
    BY <1>2, <1>11 DEF HandleInstallSnapshot
  <2> QED
    BY <1>1, <1>2, <2>1, AnswerType DEF TypeOK
<1>13. net' \subseteq Faithful
  BY DEF HandleInstallSnapshot
<1>14. UNCHANGED <<phase, batch, calls, votes, windows, ballots, leaders, acked, proposed,
                   elections, rounds, restarts, failures>>
  BY DEF HandleInstallSnapshot, tickVars, history, counters
<1> QED
  BY <1>10, <1>11, <1>12, <1>13, <1>14, SoundNode DEF TypeOK

\* A reply that is consumed names servers and carries naturals.
LEMMA TakeType ==
  ASSUME RaftInv, NEW r \in replies, Take(r)
  PROVE  /\ r.from \in Server /\ r.to \in Server /\ r.term \in Nat /\ r.match \in Nat
         /\ calls' \in [Server -> SUBSET Server]
         /\ replies' \subseteq Reply
         /\ UNCHANGED <<phase, batch, net, windows, proposed, ballots, leaders,
                        elections, rounds, restarts, failures>>
<1>1. r.from \in Server /\ r.to \in Server /\ r.term \in Nat /\ r.match \in Nat
  BY DEF RaftInv, TypeOK, Reply
<1>2. calls' \in [Server -> SUBSET Server]
  BY <1>1 DEF Take, RaftInv, TypeOK
<1>3. replies' \subseteq Reply
  BY DEF Take, RaftInv, TypeOK
<1> QED
  BY <1>1, <1>2, <1>3 DEF Take, counters

\* The cursor updates of on_append_success and on_snapshot_success.
LEMMA CursorSound ==
  ASSUME NEW s \in Sound, NEW p \in Server, NEW n \in Nat
  PROVE  [s EXCEPT !.match[p] = n, !.next[p] = n + 1] \in Sound
<1> DEFINE match == [s.match EXCEPT ![p] = n]
           next == [s.next EXCEPT ![p] = n + 1]
<1>1. match \in [Server -> Nat] /\ next \in [Server -> Nat]
  BY DEF Sound, Node
<1>2. [s EXCEPT !.match[p] = n, !.next[p] = n + 1]
        = [s EXCEPT !.match = match, !.next = next]
  BY DEF Sound, Node
<1> HIDE DEF match, next
<1> QED
  BY <1>1, <1>2 DEF Sound, Node

\* Setting one next_index keeps a node sound.
LEMMA NextSound ==
  ASSUME NEW s \in Sound, NEW p \in Server, NEW n \in Nat
  PROVE  [s EXCEPT !.next[p] = n] \in Sound
<1> DEFINE next == [s.next EXCEPT ![p] = n]
<1>1. next \in [Server -> Nat]
  BY DEF Sound, Node
<1>2. [s EXCEPT !.next[p] = n] = [s EXCEPT !.next = next]
  BY DEF Sound, Node
<1> HIDE DEF next
<1> QED
  BY <1>1, <1>2 DEF Sound, Node

\* maybe_step_down.
LEMMA StepDownInv ==
  ASSUME RaftInv, NEW r \in replies, StepDown(r)
  PROVE  RaftInv'
<1> USE DEF RaftInv
<1>1. Take(r)
  BY DEF StepDown
<1>2. r.to \in Server /\ r.term \in Nat
  BY <1>1, TakeType
<1>3. /\ currentTerm' \in [Server -> Nat]
      /\ votedFor' \in [Server -> Server \cup {None}]
      /\ role' \in [Server -> {"Follower", "Candidate", "Leader"}]
  BY <1>2, BecomeFollowerType DEF StepDown
<1>4. st' \in [Server -> Sound]
  BY <1>2, DrainSound DEF StepDown
<1>5. UNCHANGED <<votes, acked>>
  BY DEF StepDown
<1> QED
  BY <1>1, <1>3, <1>4, <1>5, TakeType, SoundNode DEF TypeOK

\* record_vote_granted.
LEMMA RecordVoteInv ==
  ASSUME RaftInv, NEW r \in replies, RecordVote(r)
  PROVE  RaftInv'
<1> USE DEF RaftInv
<1>1. Take(r)
  BY DEF RecordVote
<1>2. r.to \in Server /\ r.from \in Server
  BY <1>1, TakeType
<1>3. votes' \in [Server -> SUBSET [term : Nat, from : Server]]
  <2>1. [term |-> r.sent, from |-> r.from] \in [term : Nat, from : Server]
    BY <1>2 DEF TypeOK, Reply
  <2> QED
    BY <1>2, <2>1 DEF RecordVote, TypeOK
<1>4. UNCHANGED <<currentTerm, votedFor, role, st, acked>>
  BY DEF RecordVote, voteVars
<1> QED
  BY <1>1, <1>3, <1>4, TakeType, SoundNode DEF TypeOK

\* on_append_success, with the commit, apply and notify it triggers.
LEMMA AppendSucceededInv ==
  ASSUME RaftInv, NEW r \in replies, AppendSucceeded(r)
  PROVE  RaftInv'
<1> USE DEF RaftInv
<1> DEFINE i == r.to
           moved == [st[i] EXCEPT !.match[r.from] = r.match,
                                  !.next[r.from] = r.match + 1]
           s == ApplyCommitted(i, AdvanceCommit(i, moved, currentTerm[i]))
<1>1. Take(r)
  BY DEF AppendSucceeded
<1>2. i \in Server /\ r.from \in Server /\ r.match \in Nat
  BY <1>1, TakeType
<1>3. moved \in Sound
  BY <1>2, CursorSound
<1>4. /\ st' = [st EXCEPT ![i] = Notify(s)]
      /\ acked' = acked \cup Acks(i, s)
      /\ role' = [role EXCEPT ![i] = RoleAfter(@, s)]
      /\ UNCHANGED <<currentTerm, votedFor, votes>>
  BY DEF AppendSucceeded
<1> HIDE DEF moved
<1>5. s \in Sound /\ Notify(s) \in Sound
  BY <1>2, <1>3, AdvanceCommitSound, ApplyCommittedSound, NotifySound
<1> HIDE DEF s
<1>6. st' \in [Server -> Sound]
  BY <1>2, <1>4, <1>5
<1>7. acked' \subseteq [index : Nat, cmd : Command, term : Nat]
  BY <1>2, <1>4, <1>5, AcksType DEF TypeOK
<1>8. role' \in [Server -> {"Follower", "Candidate", "Leader"}]
  BY <1>2, <1>4 DEF RoleAfter, TypeOK
<1>9. UNCHANGED <<currentTerm, votedFor, votes>>
  BY <1>4
<1> QED
  BY <1>1, <1>6, <1>7, <1>8, <1>9, TakeType, SoundNode DEF TypeOK

\* on_append_failure.
LEMMA AppendFailedInv ==
  ASSUME RaftInv, NEW r \in replies, AppendFailed(r)
  PROVE  RaftInv'
<1> USE DEF RaftInv
<1> DEFINE i == r.to
           next == st[i].next[r.from]
           back == IF r.match > 0 THEN Min({r.match + 1, next}) ELSE Max({next - 1, 1})
<1>1. Take(r)
  BY DEF AppendFailed
<1>2. i \in Server /\ r.from \in Server /\ r.match \in Nat
  BY <1>1, TakeType
<1>3. st[i] \in Sound /\ next \in Nat
  BY <1>2 DEF Sound, Node
<1>4. back \in Nat
  <2>1. \A n \in Int : Max({n, 1}) \in Nat
    <3> TAKE n \in Int
    <3>1. Max({n, 1}) \in {n, 1} /\ 1 <= Max({n, 1})
      BY MaxOfTwo
    <3> QED
      BY <3>1
  <2>2. r.match + 1 \in Nat /\ next - 1 \in Int
    BY <1>2, <1>3
  <2> HIDE DEF next
  <2>3. Min({r.match + 1, next}) \in Nat /\ Max({next - 1, 1}) \in Nat
    BY <1>3, <2>1, <2>2, TwoNaturals, Zenon
  <2> QED
    BY <2>3
<1>5. st' = [st EXCEPT ![i] = [st[i] EXCEPT !.next[r.from] = back]]
  BY DEF AppendFailed
<1> HIDE DEF back
<1>6. st' \in [Server -> Sound]
  BY <1>2, <1>3, <1>4, <1>5, NextSound
<1>7. UNCHANGED <<currentTerm, votedFor, role, votes, acked>>
  BY DEF AppendFailed, voteVars
<1> QED
  BY <1>1, <1>6, <1>7, TakeType, SoundNode DEF TypeOK

\* on_snapshot_success.
LEMMA SnapshotSucceededInv ==
  ASSUME RaftInv, NEW r \in replies, SnapshotSucceeded(r)
  PROVE  RaftInv'
<1> USE DEF RaftInv
<1> DEFINE i == r.to
           moved == [st[i] EXCEPT !.match[r.from] = r.match,
                                  !.next[r.from] = r.match + 1]
<1>1. Take(r)
  BY DEF SnapshotSucceeded
<1>2. i \in Server /\ r.from \in Server /\ r.match \in Nat
  BY <1>1, TakeType
<1>3. moved \in Sound
  BY <1>2, CursorSound
<1>4. st' = [st EXCEPT ![i] = AdvanceCommit(i, moved, currentTerm[i])]
  BY DEF SnapshotSucceeded
<1> HIDE DEF moved
<1>5. st' \in [Server -> Sound]
  BY <1>2, <1>3, <1>4, AdvanceCommitSound
<1>6. UNCHANGED <<currentTerm, votedFor, role, votes, acked>>
  BY DEF SnapshotSucceeded, voteVars
<1> QED
  BY <1>1, <1>5, <1>6, TakeType, SoundNode DEF TypeOK

\* Replies that change nothing.
LEMMA IgnoreReplyInv ==
  ASSUME RaftInv, NEW r \in replies, IgnoreReply(r)
  PROVE  RaftInv'
<1> USE DEF RaftInv
<1>1. Take(r)
  BY DEF IgnoreReply
<1>2. UNCHANGED <<currentTerm, votedFor, role, st, votes, acked>>
  BY DEF IgnoreReply, voteVars
<1> QED
  BY <1>1, <1>2, TakeType, SoundNode DEF TypeOK

\* A failed call, and on_peer_unreachable.
LEMMA RpcFailedInv ==
  ASSUME RaftInv, NEW i \in Server, NEW j \in Server, RpcFailed(i, j)
  PROVE  RaftInv'
<1> USE DEF RaftInv
<1>1. st' \in [Server -> Sound]
  BY UnreachableSound DEF RpcFailed
<1>2. net' \subseteq Faithful
  <2>1. net' \subseteq net \/ net' = {Orphan(m, i, j) : m \in net}
    BY DEF RpcFailed
  <2> QED
    BY <2>1, OrphanFaithful
<1>3. windows' \subseteq Window
  <2>1. windows' = {OrphanWindow(w, i, j) : w \in windows}
    BY DEF RpcFailed
  <2> QED
    BY <2>1, OrphanWindowType DEF TypeOK
<1>4. calls' \in [Server -> SUBSET Server]
  BY DEF RpcFailed, TypeOK
<1>5. replies' \subseteq Reply /\ failures' \in Nat
  <2>1. replies' \subseteq replies /\ failures' = failures + 1
    BY DEF RpcFailed
  <2>2. replies \subseteq Reply /\ failures \in Nat
    BY DEF TypeOK
  <2> QED
    BY <2>1, <2>2
<1>6. UNCHANGED <<currentTerm, votedFor, role, phase, batch, votes, ballots, leaders,
                  acked, proposed, elections, rounds, restarts>>
  BY DEF RpcFailed, voteVars
<1> QED
  BY <1>1, <1>2, <1>3, <1>4, <1>5, <1>6, SoundNode DEF TypeOK

\* The log that RaftLog::open rebuilds is made of durable frames.
LEMMA RestartSound ==
  ASSUME RaftInv, NEW i \in Server, Restart(i)
  PROVE  st' \in [Server -> Sound]
<1> USE DEF RaftInv
<1> DEFINE s == st[i]
           fresh == InitNode(i)
           base == IF s.saved = {} THEN fresh.members ELSE s.saved
           frames == {k \in DOMAIN s.wal : s.wal[k].index > s.snap.index}
           applied == SubSeq(s.applied, 1, s.snap.index)
<1>1. /\ s \in Sound /\ s \in Node /\ s.wal \in Seq(Entry)
      /\ Len(s.wal) \in Nat /\ DOMAIN s.wal = 1..Len(s.wal)
      /\ s.snap \in [index : Nat, term : Nat] /\ s.saved \in SUBSET Server
      /\ s.applied \in Seq(Entry) /\ s.snap.index <= Len(s.applied)
  BY LenProperties DEF Sound, Node
<1>2. fresh \in Sound /\ base \in SUBSET Server
  <2>1. fresh \in Sound
    BY InitNodeSound
  <2> HIDE DEF fresh
  <2> QED
    BY <1>1, <2>1 DEF Sound, Node
<1>3. Cardinality(frames) \in Nat
  <2>1. \A n \in Nat : IsFiniteSet(1..n)
    BY FS_Interval
  <2>2. IsFiniteSet(DOMAIN s.wal) /\ frames \subseteq DOMAIN s.wal
    BY <1>1, <2>1
  <2> HIDE DEF frames
  <2> QED
    BY <2>2, FS_Subset, FS_CardinalityType
<1>4. applied \in Seq(Entry) /\ Len(applied) = s.snap.index
  BY <1>1, SubSeqProperties, LenProperties
<1>5. PICK order \in [1..Cardinality(frames) -> frames] :
             LET log == [k \in DOMAIN order |-> s.wal[order[k]]]
                 live == MembersAfter(base, log)
                 last == LastIndex([s EXCEPT !.log = log])
             IN  st' = [st EXCEPT ![i] =
                          [fresh EXCEPT
                             !.log = log, !.wal = s.wal, !.snap = s.snap,
                             !.commit = s.snap.index,
                             !.next = [p \in Server |->
                                         IF p \in live \ {i} THEN last + 1 ELSE 1],
                             !.members = live, !.base = base, !.saved = live,
                             !.removed = i \notin live /\ live # {},
                             !.applied = applied]]
  BY DEF Restart
<1> DEFINE log == [k \in DOMAIN order |-> s.wal[order[k]]]
           live == MembersAfter(base, log)
           last == LastIndex([s EXCEPT !.log = log])
           next == [p \in Server |-> IF p \in live \ {i} THEN last + 1 ELSE 1]
           gone == i \notin live /\ live # {}
           t == [fresh EXCEPT !.log = log, !.wal = s.wal, !.snap = s.snap,
                              !.commit = s.snap.index, !.next = next,
                              !.members = live, !.base = base, !.saved = live,
                              !.removed = gone, !.applied = applied]
<1>6. st' = [st EXCEPT ![i] = t]
  BY <1>5
<1>7. log \in Seq(Entry)
  <2>1. DOMAIN order = 1..Cardinality(frames)
    OBVIOUS
  <2>2. \A k \in DOMAIN order : s.wal[order[k]] \in Entry
    <3>1. \A k \in frames : s.wal[k] \in Entry
      BY <1>1, ElementOfSeq
    <3> HIDE DEF frames
    <3> QED
      BY <3>1
  <2> HIDE DEF frames
  <2> QED
    BY <1>3, <2>1, <2>2
<1> HIDE DEF log, frames, fresh, base, applied
<1>8. last \in Nat
  <2>1. [s EXCEPT !.log = log] \in Node
    BY <1>1, <1>7 DEF Node
  <2> QED
    BY <2>1, LastIndexType
<1> HIDE DEF last
<1>9. live \in SUBSET Server
  BY MembersAfterType
<1> HIDE DEF live
<1>10. next \in [Server -> Nat] /\ gone \in BOOLEAN /\ s.snap.index \in Nat
  BY <1>1, <1>8
<1> HIDE DEF next, gone
<1>11. t \in Node
  BY <1>1, <1>2, <1>4, <1>7, <1>9, <1>10 DEF Sound, Node
<1>12. t.snap = s.snap /\ t.applied = applied
  BY <1>2 DEF Sound, Node
<1> HIDE DEF t
<1>13. t \in Sound
  BY <1>1, <1>4, <1>10, <1>11, <1>12 DEF Sound
<1> QED
  BY <1>6, <1>13

\* Reopening a node from its log, its snapshot and its membership file.
LEMMA RestartInv ==
  ASSUME RaftInv, NEW i \in Server, Restart(i)
  PROVE  RaftInv'
<1> USE DEF RaftInv
<1>1. st' \in [Server -> Sound]
  BY RestartSound
<1>2. net' \subseteq Faithful
  <2>1. net' \subseteq net \/ net' = {Orphan(m, i, m.to) : m \in net}
    BY DEF Restart
  <2> QED
    BY <2>1, OrphanFaithful
<1>3. windows' \subseteq Window
  <2>1. windows' = {OrphanWindow(w, i, w.req.to) :
                      w \in {v \in windows : v.req.to # i}}
    BY DEF Restart
  <2> QED
    BY <2>1, OrphanWindowType DEF TypeOK
<1>4. /\ currentTerm' \in [Server -> Nat]
      /\ votedFor' \in [Server -> Server \cup {None}]
      /\ role' \in [Server -> {"Follower", "Candidate", "Leader"}]
  BY DEF Restart, TypeOK
<1>5. /\ phase' \in [Server -> {"idle", "vote", "won", "append"}]
      /\ batch' \in [Server -> [term : Nat, cmds : Seq(Command)]]
  <2>1. NoBatch \in [term : Nat, cmds : Seq(Command)]
    BY DEF NoBatch
  <2> QED
    BY <2>1 DEF Restart, TypeOK
<1>6. calls' \in [Server -> SUBSET Server] /\ votes' \in [Server -> SUBSET [term : Nat, from : Server]]
  BY DEF Restart, TypeOK
<1>7. replies' \subseteq Reply /\ restarts' \in Nat
  <2>1. replies' \subseteq replies /\ restarts' = restarts + 1
    BY DEF Restart
  <2> QED
    BY <2>1 DEF TypeOK
<1>8. UNCHANGED <<ballots, leaders, acked, proposed, elections, rounds, failures>>
  BY DEF Restart
<1> QED
  BY <1>1, <1>2, <1>3, <1>4, <1>5, <1>6, <1>7, <1>8, SoundNode DEF TypeOK

\* The initial state satisfies the invariant.
LEMMA InitInv == Init => RaftInv
<1> SUFFICES ASSUME Init
             PROVE  RaftInv
  OBVIOUS
<1>1. st \in [Server -> Sound]
  BY InitNodeSound DEF Init
<1>2. NoBatch \in [term : Nat, cmds : Seq(Command)]
  BY DEF NoBatch
<1>3. st \in [Server -> Node]
  BY <1>1, SoundNode
<1>4. /\ currentTerm \in [Server -> Nat]
      /\ votedFor \in [Server -> Server \cup {None}]
      /\ role \in [Server -> {"Follower", "Candidate", "Leader"}]
      /\ phase \in [Server -> {"idle", "vote", "won", "append"}]
  BY DEF Init
<1>5. batch \in [Server -> [term : Nat, cmds : Seq(Command)]]
  BY <1>2 DEF Init
<1>6. /\ calls \in [Server -> SUBSET Server]
      /\ votes \in [Server -> SUBSET [term : Nat, from : Server]]
  BY DEF Init
<1>7. /\ net = {} /\ windows = {} /\ replies = {}
      /\ ballots = {} /\ leaders = {} /\ acked = {} /\ proposed = {}
      /\ {elections, rounds, restarts, failures} \subseteq Nat
  BY DEF Init
<1> QED
  BY <1>1, <1>3, <1>4, <1>5, <1>6, <1>7 DEF RaftInv, TypeOK

\* The invariant is inductive: one case per action of Next.
LEMMA NextInv == RaftInv /\ [Next]_vars => RaftInv'
<1> SUFFICES ASSUME RaftInv, [Next]_vars
             PROVE  RaftInv'
  OBVIOUS
<1>1. ASSUME NEW i \in Server, RunElection(i)
      PROVE  RaftInv'
  BY <1>1, RunElectionInv
<1>2. ASSUME NEW i \in Server, FinishElection(i)
      PROVE  RaftInv'
  BY <1>2, FinishElectionInv
<1>3. ASSUME NEW i \in Server, BeginFlush(i)
      PROVE  RaftInv'
  BY <1>3, BeginFlushInv
<1>4. ASSUME NEW i \in Server, EndFlush(i)
      PROVE  RaftInv'
  BY <1>4, EndFlushInv
<1>5. ASSUME NEW i \in Server, Heartbeat(i)
      PROVE  RaftInv'
  BY <1>5, HeartbeatInv
<1>6. ASSUME NEW i \in Server, Restart(i)
      PROVE  RaftInv'
  BY <1>6, RestartInv
<1>7. ASSUME NEW i \in Server, NEW c \in Value \cup Changes, Propose(i, c)
      PROVE  RaftInv'
  BY <1>7, ProposeInv
<1>8. ASSUME NEW m \in net,
             \/ HandleRequestVote(m) \/ HandleAppendEntries(m)
             \/ HandleInstallSnapshot(m)
      PROVE  RaftInv'
  BY <1>8, HandleRequestVoteInv, HandleAppendEntriesInv, HandleInstallSnapshotInv
<1>9. ASSUME NEW w \in windows, AppendToLog(w) \/ FinishAppend(w)
      PROVE  RaftInv'
  BY <1>9, AppendToLogInv, FinishAppendInv
<1>10. ASSUME NEW r \in replies,
              \/ StepDown(r) \/ RecordVote(r) \/ AppendSucceeded(r)
              \/ AppendFailed(r) \/ SnapshotSucceeded(r) \/ IgnoreReply(r)
       PROVE  RaftInv'
  BY <1>10, StepDownInv, RecordVoteInv, AppendSucceededInv, AppendFailedInv,
     SnapshotSucceededInv, IgnoreReplyInv
<1>11. ASSUME NEW i \in Server, NEW j \in Server, RpcFailed(i, j)
       PROVE  RaftInv'
  BY <1>11, RpcFailedInv
<1>12. CASE UNCHANGED vars
  BY <1>12 DEF vars, voteVars, tickVars, rpcVars, history, counters, RaftInv, TypeOK
<1> QED
  BY <1>1, <1>2, <1>3, <1>4, <1>5, <1>6, <1>7, <1>8, <1>9, <1>10, <1>11, <1>12
  DEF Next

\* The strengthened type invariant holds in every reachable state.
LEMMA RaftInvariant == Spec => []RaftInv
<1> QED
  BY InitInv, NextInv, PTL DEF Spec

\* Every variable keeps its type whatever the handlers of consensus.rs do, for
\* any cluster, any commands, any snapshot threshold and any bounds.
THEOREM TypeCorrect == Spec => []TypeOK
<1>1. RaftInv => TypeOK
  BY DEF RaftInv
<1> QED
  BY <1>1, RaftInvariant, PTL

\* No entry leaves a log before the state machine has applied it: compaction,
\* the snapshot taken before a node is added, an installed snapshot and a
\* restart all keep the boundary within what has been applied.
THEOREM SnapshotsCoverOnlyApplied == Spec => []SnapshotWithinApplied
<1>1. RaftInv => SnapshotWithinApplied
  BY DEF RaftInv, SnapshotWithinApplied, Sound
<1> QED
  BY <1>1, RaftInvariant, PTL

=============================================================================
