------------------------- MODULE RaftElectionProofs -------------------------
(***************************************************************************)
(* At most one leader per term, whatever the interleaving of handlers (also *)
(* inside the lock-free windows): the steps that move terms and votes, and *)
(* the theorem.  Each hypothesis of StaticCluster is needed: see the runs  *)
(* that drop one.                                                          *)
(***************************************************************************)
EXTENDS RaftElectionLemmas

-----------------------------------------------------------------------------
(* Steps that move terms and votes *)

\* A step in which only node i moves its term or vote, nobody is elected and
\* no vote is cast, keeps every commitment if i keeps its own.
LEMMA MovedVote ==
  ASSUME ElectionInv, UNCHANGED <<ballots, leaders>>, NEW i \in Server,
         \A j \in Server : j # i => /\ currentTerm'[j] = currentTerm[j]
                                    /\ votedFor'[j] = votedFor[j],
         currentTerm[i] \in Nat, currentTerm'[i] \in Nat,
         \/ currentTerm'[i] > currentTerm[i]
         \/ /\ currentTerm'[i] = currentTerm[i]
            /\ \/ votedFor'[i] = votedFor[i]
               \/ /\ votedFor[i] = i
                  /\ [term |-> currentTerm[i], id |-> i] \notin leaders
  PROVE  BallotInv' /\ LeaderInv' /\ ElectionSafety'
<1>1. /\ ballots \subseteq [term : Nat, voter : Server, candidate : Server]
      /\ leaders \subseteq [term : Nat, id : Server]
  BY DEF ElectionInv, RaftInv, TypeOK
<1>2. ASSUME NEW j \in Server, NEW t \in Nat, NEW c, Bound(j, t, c),
             j = i => (c # i \/ [term |-> t, id |-> i] \in leaders)
      PROVE  Bound(j, t, c)'
  <2>1. CASE j # i
    BY <1>2, <2>1 DEF Bound
  <2>2. CASE j = i /\ currentTerm'[i] > currentTerm[i]
    BY <1>2, <2>2 DEF Bound
  <2>3. CASE j = i /\ currentTerm'[i] = currentTerm[i]
    BY <1>2, <2>3 DEF Bound
  <2> QED
    BY <2>1, <2>2, <2>3
<1>3. BallotInv'
  <2>1. ASSUME NEW b \in ballots
        PROVE  b.voter # b.candidate /\ Bound(b.voter, b.term, b.candidate)'
    <3>1. /\ b.voter # b.candidate /\ Bound(b.voter, b.term, b.candidate)
          /\ b.voter \in Server /\ b.term \in Nat
      BY <1>1 DEF ElectionInv, BallotInv
    <3> QED
      BY <1>2, <3>1
  <2>2. \A x, y \in ballots :
          x.term = y.term /\ x.voter = y.voter => x.candidate = y.candidate
    BY DEF ElectionInv, BallotInv
  <2> QED
    BY <2>1, <2>2 DEF BallotInv, Bound
<1>4. LeaderInv'
  <2>1. ASSUME NEW l \in leaders
        PROVE  Bound(l.id, l.term, l.id)'
    <3>1. /\ Bound(l.id, l.term, l.id) /\ l.id \in Server /\ l.term \in Nat
          /\ l = [term |-> l.term, id |-> l.id]
      BY <1>1 DEF ElectionInv, LeaderInv
    <3> QED
      BY <1>2, <3>1
  <2> QED
    BY <2>1 DEF ElectionInv, LeaderInv, Bound
<1>5. ElectionSafety'
  BY DEF ElectionInv, ElectionSafety
<1> QED
  BY <1>3, <1>4, <1>5

\* A node that starts an election enters a term it has not voted in.
LEMMA RunElectionElection ==
  ASSUME StaticCluster, ElectionInv, RaftInv', NEW i \in Server, RunElection(i)
  PROVE  ElectionInv'
<1>1. /\ currentTerm \in [Server -> Nat] /\ votes \in [Server -> SUBSET [term : Nat, from : Server]]
      /\ votedFor \in [Server -> Server \cup {None}]
      /\ role \in [Server -> {"Follower", "Candidate", "Leader"}]
  BY DEF ElectionInv, RaftInv, TypeOK
<1>2. /\ currentTerm' = [currentTerm EXCEPT ![i] = @ + 1]
      /\ role' = [role EXCEPT ![i] = "Candidate"]
      /\ votedFor' = [votedFor EXCEPT ![i] = i]
      /\ \/ votes' = [votes EXCEPT ![i] = {}]
         \/ votes' = [votes EXCEPT ![i] = {[term |-> currentTerm[i] + 1, from |-> i]}]
      /\ UNCHANGED <<ballots, leaders, replies>>
  BY DEF RunElection
<1>3. BallotInv' /\ LeaderInv' /\ ElectionSafety'
  <2>1. /\ currentTerm[i] \in Nat /\ currentTerm'[i] \in Nat
        /\ currentTerm'[i] > currentTerm[i]
    BY <1>1, <1>2
  <2>2. \A j \in Server : j # i => /\ currentTerm'[j] = currentTerm[j]
                                   /\ votedFor'[j] = votedFor[j]
    BY <1>1, <1>2
  <2> QED
    BY <1>2, <2>1, <2>2, MovedVote
<1>4. RoleInv'
  <2>1. i \in Bootstrap
    BY DEF RunElection, ElectionInv, Fixed, Voters
  <2> QED
    BY <1>1, <1>2, <2>1 DEF ElectionInv, RoleInv
<1>5. CastInv'
  BY <1>1, <1>2 DEF ElectionInv, CastInv
<1>6. NetInv'
  <2> DEFINE ask(p) == [type |-> "RequestVote", from |-> i, to |-> p, live |-> TRUE,
                        term |-> currentTerm[i] + 1, lastIndex |-> LastIndex(st[i]),
                        lastTerm |-> LastTerm(st[i])]
  <2>1. net' = net \cup {ask(p) : p \in st[i].members \ {i}}
    BY DEF RunElection
  <2>2. \A p \in st[i].members \ {i} :
          ask(p).type = "RequestVote" /\ ask(p).from # ask(p).to
    OBVIOUS
  <2> HIDE DEF ask
  <2>3. ASSUME NEW m \in net', m \notin net
        PROVE  m.type = "RequestVote" /\ m.from # m.to
    BY <2>1, <2>2, <2>3
  <2> QED
    BY <1>2, <2>3 DEF ElectionInv, NetInv
<1>7. \A j \in Server : Fixed(j, st'[j])
  BY ElectionStepFixed
<1> QED
  BY <1>3, <1>4, <1>5, <1>6, <1>7 DEF ElectionInv

\* A candidate or leader that hears from the leader of its own term is not
\* the one that was elected in it.
LEMMA HandleAppendEntriesElection ==
  ASSUME StaticCluster, ElectionInv, RaftInv', NEW m \in net, HandleAppendEntries(m)
  PROVE  ElectionInv'
<1> DEFINE i == m.to
<1>1. /\ currentTerm \in [Server -> Nat]
      /\ votedFor \in [Server -> Server \cup {None}]
      /\ role \in [Server -> {"Follower", "Candidate", "Leader"}]
      /\ m \in Request
  BY SoundNode DEF ElectionInv, RaftInv, TypeOK
<1>2. i \in Server /\ m.term \in Nat /\ m.from \in Server
  BY <1>1, RequestFields
<1>3. /\ UNCHANGED <<votes, ballots, leaders>> /\ net' \subseteq net
      /\ m.type = "AppendEntries"
  BY DEF HandleAppendEntries, tickVars, history
<1>4. [term |-> m.term, id |-> m.from] \in leaders /\ m.from # i
  BY <1>3 DEF ElectionInv, NetInv
<1>5. \/ UNCHANGED <<currentTerm, votedFor, role>>
      \/ /\ currentTerm' = [currentTerm EXCEPT ![i] = m.term]
         /\ votedFor' = [votedFor EXCEPT ![i] = None]
         /\ role' = [role EXCEPT ![i] = "Follower"]
         /\ m.term > currentTerm[i] \/ (m.term = currentTerm[i] /\ role[i] # "Follower")
  BY <1>1, <1>2 DEF HandleAppendEntries, BecomeFollower, voteVars
<1>6. [term |-> m.term, id |-> i] \notin leaders
  BY <1>4 DEF ElectionInv, ElectionSafety
<1>7. BallotInv' /\ LeaderInv' /\ ElectionSafety'
  <2>1. \A j \in Server : j # i => /\ currentTerm'[j] = currentTerm[j]
                                   /\ votedFor'[j] = votedFor[j]
    BY <1>1, <1>5
  <2>2. currentTerm[i] \in Nat /\ currentTerm'[i] \in Nat
    BY <1>1, <1>2, <1>5
  <2>3. \/ currentTerm'[i] > currentTerm[i]
        \/ /\ currentTerm'[i] = currentTerm[i]
           /\ \/ votedFor'[i] = votedFor[i]
              \/ /\ votedFor[i] = i
                 /\ [term |-> currentTerm[i], id |-> i] \notin leaders
    BY <1>1, <1>2, <1>5, <1>6 DEF ElectionInv, RoleInv
  <2> QED
    BY <1>2, <1>3, <2>1, <2>2, <2>3, MovedVote
<1>8. RoleInv'
  BY <1>1, <1>3, <1>5 DEF ElectionInv, RoleInv
<1>9. CastInv'
  <2>1. \/ replies' = replies
        \/ \E n : Answer(m, currentTerm'[i], FALSE, n)
    BY DEF HandleAppendEntries
  <2>2. \A r \in replies' : r.type = "RequestVote" => r \in replies
    BY <1>3, <2>1, AnswerNoVote
  <2> QED
    BY <1>3, <2>2 DEF ElectionInv, CastInv
<1>10. NetInv'
  BY <1>3 DEF ElectionInv, NetInv
<1>11. \A j \in Server : Fixed(j, st'[j])
  BY RequestStepFixed
<1> QED
  BY <1>7, <1>8, <1>9, <1>10, <1>11 DEF ElectionInv

\* A node that steps down enters a term it has not voted in.
LEMMA StepDownElection ==
  ASSUME StaticCluster, ElectionInv, RaftInv', NEW r \in replies, StepDown(r)
  PROVE  ElectionInv'
<1> DEFINE i == r.to
<1>1. /\ currentTerm \in [Server -> Nat]
      /\ votedFor \in [Server -> Server \cup {None}]
      /\ role \in [Server -> {"Follower", "Candidate", "Leader"}]
      /\ i \in Server /\ r.term \in Nat
  BY DEF ElectionInv, RaftInv, TypeOK, Reply
<1>2. /\ currentTerm' = [currentTerm EXCEPT ![i] = r.term]
      /\ votedFor' = [votedFor EXCEPT ![i] = None]
      /\ role' = [role EXCEPT ![i] = "Follower"]
      /\ r.term > currentTerm[i]
      /\ UNCHANGED <<votes, ballots, leaders, net>> /\ replies' \subseteq replies
  BY DEF StepDown, Take, BecomeFollower
<1>3. BallotInv' /\ LeaderInv' /\ ElectionSafety'
  <2>1. \A j \in Server : j # i => /\ currentTerm'[j] = currentTerm[j]
                                   /\ votedFor'[j] = votedFor[j]
    BY <1>1, <1>2
  <2>2. /\ currentTerm[i] \in Nat /\ currentTerm'[i] \in Nat
        /\ currentTerm'[i] > currentTerm[i]
    BY <1>1, <1>2
  <2> QED
    BY <1>1, <1>2, <2>1, <2>2, MovedVote
<1>4. RoleInv'
  BY <1>1, <1>2 DEF ElectionInv, RoleInv
<1>5. CastInv'
  BY <1>2 DEF ElectionInv, CastInv
<1>6. NetInv'
  BY <1>2 DEF ElectionInv, NetInv
<1>7. \A j \in Server : Fixed(j, st'[j])
  BY ReplyStepFixed
<1> QED
  BY <1>3, <1>4, <1>5, <1>6, <1>7 DEF ElectionInv

\* A node grants a vote only if it gave no other in that term, and never if it
\* was elected in it.
LEMMA HandleRequestVoteElection ==
  ASSUME StaticCluster, ElectionInv, RaftInv', NEW m \in net, HandleRequestVote(m)
  PROVE  ElectionInv'
<1> DEFINE i == m.to
           b0 == Ballot(m.term, i, m.from)
<1>1. /\ currentTerm \in [Server -> Nat]
      /\ votedFor \in [Server -> Server \cup {None}]
      /\ role \in [Server -> {"Follower", "Candidate", "Leader"}]
      /\ ballots \subseteq [term : Nat, voter : Server, candidate : Server]
      /\ leaders \subseteq [term : Nat, id : Server]
      /\ m \in Request
  BY SoundNode DEF ElectionInv, RaftInv, TypeOK
<1>2. i \in Server /\ m.term \in Nat /\ m.from \in Server /\ m.from # i
  BY <1>1, RequestFields DEF ElectionInv, NetInv
<1>3. None \notin Server
  BY ServerAssumption
<1>4. /\ UNCHANGED <<votes, leaders>> /\ net' \subseteq net
      /\ m.type = "RequestVote"
  BY DEF HandleRequestVote, tickVars
<1>5. PICK grant \in BOOLEAN :
         /\ Answer(m, currentTerm'[i], grant, 0)
         /\ ballots' = IF grant THEN ballots \cup {b0} ELSE ballots
         /\ grant => /\ votedFor' = [votedFor EXCEPT ![i] = m.from]
                     /\ currentTerm' = [currentTerm EXCEPT ![i] = m.term]
                     /\ \/ m.term > currentTerm[i]
                        \/ m.term = currentTerm[i] /\ votedFor[i] \in {None, m.from}
         /\ ~grant => \/ UNCHANGED <<currentTerm, votedFor>>
                      \/ /\ currentTerm' = [currentTerm EXCEPT ![i] = m.term]
                         /\ votedFor' = [votedFor EXCEPT ![i] = None]
                         /\ m.term > currentTerm[i]
         /\ \/ role' = role /\ currentTerm' = currentTerm
               /\ (votedFor' = votedFor \/ votedFor[i] \in {None, m.from})
            \/ role' = [role EXCEPT ![i] = "Follower"]
  <2> DEFINE deaf == \/ st[i].removed \/ i \notin st[i].members
                     \/ m.term < currentTerm[i]
             newer == m.term > currentTerm[i]
             g == ~deaf /\ CanVote(i, m) /\ UpToDate(st[i], m.lastIndex, m.lastTerm)
  <2>1. /\ Answer(m, currentTerm'[i], g, 0)
        /\ ballots' = IF g THEN ballots \cup {b0} ELSE ballots
    BY DEF HandleRequestVote, Ballot
  <2>2. /\ currentTerm' = [currentTerm EXCEPT ![i] = IF ~deaf /\ newer THEN m.term ELSE @]
        /\ role' = [role EXCEPT ![i] = IF ~deaf /\ newer THEN "Follower" ELSE @]
        /\ votedFor' = [votedFor EXCEPT ![i] = CASE g -> m.from
                                                 [] ~g /\ ~deaf /\ newer -> None
                                                 [] OTHER -> @]
    BY DEF HandleRequestVote
  <2>3. /\ g => ~deaf /\ (newer \/ votedFor[i] \in {None, m.from})
        /\ ~deaf => m.term >= currentTerm[i]
    BY <1>1, <1>2 DEF CanVote
  <2>4. g \in BOOLEAN /\ deaf \in BOOLEAN
    OBVIOUS
  <2> HIDE DEF g, deaf
  <2>5. CASE g
    <3>1. /\ votedFor' = [votedFor EXCEPT ![i] = m.from]
          /\ \/ m.term > currentTerm[i]
             \/ m.term = currentTerm[i] /\ votedFor[i] \in {None, m.from}
      BY <1>1, <1>2, <2>2, <2>3, <2>5
    <3>2. currentTerm' = [currentTerm EXCEPT ![i] = m.term]
      <4>1. ~deaf
        BY <2>3, <2>5
      <4>2. (IF ~deaf /\ newer THEN m.term ELSE currentTerm[i]) = m.term
        BY <1>1, <1>2, <2>3, <4>1
      <4> QED
        BY <1>1, <2>2, <4>2
    <3>3. \/ role' = role /\ currentTerm' = currentTerm
             /\ votedFor[i] \in {None, m.from}
          \/ role' = [role EXCEPT ![i] = "Follower"]
      BY <1>1, <1>2, <2>2, <2>3, <2>5
    <3> QED
      BY <2>1, <2>5, <3>1, <3>2, <3>3
  <2>6. CASE ~g
    <3>1. CASE ~deaf /\ newer
      <4>1. /\ currentTerm' = [currentTerm EXCEPT ![i] = m.term]
            /\ votedFor' = [votedFor EXCEPT ![i] = None]
            /\ role' = [role EXCEPT ![i] = "Follower"]
        BY <2>2, <2>6, <3>1
      <4> QED
        BY <2>1, <2>4, <2>6, <3>1, <4>1, Zenon
    <3>2. CASE ~(~deaf /\ newer)
      <4>1. currentTerm' = currentTerm /\ votedFor' = votedFor /\ role' = role
        BY <1>1, <1>2, <2>2, <2>6, <3>2
      <4> QED
        BY <2>1, <2>4, <2>6, <4>1, Zenon
    <3> QED
      BY <3>1, <3>2
  <2> QED
    BY <2>4, <2>5, <2>6
<1>6. RoleInv'
  BY <1>1, <1>2, <1>3, <1>4, <1>5 DEF ElectionInv, RoleInv
<1>7. NetInv'
  BY <1>4 DEF ElectionInv, NetInv
<1>8. CastInv'
  <2>1. ballots \subseteq ballots'
    BY <1>5
  <2>2. \A r \in replies' : r \in replies \/
          (r.sent = m.term /\ r.from = i /\ r.to = m.from /\ r.ok = grant)
    BY <1>5 DEF Answer
  <2>3. grant => b0 \in ballots'
    BY <1>5
  <2> QED
    BY <1>4, <2>1, <2>2, <2>3 DEF ElectionInv, CastInv
<1>9. BallotInv' /\ LeaderInv' /\ ElectionSafety'
  <2>1. CASE ~grant
    <3>1. \A j \in Server : j # i => /\ currentTerm'[j] = currentTerm[j]
                                     /\ votedFor'[j] = votedFor[j]
      BY <1>1, <1>5, <2>1
    <3>2. currentTerm[i] \in Nat /\ currentTerm'[i] \in Nat
      BY <1>1, <1>2, <1>5, <2>1
    <3>3. \/ currentTerm'[i] > currentTerm[i]
          \/ currentTerm'[i] = currentTerm[i] /\ votedFor'[i] = votedFor[i]
      BY <1>1, <1>2, <1>5, <2>1
    <3> QED
      BY <1>2, <1>4, <1>5, <2>1, <3>1, <3>2, <3>3, MovedVote
  <2>2. CASE grant
    <3>1. /\ \A j \in Server : j # i => /\ currentTerm'[j] = currentTerm[j]
                                        /\ votedFor'[j] = votedFor[j]
          /\ currentTerm'[i] = m.term /\ votedFor'[i] = m.from
          /\ currentTerm[i] \in Nat
          /\ \/ m.term > currentTerm[i]
             \/ m.term = currentTerm[i] /\ votedFor[i] \in {None, m.from}
      BY <1>1, <1>2, <1>5, <2>2
    <3>2. ASSUME NEW j \in Server, NEW t \in Nat, NEW c \in Server, Bound(j, t, c)
          PROVE  Bound(j, t, c)'
      BY <1>1, <1>2, <1>3, <3>1, <3>2 DEF Bound
    <3>3. ASSUME NEW c \in Server, Bound(i, m.term, c)
          PROVE  c = m.from
      BY <1>2, <1>3, <3>1, <3>3 DEF Bound
    <3>4. ballots' = ballots \cup {b0} /\ leaders' = leaders
      BY <1>4, <1>5, <2>2
    <3>5. Bound(i, m.term, m.from)' /\ b0.voter = i /\ b0.term = m.term
           /\ b0.candidate = m.from
      BY <3>1 DEF Bound, Ballot
    <3>6. \A b \in ballots : /\ b.voter \in Server /\ b.term \in Nat
                             /\ b.candidate \in Server /\ b.voter # b.candidate
                             /\ Bound(b.voter, b.term, b.candidate)
      BY <1>1 DEF ElectionInv, BallotInv
    <3> HIDE DEF b0, i
    <3>7. BallotInv'
      <4>1. \A b \in ballots' : /\ b.voter # b.candidate
                                /\ Bound(b.voter, b.term, b.candidate)'
        BY <1>2, <3>2, <3>4, <3>5, <3>6
      <4>2. \A b \in ballots : b.term = m.term /\ b.voter = i => b.candidate = m.from
        BY <3>3, <3>6
      <4>3. \A x, y \in ballots' :
              x.term = y.term /\ x.voter = y.voter => x.candidate = y.candidate
        BY <3>4, <3>5, <4>2 DEF ElectionInv, BallotInv
      <4> QED
        BY <4>1, <4>3 DEF BallotInv, Bound
    <3>8. LeaderInv'
      <4>1. \A l \in leaders : /\ l.id \in Server /\ l.term \in Nat
                               /\ Bound(l.id, l.term, l.id)
        BY <1>1 DEF ElectionInv, LeaderInv
      <4>2. \A l \in leaders : Bound(l.id, l.term, l.id)'
        BY <3>2, <4>1
      <4>3. \A l \in leaders, b \in ballots' : b.term = l.term => b.voter # l.id
        <5>1. \A l \in leaders : l.term = m.term => l.id # i
          BY <1>2, <3>3, <4>1
        <5> QED
          BY <3>4, <3>5, <5>1 DEF ElectionInv, LeaderInv
      <4>4. \A l \in leaders : \E Q \in SUBSET Bootstrap :
              /\ 2 * Cardinality(Q) > Cardinality(Bootstrap)
              /\ \A j \in Q : j # l.id => Ballot(l.term, j, l.id) \in ballots'
        BY <3>4 DEF ElectionInv, LeaderInv
      <4> QED
        BY <3>4, <4>2, <4>3, <4>4 DEF LeaderInv, Bound
    <3>9. ElectionSafety'
      BY <3>4 DEF ElectionInv, ElectionSafety
    <3> QED
      BY <3>7, <3>8, <3>9
  <2> QED
    BY <2>1, <2>2
<1>10. \A j \in Server : Fixed(j, st'[j])
  BY RequestStepFixed
<1> QED
  BY <1>6, <1>7, <1>8, <1>9, <1>10 DEF ElectionInv

\* A counted vote is one that was cast in the term it is counted for.
LEMMA RecordVoteElection ==
  ASSUME StaticCluster, ElectionInv, RaftInv', NEW r \in replies, RecordVote(r)
  PROVE  ElectionInv'
<1>1. /\ UNCHANGED <<currentTerm, votedFor, role, ballots, leaders, net>>
      /\ replies' \subseteq replies
      /\ r.type = "RequestVote" /\ r.to \in Server
      /\ votes \in [Server -> SUBSET [term : Nat, from : Server]]
  BY DEF RecordVote, Take, voteVars, ElectionInv, RaftInv, TypeOK, Reply
<1>2. \A i \in Server : \A v \in votes'[i] :
        \/ v \in votes[i]
        \/ i = r.to /\ r.ok /\ v = [term |-> r.sent, from |-> r.from]
  BY <1>1 DEF RecordVote
<1>3. CastInv'
  <2>1. CastInv
    BY DEF ElectionInv
  <2>2. \A q \in replies' : q.type = "RequestVote" /\ q.ok =>
          Ballot(q.sent, q.from, q.to) \in ballots'
    BY <1>1, <2>1 DEF CastInv
  <2>3. ASSUME NEW i \in Server, NEW v \in votes'[i], v.from # i
        PROVE  Ballot(v.term, v.from, i) \in ballots'
    <3>1. CASE v \in votes[i]
      BY <1>1, <2>1, <2>3, <3>1 DEF CastInv
    <3>2. CASE i = r.to /\ r.ok /\ v = [term |-> r.sent, from |-> r.from]
      <4>1. Ballot(r.sent, r.from, r.to) \in ballots
        BY <1>1, <2>1, <3>2 DEF CastInv
      <4>2. v.term = r.sent /\ v.from = r.from
        BY <3>2
      <4> QED
        BY <1>1, <3>2, <4>1, <4>2
    <3> QED
      BY <1>2, <3>1, <3>2
  <2> QED
    BY <2>2, <2>3 DEF CastInv, Ballot
<1>4. NetInv' /\ RoleInv'
  BY <1>1 DEF ElectionInv, NetInv, RoleInv
<1>5. BallotInv' /\ LeaderInv' /\ ElectionSafety'
  BY <1>1 DEF ElectionInv, BallotInv, LeaderInv, ElectionSafety, Bound
<1>6. \A j \in Server : Fixed(j, st'[j])
  BY ReplyStepFixed
<1> QED
  BY <1>3, <1>4, <1>5, <1>6 DEF ElectionInv

\* A candidate that counts a quorum has the votes of a majority of the voters.
LEMMA WonByMajority ==
  ASSUME NEW i \in Bootstrap, NEW granted \in SUBSET Bootstrap,
         Cardinality(granted \ {i}) + 1 >= Quorum(Bootstrap)
  PROVE  /\ (granted \ {i}) \cup {i} \in SUBSET Bootstrap
         /\ 2 * Cardinality((granted \ {i}) \cup {i}) > Cardinality(Bootstrap)
<1>1. IsFiniteSet(Bootstrap)
  BY ServerAssumption, FS_Subset
<1>2. Cardinality(Bootstrap) \in Nat
  BY <1>1, FS_CardinalityType
<1> DEFINE others == granted \ {i}
<1>3. IsFiniteSet(others)
  BY <1>1, FS_Subset
<1>4. Cardinality(others) \in Nat
  BY <1>3, FS_CardinalityType
<1>5. Cardinality(others \cup {i}) = Cardinality(others) + 1
  BY <1>3, FS_AddElement
<1> QED
  BY <1>2, <1>4, <1>5 DEF Quorum

\* Two leaders of a term would share a voter, which gave only one of them its
\* vote; so the candidate that wins is the only leader of its term.
LEMMA FinishElectionElection ==
  ASSUME StaticCluster, ElectionInv, RaftInv', NEW i \in Server, FinishElection(i)
  PROVE  ElectionInv'
<1> DEFINE ct == currentTerm[i]
           new == [term |-> ct, id |-> i]
           granted == {p \in st[i].members \cup {i} :
                         [term |-> ct, from |-> p] \in votes[i]}
           won == /\ role[i] = "Candidate" /\ granted # {}
                  /\ Cardinality(granted \ {i}) + 1 >= Quorum(st[i].members)
<1>1. /\ currentTerm \in [Server -> Nat]
      /\ role \in [Server -> {"Follower", "Candidate", "Leader"}]
      /\ votes \in [Server -> SUBSET [term : Nat, from : Server]]
      /\ ballots \subseteq [term : Nat, voter : Server, candidate : Server]
      /\ leaders \subseteq [term : Nat, id : Server]
  BY DEF ElectionInv, RaftInv, TypeOK
<1>2. /\ UNCHANGED <<currentTerm, votedFor, ballots, net, replies>>
      /\ votes' = [votes EXCEPT ![i] = {}]
  BY DEF FinishElection, rpcVars
<1>3. \/ UNCHANGED <<role, leaders>>
      \/ /\ won
         /\ role' = [role EXCEPT ![i] = "Leader"]
         /\ leaders' = leaders \cup {new}
  BY DEF FinishElection
<1>4. CastInv'
  <2>1. \A j \in Server : votes'[j] \subseteq votes[j]
    BY <1>1, <1>2
  <2> QED
    BY <1>2, <2>1 DEF ElectionInv, CastInv
<1>5. NetInv'
  BY <1>2, <1>3 DEF ElectionInv, NetInv
<1>6. RoleInv'
  BY <1>1, <1>2, <1>3 DEF ElectionInv, RoleInv
<1>7. BallotInv'
  BY <1>2 DEF ElectionInv, BallotInv, Bound
<1>8. CASE UNCHANGED <<role, leaders>>
  <2>1. LeaderInv' /\ ElectionSafety'
    BY <1>2, <1>8 DEF ElectionInv, LeaderInv, ElectionSafety, Bound
  <2> QED
    BY <1>4, <1>5, <1>6, <1>7, <2>1, ElectionStepFixed DEF ElectionInv
<1>9. CASE won /\ leaders' = leaders \cup {new}
  <2> DEFINE Q == (granted \ {i}) \cup {i}
  <2>1. i \in Bootstrap /\ votedFor[i] = i /\ st[i].members = Bootstrap
    BY <1>9 DEF ElectionInv, RoleInv, Fixed, Voters
  <2>2. granted \in SUBSET Bootstrap
    BY <2>1
  <2>3. Cardinality(granted \ {i}) + 1 >= Quorum(Bootstrap)
    BY <1>9, <2>1
  <2>4. \A j \in Q : j # i => Ballot(ct, j, i) \in ballots
    BY DEF ElectionInv, CastInv
  <2>5. ct \in Nat /\ new.term = ct /\ new.id = i
    BY <1>1
  <2> HIDE DEF granted
  <2>6. Q \in SUBSET Bootstrap /\ 2 * Cardinality(Q) > Cardinality(Bootstrap)
    BY <2>1, <2>2, <2>3, WonByMajority
  <2> HIDE DEF Q, new, won
  <2>7. \A b \in ballots : b.term = ct => b.voter # i
    BY <2>1, <2>5 DEF ElectionInv, BallotInv, Bound
  <2>8. LeaderInv'
    <3>1. Bound(i, ct, i)'
      BY <1>2, <2>1 DEF Bound
    <3>2. \A l \in leaders' : Bound(l.id, l.term, l.id)'
      BY <1>2, <1>9, <2>5, <3>1 DEF ElectionInv, LeaderInv, Bound
    <3>3. \A l \in leaders', b \in ballots' : b.term = l.term => b.voter # l.id
      BY <1>2, <1>9, <2>5, <2>7 DEF ElectionInv, LeaderInv
    <3>4. \A l \in leaders' : \E P \in SUBSET Bootstrap :
            /\ 2 * Cardinality(P) > Cardinality(Bootstrap)
            /\ \A j \in P : j # l.id => Ballot(l.term, j, l.id) \in ballots'
      BY <1>2, <1>9, <2>4, <2>5, <2>6 DEF ElectionInv, LeaderInv
    <3> QED
      BY <3>2, <3>3, <3>4 DEF LeaderInv, Bound
  <2>9. ASSUME NEW l \in leaders, l.term = ct
        PROVE  l.id = i
    <3>1. PICK P \in SUBSET Bootstrap :
            /\ 2 * Cardinality(P) > Cardinality(Bootstrap)
            /\ \A j \in P : j # l.id => Ballot(l.term, j, l.id) \in ballots
      BY DEF ElectionInv, LeaderInv
    <3>2. IsFiniteSet(Bootstrap)
      BY ServerAssumption, FS_Subset
    <3>3. IsFiniteSet(P) /\ IsFiniteSet(Q)
      BY <2>6, <3>2, FS_Subset
    <3>4. Cardinality(P) \in Nat /\ Cardinality(Q) \in Nat
           /\ Cardinality(Bootstrap) \in Nat
      BY <3>2, <3>3, FS_CardinalityType
    <3>5. Cardinality(P) + Cardinality(Q) > Cardinality(Bootstrap)
      BY <2>6, <3>1, <3>4
    <3>6. PICK j \in P \cap Q : TRUE
      BY <2>6, <3>2, <3>5, FS_MajoritiesIntersect
    <3>7. j # i => Ballot(ct, j, i) \in ballots
      BY <2>4, <3>6
    <3>8. j # l.id => Ballot(ct, j, l.id) \in ballots
      BY <2>9, <3>1, <3>6
    <3>9. \A c : /\ Ballot(ct, j, c).term = ct /\ Ballot(ct, j, c).voter = j
                 /\ Ballot(ct, j, c).candidate = c
      BY DEF Ballot
    <3>10. CASE j = i
      BY <2>7, <3>8, <3>9, <3>10
    <3>11. CASE j # i /\ j = l.id
      BY <2>9, <3>7, <3>9, <3>11 DEF ElectionInv, LeaderInv
    <3>12. CASE j # i /\ j # l.id
      <4>1. \A a, b \in ballots :
              a.term = b.term /\ a.voter = b.voter => a.candidate = b.candidate
        BY DEF ElectionInv, BallotInv
      <4>2. Ballot(ct, j, i) \in ballots /\ Ballot(ct, j, l.id) \in ballots
        BY <3>7, <3>8, <3>12
      <4>3. Ballot(ct, j, i).candidate = Ballot(ct, j, l.id).candidate
        BY <3>9, <4>1, <4>2
      <4> QED
        BY <3>9, <4>3
    <3> QED
      BY <3>10, <3>11, <3>12
  <2>10. ElectionSafety'
    BY <1>9, <2>5, <2>9 DEF ElectionInv, ElectionSafety
  <2> QED
    BY <1>4, <1>5, <1>6, <1>7, <2>8, <2>10, ElectionStepFixed DEF ElectionInv
<1> QED
  BY <1>3, <1>8, <1>9

-----------------------------------------------------------------------------
(* One leader per term *)

\* Nobody has voted or been elected initially.
LEMMA InitElection == StaticCluster /\ Init => ElectionInv
<1> SUFFICES ASSUME StaticCluster, Init
             PROVE  ElectionInv
  OBVIOUS
<1>1. \A i \in Server : Fixed(i, st[i])
  BY DEF Init, InitNode, Fixed, Voters
<1>2. NetInv /\ CastInv /\ RoleInv
  BY DEF Init, NetInv, CastInv, RoleInv
<1>3. BallotInv /\ LeaderInv /\ ElectionSafety
  BY DEF Init, BallotInv, LeaderInv, ElectionSafety
<1> QED
  BY <1>1, <1>2, <1>3, InitInv DEF ElectionInv

\* Snapshots are never sent and restarts never happen in a static cluster; the
\* other steps are the lemmas above.
LEMMA NextElection == StaticCluster /\ ElectionInv /\ [Next]_vars => ElectionInv'
<1> SUFFICES ASSUME StaticCluster, ElectionInv, [Next]_vars
             PROVE  ElectionInv'
  OBVIOUS
<1>1. RaftInv'
  BY NextInv DEF ElectionInv
<1>2. ASSUME NEW i \in Server, RunElection(i) \/ FinishElection(i)
      PROVE  ElectionInv'
  BY <1>1, <1>2, RunElectionElection, FinishElectionElection
<1>3. ASSUME NEW i \in Server, BeginFlush(i) \/ EndFlush(i) \/ Heartbeat(i)
      PROVE  ElectionInv'
  BY <1>1, <1>3, ProposalStepElection
<1>4. ASSUME NEW i \in Server, Restart(i)
      PROVE  FALSE
  <2>1. restarts < MaxRestarts
    BY <1>4 DEF Restart
  <2>2. restarts \in Nat /\ MaxRestarts = 0
    BY DEF StaticCluster, ElectionInv, RaftInv, TypeOK
  <2> QED
    BY <2>1, <2>2
<1>5. ASSUME NEW i \in Server, NEW c \in Value \cup Changes, Propose(i, c)
      PROVE  ElectionInv'
  BY <1>1, <1>5, ProposalStepElection
<1>6. ASSUME NEW m \in net, HandleRequestVote(m) \/ HandleAppendEntries(m)
      PROVE  ElectionInv'
  BY <1>1, <1>6, HandleRequestVoteElection, HandleAppendEntriesElection
<1>7. ASSUME NEW m \in net, HandleInstallSnapshot(m)
      PROVE  FALSE
  BY <1>7 DEF HandleInstallSnapshot, ElectionInv, NetInv
<1>8. ASSUME NEW w \in windows, AppendToLog(w) \/ FinishAppend(w)
      PROVE  ElectionInv'
  BY <1>1, <1>8, WindowStepElection
<1>9. ASSUME NEW r \in replies,
             \/ StepDown(r) \/ RecordVote(r) \/ AppendSucceeded(r)
             \/ AppendFailed(r) \/ SnapshotSucceeded(r) \/ IgnoreReply(r)
      PROVE  ElectionInv'
  BY <1>1, <1>9, StepDownElection, RecordVoteElection, ReplicationReplyElection
<1>10. ASSUME NEW i \in Server, NEW j \in Server, RpcFailed(i, j)
       PROVE  ElectionInv'
  BY <1>1, <1>10, FailureStepElection
<1>11. CASE UNCHANGED vars
  <2>1. NetInv' /\ CastInv' /\ RoleInv' /\ \A i \in Server : Fixed(i, st'[i])
    BY <1>11 DEF vars, voteVars, tickVars, rpcVars, history, ElectionInv,
                 NetInv, CastInv, RoleInv
  <2>2. BallotInv' /\ LeaderInv' /\ ElectionSafety'
    BY <1>11 DEF vars, voteVars, tickVars, rpcVars, history, ElectionInv,
                 BallotInv, LeaderInv, Bound, ElectionSafety
  <2> QED
    BY <1>1, <2>1, <2>2 DEF ElectionInv
<1> QED
  BY <1>2, <1>3, <1>4, <1>5, <1>6, <1>7, <1>8, <1>9, <1>10, <1>11 DEF Next

\* At most one node is elected leader in a term (start_election,
\* handle_request_vote, record_vote_granted), whatever the size of the cluster,
\* the proposals, the lost calls and the interleaving of the handlers, provided
\* the membership is fixed, no snapshot is taken and no node restarts.
THEOREM OneLeaderPerTerm == StaticCluster => (Spec => []ElectionSafety)
<1>1. ElectionInv => ElectionSafety
  BY DEF ElectionInv
<1>2. StaticCluster => (Spec => []ElectionInv)
  <2> SUFFICES ASSUME StaticCluster
               PROVE  Spec => []ElectionInv
    OBVIOUS
  <2>1. Init => ElectionInv
    BY InitElection
  <2>2. ElectionInv /\ [Next]_vars => ElectionInv'
    BY NextElection
  <2> QED
    BY <2>1, <2>2, PTL DEF Spec
<1> QED
  BY <1>1, <1>2, PTL

=============================================================================
