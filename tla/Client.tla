------------------------------- MODULE Client -------------------------------
(* The smart client (client.rs) against the client service of the nodes       *)
(* (client_service.rs).  Transactional clients run execute_txn with a body    *)
(* that reads one key and writes it back increased by one; a plain client     *)
(* puts the key blindly.  Raft is external: a log of committed writes, one    *)
(* real leader, nodes that still believe they lead, and replicas that apply   *)
(* the log at their own pace.                                                 *)
EXTENDS Integers, Sequences, SequencesExt, FiniteSets

CONSTANTS
    Nodes,
    TxnClients,   \* clients that call execute_txn
    PutClients,   \* clients that call put
    Casts,        \* the sets of clients that are run together
    MaxRoute,     \* MAX_ROUTE_ATTEMPTS
    MaxAttempts,  \* MAX_TXN_ATTEMPTS
    MaxFaults     \* failovers and lost replies, together, one fewer for each client running

VARIABLES
    raft,      \* the leader, the nodes that believe they lead, the log, what each node applied
    sessions,  \* open sessions of all nodes
    nextId,    \* node -> the next transaction id of its engine
    tasks,     \* commits and puts at work on a node
    cl,        \* client -> where its call stands
    odd,       \* history: the irregularities that have happened
    faults     \* history: faults so far

vars == <<raft, sessions, nextId, tasks, cl, odd, faults>>

PutValue == 100
Clients == TxnClients \union PutClients
NoNode == "none"

\* The version of the key at node n, and the value of a version.
Applied(n) == raft.applied[n]
ValueAt(v) == IF v = 0 THEN 0 ELSE raft.log[v].val

Start(c) == [pc |-> IF c \in TxnClients THEN "begin" ELSE "put", conn |-> NoNode,
             home |-> NoNode, id |-> 0, val |-> 0, route |-> 1, attempt |-> 1]

FaultsLeft == faults + Cardinality({c \in Clients : cl[c].pc # "absent"}) < MaxFaults

Init ==
    /\ LET n == CHOOSE n \in Nodes : TRUE
       IN raft = [leader |-> n, believers |-> {n}, log |-> <<>>,
                  applied |-> [m \in Nodes |-> 0]]
    /\ sessions = {}
    /\ nextId = [n \in Nodes |-> 1]
    /\ tasks = {}
    /\ \E cast \in Casts :
         cl = [c \in Clients |-> IF c \in cast THEN Start(c) ELSE [Start(c) EXCEPT !.pc = "absent"]]
    /\ odd = {}
    /\ faults = 0

---------------------------------------------------------------------------
(* Routing: with_leader and discover_leader. *)

\* discover_leader: any node that answers a ping as leader, or none found.
Discovered == raft.believers \union {NoNode}

\* The connection with_leader uses: the cached one, else a discovered one.
Conn(c) == IF cl[c].conn # NoNode THEN {cl[c].conn} ELSE raft.believers

\* The call goes on to step pc over node n, with its route attempts reset.
Goto(c, n, pc) == [cl[c] EXCEPT !.conn = n, !.pc = pc, !.route = 1]

\* A retryable error: with_leader makes the request again over another
\* connection, until its attempts are used up; then execute_txn gives the
\* transaction up, and a put fails.
Request(c) == IF cl[c].pc # "waiting" THEN cl[c].pc
              ELSE IF c \in PutClients THEN "put" ELSE "commit"
GivenUp(c) == IF c \in PutClients THEN "failed" ELSE "abort"
Reroute(c, conns) ==
    \E conn \in conns :
      cl' = [cl EXCEPT ![c].conn = conn,
                       ![c].pc = IF cl[c].route < MaxRoute THEN Request(c) ELSE GivenUp(c),
                       ![c].route = IF @ < MaxRoute THEN @ + 1 ELSE 1]

\* No leader is known and none is discovered: the error ends with_leader at once.
NoLeaderFound(c) ==
    /\ cl[c].pc \in {"begin", "get", "write", "commit", "put"} /\ cl[c].conn = NoNode
    /\ FaultsLeft
    /\ cl' = [cl EXCEPT ![c].pc = GivenUp(c)]
    /\ faults' = faults + 1
    /\ UNCHANGED <<raft, sessions, nextId, tasks, odd>>

\* The node does not believe it leads: NotLeader.  It names the leader it knows of,
\* any node, which the client takes on trust if it can connect to it.
Hinted == Nodes \union {NoNode}
NotLeader(c) ==
    \E n \in Conn(c) :
      /\ cl[c].pc \in {"begin", "get", "write", "commit", "put"}
      /\ n \notin raft.believers
      /\ Reroute(c, Hinted)
      /\ UNCHANGED <<raft, sessions, nextId, tasks, odd, faults>>

\* Identifies one request of a client among its retries.
Try(c) == <<cl[c].attempt, cl[c].route>>

\* The session a transaction id names at node n.  Ids are per node: at a node other
\* than the one that began the transaction the id names another session, of
\* another client or of this client's own lost begin.
SessionAt(n, id) == {s \in sessions : s.node = n /\ s.id = id}
Mixed(c, S) == IF \E s \in S : s.node # cl[c].home THEN {"mixed"} ELSE {}

---------------------------------------------------------------------------
(* The transaction: begin, get, put, commit, abort. *)

\* begin_txn; with ~ok the reply is lost, and the client begins again elsewhere.
Begin(c, ok) ==
    \E n \in Conn(c) :
      /\ cl[c].pc = "begin" /\ n \in raft.believers
      /\ sessions' = sessions \union {[node |-> n, id |-> nextId[n],
                                       snap |-> Applied(n), val |-> 0]}
      /\ nextId' = [nextId EXCEPT ![n] = @ + 1]
      /\ IF ok THEN /\ cl' = [cl EXCEPT ![c] = [Goto(c, n, "get") EXCEPT !.id = nextId[n], !.home = n]]
                    /\ UNCHANGED faults
         ELSE Reroute(c, Discovered) /\ FaultsLeft /\ faults' = faults + 1
      /\ UNCHANGED <<raft, tasks, odd>>

\* txn_get reads the session's snapshot, txn_put writes what was read plus one;
\* both enter the key in the read set, at the snapshot's version.  A session's
\* val is what it has written, 0 if nothing.
Access(c, pc, next) ==
    \E n \in Conn(c) : \E s \in SessionAt(n, cl[c].id) :
      /\ cl[c].pc = pc /\ n \in raft.believers
      /\ sessions' = (sessions \ {s}) \union
           {[s EXCEPT !.val = IF pc = "write" THEN cl[c].val + 1 ELSE @]}
      /\ cl' = [cl EXCEPT ![c] = [Goto(c, n, next) EXCEPT
                  !.val = IF pc = "write" THEN @
                          ELSE IF s.val # 0 THEN s.val ELSE ValueAt(s.snap)]]
      /\ odd' = odd \union Mixed(c, {s})
      /\ UNCHANGED <<raft, nextId, tasks, faults>>
Get(c) == Access(c, "get", "write")
Put(c) == Access(c, "write", "commit")

\* The node has no session of that id: the client takes the answer for a network
\* error and reroutes.
UnknownTxn(c) ==
    \E n \in Conn(c) :
      /\ cl[c].pc \in {"get", "write", "commit"} /\ n \in raft.believers
      /\ SessionAt(n, cl[c].id) = {}
      /\ Reroute(c, Discovered)
      /\ UNCHANGED <<raft, sessions, nextId, tasks, odd, faults>>

\* txn_commit takes the session out of the node's table; one that has written
\* nothing is done ...
TakeSession(c) ==
    \E n \in Conn(c) : \E s \in SessionAt(n, cl[c].id) :
      /\ cl[c].pc = "commit" /\ n \in raft.believers
      /\ sessions' = sessions \ {s}
      /\ IF s.val = 0
         THEN cl' = [cl EXCEPT ![c] = Goto(c, n, "acked")] /\ UNCHANGED tasks
         ELSE /\ tasks' = tasks \union {[kind |-> "txn", client |-> c, node |-> n,
                                         try |-> Try(c), snap |-> s.snap,
                                         val |-> s.val, stage |-> "taken"]}
              /\ cl' = [cl EXCEPT ![c].pc = "waiting", ![c].conn = n]
      /\ odd' = odd \union Mixed(c, {s})
      /\ UNCHANGED <<raft, nextId, faults>>

\* A task's answer reaches its client if the client still waits for it.
Waits(k) == cl[k.client].pc = "waiting" /\ k.try = Try(k.client)

\* The commit lock of node n is held while a commit's proposal is outstanding and
\* its handler runs.  Stage "orphaned" is a proposal whose handler is gone.
CommitLocked(n) == \E j \in tasks : j.node = n /\ j.kind = "txn" /\ j.stage = "proposed"
Outstanding(k) == k.stage \in {"proposed", "orphaned"}

\* ... waits for the node's commit lock, checks leadership again ...
LostBeforePrepare(k) ==
    /\ k.stage = "taken" /\ k.node \notin raft.believers
    /\ ~CommitLocked(k.node)
    /\ tasks' = tasks \ {k}
    /\ IF Waits(k) THEN Reroute(k.client, Hinted) ELSE UNCHANGED cl
    /\ UNCHANGED <<raft, sessions, nextId, odd, faults>>

\* Another proposal is outstanding at the node that does not hold the commit lock,
\* or, for a put, any.
Competes(k) ==
    \E j \in tasks : j.node = k.node /\ Outstanding(j)
                     /\ (j.kind # k.kind \/ j.stage = "orphaned")

\* Mutant: the answer is sent with the proposal, before it commits.
PrepareAnswers(k) ==
    /\ k.stage = "taken" /\ k.node \in raft.believers /\ Applied(k.node) = k.snap
    /\ ~CommitLocked(k.node)
    /\ tasks' = (tasks \ {k}) \union {[k EXCEPT !.stage = "proposed"]}
    /\ cl' = IF Waits(k) THEN [cl EXCEPT ![k.client].pc = "acked"] ELSE cl
    /\ UNCHANGED <<raft, sessions, nextId, odd, faults>>

\* Mutant: the read set is not validated.
PrepareUnvalidated(k) ==
    /\ k.stage = "taken" /\ k.node \in raft.believers
    /\ ~CommitLocked(k.node)
    /\ tasks' = (tasks \ {k}) \union {[k EXCEPT !.stage = "proposed"]}
    /\ odd' = odd \union (IF Applied(k.node) < Len(raft.log) THEN {"behind"} ELSE {})
                  \union (IF Competes(k) THEN {"raced"} ELSE {})
    /\ UNCHANGED <<raft, sessions, nextId, cl, faults>>

\* ... validates the read set against the node's own store, and proposes.
Prepare(k) ==
    /\ k.stage = "taken" /\ k.node \in raft.believers
    /\ ~CommitLocked(k.node)
    /\ IF Applied(k.node) = k.snap
       THEN /\ tasks' = (tasks \ {k}) \union {[k EXCEPT !.stage = "proposed"]}
            /\ odd' = odd \union (IF Applied(k.node) < Len(raft.log) THEN {"behind"} ELSE {})
                          \union (IF Competes(k) THEN {"raced"} ELSE {})
            /\ UNCHANGED cl
       ELSE /\ tasks' = tasks \ {k}
            /\ IF Waits(k) THEN cl' = [cl EXCEPT ![k.client].pc = "retry"] ELSE UNCHANGED cl
            /\ UNCHANGED odd
    /\ UNCHANGED <<raft, sessions, nextId, faults>>

\* The service's put proposes without the commit lock.
ProposePut(c) ==
    \E n \in Conn(c) :
      LET k == [kind |-> "put", client |-> c, node |-> n, try |-> Try(c), snap |-> 0, val |-> PutValue, stage |-> "proposed"]
      IN /\ cl[c].pc = "put" /\ n \in raft.believers
         /\ tasks' = tasks \union {k}
         /\ cl' = [cl EXCEPT ![c].pc = "waiting", ![c].conn = n]
         /\ odd' = odd \union (IF Competes(k) THEN {"raced"} ELSE {})
         /\ UNCHANGED <<raft, sessions, nextId, faults>>

\* The proposal of the real leader commits and is applied there; the answer ends
\* the client's call.
Commit(k) ==
    /\ Outstanding(k) /\ k.node = raft.leader
    /\ raft' = [raft EXCEPT !.log = Append(@, k), !.applied[k.node] = Len(raft.log) + 1]
    /\ tasks' = tasks \ {k}
    /\ cl' = IF Waits(k) THEN [cl EXCEPT ![k.client].pc = "acked"] ELSE cl
    /\ UNCHANGED <<sessions, nextId, odd, faults>>

\* A proposal outstanding on a deposed leader is answered with a leadership error.
LeadershipLost(k) ==
    /\ Outstanding(k) /\ k.node \notin raft.believers
    /\ tasks' = tasks \ {k}
    /\ IF Waits(k) THEN Reroute(k.client, Hinted) ELSE UNCHANGED cl
    /\ UNCHANGED <<raft, sessions, nextId, odd, faults>>

\* The client's RPC times out while the node still works on the commit.
Timeout(c) ==
    /\ cl[c].pc = "waiting" /\ FaultsLeft
    /\ \E k \in tasks : k.client = c /\ Waits(k)
    /\ faults' = faults + 1
    /\ odd' = odd \union {"ambiguous"}
    /\ Reroute(c, Discovered)
    /\ UNCHANGED <<raft, sessions, nextId, tasks>>

\* The deadline travels with the request, so a commit's handler may be dropped once
\* its client has timed out: before it has the lock the commit is gone, after that
\* the lock is released and the proposal stays.  (A put holds nothing.)
Dropped(k) ==
    /\ k.kind = "txn" /\ k.stage # "orphaned" /\ ~Waits(k)
    /\ tasks' = (tasks \ {k}) \union
                 (IF k.stage = "proposed" THEN {[k EXCEPT !.stage = "orphaned"]} ELSE {})
    /\ UNCHANGED <<raft, sessions, nextId, cl, odd, faults>>

\* execute_txn gives the attempt up: abort by id at whatever node it is connected
\* to by now, forget the leader, and start over.
Again(c, conn) ==
    IF cl[c].attempt < MaxAttempts
    THEN [Start(c) EXCEPT !.attempt = cl[c].attempt + 1, !.conn = conn]
    ELSE [cl[c] EXCEPT !.pc = "failed"]

Abort(c) ==
    /\ cl[c].pc = "abort"
    /\ \E n \in Conn(c) \union {NoNode}, conn \in Discovered :
         LET S == IF cl[c].id = 0 THEN {} ELSE SessionAt(n, cl[c].id)
         IN /\ sessions' = sessions \ S
            /\ odd' = odd \union Mixed(c, S)
            /\ cl' = [cl EXCEPT ![c] = Again(c, conn)]
    /\ UNCHANGED <<raft, nextId, tasks, faults>>

\* After a conflict the transaction is run again over the same connection.
Retry(c) ==
    /\ cl[c].pc = "retry"
    /\ cl' = [cl EXCEPT ![c] = Again(c, cl[c].conn)]
    /\ UNCHANGED <<raft, sessions, nextId, tasks, odd, faults>>

---------------------------------------------------------------------------
(* Raft, as far as the service sees it. *)

\* Node n, which has answered what it had proposed in an earlier term, becomes the
\* real leader.  What the old leader had proposed may survive in n's log; the old
\* leader does not know yet.
Failover(n) ==
    /\ n \notin raft.believers /\ FaultsLeft
    /\ ~\E k \in tasks : k.node = n /\ Outstanding(k)
    /\ faults' = faults + 1
    /\ \E S \in {{}, {k \in tasks : k.node = raft.leader /\ Outstanding(k)}} :
         /\ raft' = [raft EXCEPT !.leader = n, !.believers = @ \union {n},
                                 !.log = @ \o SetToSeq(S)]
         /\ odd' = odd \union (IF S # {} THEN {"ambiguous"} ELSE {})
    /\ UNCHANGED <<sessions, nextId, tasks, cl>>

StepDown(n) ==
    /\ n \in raft.believers /\ n # raft.leader
    /\ raft' = [raft EXCEPT !.believers = @ \ {n}]
    /\ UNCHANGED <<sessions, nextId, tasks, cl, odd, faults>>

Apply(n) ==
    /\ Applied(n) < Len(raft.log)
    /\ raft' = [raft EXCEPT !.applied[n] = @ + 1]
    /\ UNCHANGED <<sessions, nextId, tasks, cl, odd, faults>>

Next ==
    \/ \E c \in Clients :
         \/ NoLeaderFound(c) \/ NotLeader(c) \/ Begin(c, TRUE) \/ Begin(c, FALSE)
         \/ Get(c) \/ Put(c) \/ UnknownTxn(c) \/ TakeSession(c) \/ ProposePut(c)
         \/ Timeout(c) \/ Abort(c) \/ Retry(c)
    \/ \E k \in tasks : LostBeforePrepare(k) \/ Prepare(k) \/ Commit(k) \/ LeadershipLost(k)
                          \/ Dropped(k)
    \/ \E n \in Nodes : Failover(n) \/ StepDown(n) \/ Apply(n)

---------------------------------------------------------------------------
(* Properties. *)

Applications(c) == Cardinality({i \in 1..Len(raft.log) : raft.log[i].client = c})

\* execute_txn is exactly-once as far as its client can tell, unless a request
\* reached the session of another transaction: an acknowledged transaction or put is in the
\* log; and when no answer was cut off (by a timeout, or by a failover that kept
\* the old leader's proposal), it is there once, and a call that is still
\* running or failed has left nothing.
AckedOnce ==
    "mixed" \notin odd =>
      \A c \in Clients :
        /\ cl[c].pc = "acked" => Applications(c) >= 1
        /\ "ambiguous" \notin odd =>
             Applications(c) = IF cl[c].pc = "acked" THEN 1 ELSE 0

\* No update is lost: a committed transaction read the value it replaced, over any
\* timeouts, lost answers, retries and failovers, unless two transactions shared a
\* session, a new leader validated before it had applied the whole log, or a
\* proposal was outstanding beside the commit lock (a plain put's, or that of a
\* commit whose handler was dropped).  In these three cases updates are lost.
NoLostUpdate ==
    odd \intersect {"mixed", "behind", "raced"} = {} =>
      \A i \in 1..Len(raft.log) : raft.log[i].kind = "txn" =>
        /\ raft.log[i].snap = i - 1
        /\ raft.log[i].val = ValueAt(i - 1) + 1
=============================================================================
