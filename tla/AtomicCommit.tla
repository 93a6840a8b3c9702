---------------------------- MODULE AtomicCommit ----------------------------
(***************************************************************************)
(* What a two-phase commit promises: a transaction is decided once every    *)
(* shard taking part has voted for it, a shard commits only what is         *)
(* decided, and discards only what is not and, its vote gone, never will    *)
(* be.                                                                      *)
(***************************************************************************)
CONSTANTS Transaction, Shard

VARIABLES
  decided,   \* transactions whose commit is decided
  standing   \* transaction -> shard -> where it stands there

Standings == {"out", "working", "prepared", "committed", "aborted"}

Init ==
  /\ decided = {}
  /\ standing = [t \in Transaction |-> [s \in Shard |-> "out"]]

\* The branches of a new transaction.
Begin(t) ==
  /\ t \notin decided /\ \A s \in Shard : standing[t][s] = "out"
  /\ \E branches \in SUBSET Shard :
       standing' = [standing EXCEPT ![t] =
         [s \in Shard |-> IF s \in branches THEN "working" ELSE "out"]]
  /\ UNCHANGED decided

Vote(t, s) ==
  /\ standing[t][s] = "working"
  /\ standing' = [standing EXCEPT ![t][s] = "prepared"]
  /\ UNCHANGED decided

Decide(t) ==
  /\ t \notin decided
  /\ \A s \in Shard : standing[t][s] \in {"out", "prepared"}
  /\ decided' = decided \cup {t}
  /\ UNCHANGED standing

Commit(t, s) ==
  /\ t \in decided /\ standing[t][s] = "prepared"
  /\ standing' = [standing EXCEPT ![t][s] = "committed"]
  /\ UNCHANGED decided

Discard(t, s) ==
  /\ t \notin decided /\ standing[t][s] = "prepared"
  /\ standing' = [standing EXCEPT ![t][s] = "aborted"]
  /\ UNCHANGED decided

Next ==
  \E t \in Transaction :
    \/ Begin(t) \/ Decide(t)
    \/ \E s \in Shard : Vote(t, s) \/ Commit(t, s) \/ Discard(t, s)

Spec == Init /\ [][Next]_<<decided, standing>>

\* No transaction is committed at one shard and discarded at another: what the
\* callers of TransactionCoordinator::execute are promised.
Agreement ==
  \A t \in Transaction : \A r, s \in Shard :
    ~(standing[t][r] = "committed" /\ standing[t][s] = "aborted")
=============================================================================
