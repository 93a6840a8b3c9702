------------------------- MODULE AtomicCommitProofs -------------------------
(***************************************************************************)
(* An atomic commit never ends half done, whatever the transactions and the *)
(* shards are.  TwoPC implements AtomicCommit, so this is what its           *)
(* coordinator and participants agree on.                                    *)
(***************************************************************************)
EXTENDS AtomicCommit, TLAPS

TypeOK ==
  /\ decided \subseteq Transaction
  /\ standing \in [Transaction -> [Shard -> Standings]]

\* Agreement is not inductive: it needs that a commit follows a decision, and
\* that a decision leaves every shard that takes part prepared or committed.
Sound ==
  /\ TypeOK
  /\ \A t \in Transaction : \A s \in Shard :
       /\ standing[t][s] = "committed" => t \in decided
       /\ t \in decided => standing[t][s] \in {"out", "prepared", "committed"}

LEMMA InitSound == Init => Sound
  BY DEF Init, Sound, TypeOK, Standings

\* Every step of AtomicCommit keeps Sound.
LEMMA NextSound == Sound /\ [Next]_<<decided, standing>> => Sound'
<1> SUFFICES ASSUME Sound, [Next]_<<decided, standing>>
             PROVE  Sound'
  OBVIOUS
<1>1. ASSUME NEW t \in Transaction, Begin(t)
      PROVE  Sound'
  <2>1. PICK branches \in SUBSET Shard :
          standing' = [standing EXCEPT ![t] =
            [s \in Shard |-> IF s \in branches THEN "working" ELSE "out"]]
    BY <1>1 DEF Begin
  <2>2. TypeOK'
    BY <1>1, <2>1 DEF Begin, Sound, TypeOK, Standings
  <2>3. QED
    BY <1>1, <2>1, <2>2 DEF Begin, Sound, TypeOK, Standings
<1>2. ASSUME NEW t \in Transaction, Decide(t)
      PROVE  Sound'
  BY <1>2 DEF Decide, Sound, TypeOK, Standings
<1>3. ASSUME NEW t \in Transaction, NEW s \in Shard, Vote(t, s)
      PROVE  Sound'
  BY <1>3 DEF Vote, Sound, TypeOK, Standings
<1>4. ASSUME NEW t \in Transaction, NEW s \in Shard, Commit(t, s)
      PROVE  Sound'
  BY <1>4 DEF Commit, Sound, TypeOK, Standings
<1>5. ASSUME NEW t \in Transaction, NEW s \in Shard, Discard(t, s)
      PROVE  Sound'
  BY <1>5 DEF Discard, Sound, TypeOK, Standings
<1>6. CASE UNCHANGED <<decided, standing>>
  BY <1>6 DEF Sound, TypeOK
<1> QED
  BY <1>1, <1>2, <1>3, <1>4, <1>5, <1>6 DEF Next

LEMMA SoundAgreement == Sound => Agreement
  BY DEF Sound, Agreement

\* No transaction is committed at one shard and discarded at another.
THEOREM AgreementTheorem == Spec => []Agreement
<1>1. Spec => []Sound
  BY InitSound, NextSound, PTL DEF Spec
<1> QED
  BY <1>1, SoundAgreement, PTL
=============================================================================
