--------------------------- MODULE VersionsProofs ---------------------------
(***************************************************************************)
(* Collecting old versions, and moving versions between stores, changes no  *)
(* read that a live snapshot can make.                                       *)
(***************************************************************************)
EXTENDS Versions, TLAPS

\* A store: versions with a timestamp, no two of one key with the same.
Store(vs) ==
  /\ \A v \in vs : v.seq \in Nat
  /\ \A v, w \in vs : v.key = w.key /\ v.seq = w.seq => v = w

\* A snapshot sees at most one version of a key.
LEMMA VisibleUnique ==
  ASSUME NEW vs, Store(vs), NEW k, NEW ts \in Nat,
         NEW v \in Visible(vs, k, ts), NEW w \in Visible(vs, k, ts)
  PROVE  v = w
  BY DEF Visible, Store

\* The version a snapshot sees at or above the last timestamp below the
\* watermark is kept.
LEMMA VisibleSurvives ==
  ASSUME NEW vs, Store(vs), NEW wm \in Nat, NEW ts \in Nat, ts + 1 >= wm,
         NEW k, NEW v \in Visible(vs, k, ts)
  PROVE  v \in Survivors(vs, wm)
<1>1. v \in vs /\ v.key = k /\ v.seq \in Nat /\ v.seq <= ts
  BY DEF Visible, Store
<1>2. CASE v.seq >= wm
  BY <1>1, <1>2 DEF Survivors
<1>3. CASE v.seq < wm
  <2>1. ASSUME NEW w \in vs, w.key = v.key, w.seq < wm
        PROVE  w.seq <= v.seq
    <3>1. w.seq \in Nat /\ w.seq <= ts
      BY <2>1 DEF Store
    <3>2. QED
      BY <1>1, <2>1, <3>1 DEF Visible
  <2>2. QED
    BY <1>1, <2>1 DEF Survivors
<1> QED
  BY <1>1, <1>2, <1>3

\* Collection keeps the reads of every snapshot from the watermark on, and of
\* the one just below it: Memtable::gc_below_watermark, survivors_for_key and
\* the merge of a compaction are safe while publish_watermark holds the
\* watermark at or below the oldest snapshot, or one above the last applied
\* index when there is none.
THEOREM CollectionKeepsReads ==
  ASSUME NEW vs, Store(vs), NEW wm \in Nat, NEW ts \in Nat, ts + 1 >= wm, NEW k
  PROVE  Visible(Survivors(vs, wm), k, ts) = Visible(vs, k, ts)
<1>1. ASSUME NEW v \in Visible(vs, k, ts)
      PROVE  v \in Visible(Survivors(vs, wm), k, ts)
  <2>1. v \in Survivors(vs, wm)
    BY VisibleSurvives
  <2>2. QED
    BY <2>1 DEF Visible, Survivors
<1>2. ASSUME NEW v \in Visible(Survivors(vs, wm), k, ts)
      PROVE  v \in Visible(vs, k, ts)
  <2>1. v \in vs /\ v \in Survivors(vs, wm) /\ v.key = k /\ v.seq <= ts
        /\ v.seq \in Nat
    BY DEF Visible, Survivors, Store
  <2>2. ASSUME NEW w \in vs, w.key = k, w.seq <= ts
        PROVE  w.seq <= v.seq
    <3>1. w.seq \in Nat
      BY DEF Store
    <3>2. CASE w \in Survivors(vs, wm)
      BY <2>2, <3>2 DEF Visible
    <3>3. CASE w \notin Survivors(vs, wm)
      <4>1. w.seq < wm
        BY <3>1, <3>3 DEF Survivors
      <4>2. CASE v.seq >= wm
        BY <2>1, <3>1, <4>1, <4>2
      <4>3. CASE v.seq < wm
        BY <2>1, <2>2, <4>1, <4>3 DEF Survivors
      <4> QED
        BY <2>1, <4>2, <4>3
    <3> QED
      BY <3>2, <3>3
  <2>3. QED
    BY <2>1, <2>2 DEF Visible
<1> QED
  BY <1>1, <1>2

\* Collecting is idempotent, and a later watermark makes an earlier collection
\* redundant: memtable, vacuum and compaction may each collect the same data.
THEOREM CollectionComposes ==
  ASSUME NEW vs, Store(vs), NEW early \in Nat, NEW late \in Nat, early <= late
  PROVE  Survivors(Survivors(vs, early), late) = Survivors(vs, late)
<1>1. ASSUME NEW v \in Survivors(vs, late)
      PROVE  v \in Survivors(Survivors(vs, early), late)
  <2>1. v \in vs /\ v.seq \in Nat
    BY DEF Survivors, Store
  <2>2. v \in Survivors(vs, early)
    BY <2>1 DEF Survivors, Store
  <2>3. QED
    BY <2>1, <2>2 DEF Survivors
<1>2. ASSUME NEW v \in Survivors(Survivors(vs, early), late)
      PROVE  v \in Survivors(vs, late)
  <2>1. v \in vs /\ v \in Survivors(vs, early) /\ v.seq \in Nat
    BY DEF Survivors, Store
  <2>2. CASE v.seq >= late
    BY <2>1, <2>2 DEF Survivors
  <2>3. CASE v.seq < late
    <3>1. ASSUME NEW w \in vs, w.key = v.key, w.seq < late
          PROVE  w.seq <= v.seq
      <4>1. w.seq \in Nat
        BY DEF Store
      <4>2. CASE w \in Survivors(vs, early)
        BY <2>1, <2>3, <3>1, <4>2 DEF Survivors
      <4>3. CASE w \notin Survivors(vs, early)
        <5>1. w.seq < early
          BY <4>1, <4>3 DEF Survivors
        <5>2. CASE v.seq >= early
          BY <2>1, <4>1, <5>1, <5>2
        <5>3. CASE v.seq < early
          BY <2>1, <3>1, <5>1, <5>3 DEF Survivors
        <5> QED
          BY <2>1, <5>2, <5>3
      <4> QED
        BY <4>2, <4>3
    <3> QED
      BY <2>1, <3>1 DEF Survivors
  <2> QED
    BY <2>1, <2>2, <2>3
<1> QED
  BY <1>1, <1>2
=============================================================================
