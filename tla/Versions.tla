------------------------------ MODULE Versions ------------------------------
(***************************************************************************)
(* Multi-version data, as the memtable, the SSTs and the B-tree stores keep  *)
(* it.  A version is a record with at least the fields key and seq (its      *)
(* commit timestamp); a store is a set of versions, no two of one key with   *)
(* the same seq.                                                             *)
(***************************************************************************)
EXTENDS Integers

\* The version of k a snapshot at ts sees, in a set of at most one:
\* Memtable::get_at, SstReader::get_entry_at.
Visible(vs, k, ts) ==
  {v \in vs : /\ v.key = k /\ v.seq <= ts
              /\ \A w \in vs : w.key = k /\ w.seq <= ts => w.seq <= v.seq}

\* What collection at watermark wm keeps: every version at or above it, and
\* per key the newest below it.  Memtable::gc_below_watermark, survivors_for_key
\* and KWayMergeIterator::next_entry are three copies of this rule.
Survivors(vs, wm) ==
  {v \in vs : \/ v.seq >= wm
              \/ \A w \in vs : w.key = v.key /\ w.seq < wm => w.seq <= v.seq}

\* vs with versions new merged in; a version already there stays.
Merge(vs, new) ==
  vs \cup {v \in new : ~\E w \in vs : w.key = v.key /\ w.seq = v.seq}

\* The newest of candidates found one store after another: a later find
\* replaces an earlier one only if it is newer.
Newer(best, found) ==
  IF found # {} /\ \A b \in best, f \in found : b.seq < f.seq
  THEN found ELSE best
=============================================================================
