--------------------------- MODULE RaftTypeLemmas ---------------------------
(***************************************************************************)
(* What the operators of Raft preserve: the type of a log, of a node and of  *)
(* a message, together with the fact TypeOK needs to be inductive.  A        *)
(* snapshot is cut out of the applied sequence, so a node is Sound when its  *)
(* snapshot boundary is within what it has applied.                          *)
(***************************************************************************)
EXTENDS Raft, FiniteSetTheorems, SequenceTheorems, WellFoundedInduction, TLAPS

-----------------------------------------------------------------------------
(* Minimum and maximum *)

\* A nonempty set of naturals has a least element, the one Min picks.
LEMMA MinNat ==
  ASSUME NEW S, S \subseteq Nat, S # {}
  PROVE  Min(S) \in S /\ \A y \in S : Min(S) <= y
<1> DEFINE R == OpToRel(<, Nat)
           Less == {p \in Nat \X Nat : p[1] < p[2]}
<1>1. PICK x \in S : \A y \in S : ~ (<<y, x>> \in R)
  <2> HIDE DEF R
  <2>1. IsWellFoundedOn(R, Nat)
    BY NatLessThanWellFounded DEF R
  <2> QED
    BY <2>1, WFMin
<1>2. R = Less
  BY Zenon DEF OpToRel
<1>3. \A y \in S : <<y, x>> \notin Less
  BY <1>1, <1>2
<1>4. ASSUME NEW y \in S
      PROVE  x <= y
  <2>1. <<y, x>> \in Nat \X Nat /\ <<y, x>>[1] = y /\ <<y, x>>[2] = x
    OBVIOUS
  <2>2. ~ (<<y, x>>[1] < <<y, x>>[2])
    BY <1>3, <2>1, Zenon
  <2> QED
    BY <2>1, <2>2
<1> QED
  BY <1>4 DEF Min

\* A nonempty bounded set of naturals has a greatest element, the one Max picks.
LEMMA MaxNat ==
  ASSUME NEW S, S \subseteq Nat, S # {}, NEW b \in Nat, \A y \in S : y <= b
  PROVE  Max(S) \in S /\ \A y \in S : y <= Max(S)
<1> DEFINE T == {n \in Nat : b - n \in S}
<1>1. T \subseteq Nat /\ T # {}
  <2>1. PICK x \in S : TRUE
    OBVIOUS
  <2>2. b - x \in Nat /\ b - (b - x) = x
    BY <2>1
  <2>3. b - x \in T
    BY <2>1, <2>2
  <2> QED
    BY <2>3
<1>2. Min(T) \in T /\ \A y \in T : Min(T) <= y
  BY <1>1, MinNat
<1>3. \A y \in S : y <= b - Min(T)
  <2> TAKE y \in S
  <2>1. b - y \in Nat /\ b - (b - y) = y
    OBVIOUS
  <2>2. b - y \in T
    BY <2>1
  <2> QED
    BY <1>2, <2>1, <2>2
<1>4. b - Min(T) \in S
  BY <1>2
<1>5. \E x \in S : \A y \in S : x >= y
  BY <1>3, <1>4
<1>6. Max(S) \in S /\ \A y \in S : Max(S) >= y
  BY <1>5 DEF Max
<1> QED
  BY <1>6

\* Max and Min of two integers.
LEMMA MaxOfTwo ==
  ASSUME NEW a \in Int, NEW b \in Int
  PROVE  Max({a, b}) \in {a, b} /\ a <= Max({a, b}) /\ b <= Max({a, b})
<1>1. \E x \in {a, b} : \A y \in {a, b} : x >= y
  OBVIOUS
<1>2. Max({a, b}) \in {a, b} /\ \A y \in {a, b} : Max({a, b}) >= y
  BY <1>1 DEF Max
<1> QED
  BY <1>2

\* The smaller of two integers is one of them and below both.
LEMMA MinOfTwo ==
  ASSUME NEW a \in Int, NEW b \in Int
  PROVE  Min({a, b}) \in {a, b} /\ Min({a, b}) <= a /\ Min({a, b}) <= b
<1>1. \E x \in {a, b} : \A y \in {a, b} : x <= y
  OBVIOUS
<1>2. Min({a, b}) \in {a, b} /\ \A y \in {a, b} : Min({a, b}) <= y
  BY <1>1 DEF Min
<1> QED
  BY <1>2

\* In particular they stay within the naturals.
LEMMA TwoNaturals ==
  \A a, b \in Nat : Max({a, b}) \in Nat /\ Min({a, b}) \in Nat
<1> TAKE a, b \in Nat
<1>1. Max({a, b}) \in {a, b} /\ Min({a, b}) \in {a, b}
  BY MaxOfTwo, MinOfTwo
<1> QED
  BY <1>1

-----------------------------------------------------------------------------
(* The log *)

\* RaftLog::last_index and last_term are naturals, snapshot boundary included.
LEMMA LastIndexType ==
  ASSUME NEW s \in Node
  PROVE  LastIndex(s) \in Nat /\ LastTerm(s) \in Nat
<1>1. s.log \in Seq(Entry) /\ s.snap \in [index : Nat, term : Nat]
  BY DEF Node
<1>2. CASE s.log = <<>>
  BY <1>1, <1>2 DEF LastIndex, LastTerm
<1>3. CASE s.log # <<>>
  <2>1. Len(s.log) \in 1..Len(s.log)
    BY <1>1, <1>3, EmptySeq
  <2>2. s.log[Len(s.log)] \in Entry
    BY <1>1, <2>1, ElementOfSeq
  <2> QED
    BY <1>3, <2>2 DEF LastIndex, LastTerm, Entry
<1> QED
  BY <1>2, <1>3

\* A lookup by index that hits returns an entry (RaftLog::entry).
LEMMA EntryAtType ==
  ASSUME NEW s \in Node, NEW n, At(s, n) # {}
  PROVE  EntryAt(s, n) \in Entry
<1>1. s.log \in Seq(Entry) /\ DOMAIN s.log = 1..Len(s.log)
  BY LenProperties DEF Node
<1>2. At(s, n) \subseteq Nat
  BY <1>1, LenProperties DEF At
<1>3. Min(At(s, n)) \in 1..Len(s.log)
  BY <1>1, <1>2, MinNat DEF At
<1> QED
  BY <1>1, <1>3, ElementOfSeq DEF EntryAt

\* RaftLog::term_at answers a term or that it does not know.
LEMMA TermAtType ==
  ASSUME NEW s \in Node, NEW n \in Nat
  PROVE  TermAt(s, n) \in Nat \cup {None}
<1>1. s.snap.term \in Nat
  BY DEF Node
<1>2. At(s, n) # {} => EntryAt(s, n).term \in Nat
  BY EntryAtType DEF Entry
<1> QED
  BY <1>1, <1>2 DEF TermAt

\* The number of entries below an index is a position of the log.
LEMMA BelowType ==
  ASSUME NEW s \in Node, NEW n
  PROVE  Below(s, n) \in 0..Len(s.log)
<1> DEFINE B == {k \in DOMAIN s.log : s.log[k].index < n}
<1>1. Len(s.log) \in Nat /\ DOMAIN s.log = 1..Len(s.log)
  BY LenProperties DEF Node
<1>2. IsFiniteSet(1..Len(s.log)) /\ Cardinality(1..Len(s.log)) = Len(s.log)
  BY <1>1, FS_Interval
<1>3. B \in SUBSET (1..Len(s.log))
  BY <1>1
<1>4. IsFiniteSet(B) /\ Cardinality(B) <= Len(s.log)
  BY <1>2, <1>3, FS_Subset
<1>5. Cardinality(B) \in Nat
  BY <1>4, FS_CardinalityType
<1> QED
  BY <1>1, <1>4, <1>5 DEF Below

\* RaftLog::entries_from returns a suffix of entries.
LEMMA EntriesFromType ==
  ASSUME NEW s \in Node, NEW n
  PROVE  EntriesFrom(s, n) \in Seq(Entry)
<1>1. s.log \in Seq(Entry) /\ Len(s.log) \in Nat
  BY LenProperties DEF Node
<1>2. Below(s, n) \in 0..Len(s.log)
  BY BelowType
<1>3. \A k \in Below(s, n) + 1 .. Len(s.log) : s.log[k] \in Entry
  BY <1>1, <1>2, ElementOfSeq
<1> QED
  BY <1>1, <1>2, <1>3, SubSeqProperties DEF EntriesFrom

\* The entries of one request are entries (the cap of leader_peer_cursor).
LEMMA CappedType ==
  ASSUME NEW q \in Seq(Entry), NEW b \in Nat
  PROVE  SubSeq(q, 1, Min({Len(q), b})) \in Seq(Entry)
<1>1. Len(q) \in Nat
  BY LenProperties
<1>2. \A a, c \in Nat : Min({a, c}) \in {a, c} /\ Min({a, c}) <= a
  BY MinOfTwo
<1>3. PICK n : n = Min({Len(q), b}) /\ n \in {Len(q), b} /\ n <= Len(q)
  BY <1>1, <1>2, Zenon
<1>4. n \in Nat /\ n <= Len(q)
  BY <1>1, <1>3
<1>5. \A k \in 1..n : q[k] \in Entry
  BY <1>1, <1>4, ElementOfSeq
<1>6. SubSeq(q, 1, n) \in Seq(Entry)
  BY <1>4, <1>5, SubSeqProperties
<1> QED
  BY <1>3, <1>6, Zenon

\* Dropping a suffix leaves a well-formed node (RaftLog::truncate_after).
LEMMA TruncateFromType ==
  ASSUME NEW s \in Node, NEW n
  PROVE  TruncateFrom(s, n) \in Node
<1>1. s.log \in Seq(Entry) /\ Len(s.log) \in Nat
  BY LenProperties DEF Node
<1>2. Below(s, n) \in 0..Len(s.log)
  BY BelowType
<1>3. \A k \in 1..Below(s, n) : s.log[k] \in Entry
  BY <1>1, <1>2, ElementOfSeq
<1>4. SubSeq(s.log, 1, Below(s, n)) \in Seq(Entry)
  BY <1>1, <1>2, <1>3, SubSeqProperties
<1> QED
  BY <1>4 DEF TruncateFrom, Node

\* Appending a batch leaves a well-formed node (RaftLog::append_batch).
LEMMA AppendBatchType ==
  ASSUME NEW s \in Node, NEW es \in Seq(Entry)
  PROVE  AppendBatch(s, es) \in Node
<1>1. s.log \in Seq(Entry) /\ s.wal \in Seq(Entry)
  BY DEF Node
<1>2. s.log \o es \in Seq(Entry) /\ s.wal \o es \in Seq(Entry)
  BY <1>1, ConcatProperties
<1> QED
  BY <1>2 DEF AppendBatch, Node

\* Compacting up to an entry the log has leaves a well-formed node.
LEMMA CompactThroughType ==
  ASSUME NEW s \in Node, NEW n \in Nat, At(s, n) # {}
  PROVE  CompactThrough(s, n) \in Node
<1>1. EntriesFrom(s, n + 1) \in Seq(Entry)
  BY EntriesFromType
<1>2. EntryAt(s, n).term \in Nat
  BY EntryAtType DEF Entry
<1> QED
  BY <1>1, <1>2 DEF CompactThrough, Node

-----------------------------------------------------------------------------
(* The steps shared by the handlers *)

\* A node of the right type whose snapshot is covered by what it has applied.
Sound == {s \in Node : s.snap.index <= Len(s.applied)}

\* Truncation does not move the snapshot boundary.
LEMMA TruncateFromSound ==
  ASSUME NEW s \in Sound, NEW n
  PROVE  TruncateFrom(s, n) \in Sound
<1>1. TruncateFrom(s, n) \in Node
  BY TruncateFromType DEF Sound
<1>2. /\ TruncateFrom(s, n).snap = s.snap
      /\ TruncateFrom(s, n).applied = s.applied
  BY DEF TruncateFrom, Sound, Node
<1> QED
  BY <1>1, <1>2 DEF Sound

\* Appending does not move the snapshot boundary.
LEMMA AppendBatchSound ==
  ASSUME NEW s \in Sound, NEW es \in Seq(Entry)
  PROVE  AppendBatch(s, es) \in Sound
<1>1. AppendBatch(s, es) \in Node
  BY AppendBatchType DEF Sound
<1>2. /\ AppendBatch(s, es).snap = s.snap
      /\ AppendBatch(s, es).applied = s.applied
  BY DEF AppendBatch, Sound, Node
<1> QED
  BY <1>1, <1>2 DEF Sound

\* Compacting through the last applied entry keeps the boundary within
\* what has been applied.
LEMMA CompactAppliedSound ==
  ASSUME NEW s \in Sound, At(s, Len(s.applied)) # {}
  PROVE  CompactThrough(s, Len(s.applied)) \in Sound
<1> DEFINE n == Len(s.applied)
           t == CompactThrough(s, n)
<1>1. n \in Nat
  BY LenProperties DEF Sound, Node
<1>2. t \in Node
  BY <1>1, CompactThroughType DEF Sound
<1>3. t.snap.index = n /\ t.applied = s.applied
  BY DEF CompactThrough, Sound, Node
<1> QED
  BY <1>1, <1>2, <1>3 DEF Sound

\* Folding configuration entries gives a set of servers.
LEMMA MembersAfterType ==
  ASSUME NEW m, NEW es
  PROVE  MembersAfter(m, es) \in SUBSET Server
BY DEF MembersAfter

\* apply_config_change_immediate, with the snapshot a leader seeds for a
\* joining node, keeps a node sound.
LEMMA AppendConfigSound ==
  ASSUME NEW s \in Sound, NEW es, NEW b \in BOOLEAN
  PROVE  AppendConfig(s, es, b) \in Sound
<1> DEFINE seed == /\ b /\ s.snap.index = 0 /\ Len(s.applied) > 0
                   /\ At(s, Len(s.applied)) # {}
                   /\ \E k \in DOMAIN es, n \in Server : es[k].cmd = Add(n)
           t == IF seed THEN CompactThrough(s, Len(s.applied)) ELSE s
           members == MembersAfter(s.members, es)
<1>1. t \in Sound
  BY CompactAppliedSound
<1>2. members \in SUBSET Server
  BY MembersAfterType
<1>3. t.snap.index \in Nat /\ Max({t.snap.index, 1}) \in Nat
  <2>1. t.snap.index \in Nat
    <3> HIDE DEF t
    <3> QED
      BY <1>1 DEF Sound, Node
  <2>2. ASSUME NEW n \in Nat
        PROVE  Max({n, 1}) \in Nat
    BY MaxOfTwo
  <2> QED
    BY <2>1, <2>2
<1>4. CASE ~HasConfig(es)
  BY <1>4 DEF AppendConfig
<1>5. CASE HasConfig(es)
  <2>1. PICK saved, next, match :
               /\ saved \in SUBSET Server
               /\ next \in [Server -> Nat] /\ match \in [Server -> Nat]
               /\ AppendConfig(s, es, b) =
                    [t EXCEPT !.members = members, !.saved = saved,
                              !.next = next, !.match = match]
    <3> DEFINE voters(k) == MembersAfter(s.members, SubSeq(es, 1, k))
               changed == {k \in DOMAIN es : voters(k - 1) # voters(k)}
               reset == {n \in Server : \E k \in changed :
                                          \/ es[k].cmd = Remove(n)
                                          \/ b /\ es[k].cmd = Add(n)}
               first(n) == IF b /\ n \in members
                           THEN Max({t.snap.index, 1}) ELSE 1
               next == [n \in Server |-> IF n \in reset THEN first(n) ELSE s.next[n]]
               match == [n \in Server |-> IF n \in reset THEN 0 ELSE s.match[n]]
               saved == IF changed = {} THEN t.saved ELSE members
    <3>1. next \in [Server -> Nat] /\ match \in [Server -> Nat]
      BY <1>3 DEF Sound, Node
    <3>2. saved \in SUBSET Server
      BY <1>1, <1>2 DEF Sound, Node
    <3>3. AppendConfig(s, es, b) =
                    [t EXCEPT !.members = members, !.saved = saved,
                              !.next = next, !.match = match]
      BY <1>5 DEF AppendConfig
    <3> HIDE DEF next, match, saved
    <3> QED
      BY <3>1, <3>2, <3>3
  <2> HIDE DEF t, members
  <2> QED
    BY <1>1, <1>2, <2>1 DEF Sound, Node
<1> QED
  BY <1>4, <1>5

\* rebuild_membership_from_log changes the membership only.
LEMMA RebuildMembersSound ==
  ASSUME NEW s \in Sound
  PROVE  RebuildMembers(s) \in Sound
<1> DEFINE live == MembersAfter(s.base, EntriesFrom(s, s.snap.index + 1))
<1>1. live \in SUBSET Server
  BY MembersAfterType
<1> HIDE DEF live
<1>2. RebuildMembers(s) = [s EXCEPT !.members = live,
                             !.saved = IF live = s.members THEN s.saved ELSE live]
  BY DEF RebuildMembers, live, Sound, Node
<1> QED
  BY <1>1, <1>2 DEF Sound, Node

\* Dropping the pending proposals and the waiters keeps a node sound.
LEMMA DrainSound ==
  ASSUME NEW s \in Sound
  PROVE  Drain(s) \in Sound
BY EmptySeq DEF Drain, Sound, Node

\* notify_waiters removes waiters only.
LEMMA NotifySound ==
  ASSUME NEW s \in Sound
  PROVE  Notify(s) \in Sound
BY DEF Notify, Sound, Node

\* maybe_compact never cuts beyond the last applied entry.
LEMMA MaybeCompactSound ==
  ASSUME NEW s \in Sound
  PROVE  MaybeCompact(s) \in Sound
<1> DEFINE t == CompactThrough(s, Len(s.applied))
<1>1. CASE At(s, Len(s.applied)) # {}
  <2>1. t \in Sound
    BY <1>1, CompactAppliedSound
  <2>2. [t EXCEPT !.saved = s.members] \in Sound
    <3> HIDE DEF t
    <3> QED
      BY <2>1 DEF Sound, Node
  <2> QED
    BY <2>2 DEF MaybeCompact
<1>2. CASE At(s, Len(s.applied)) = {}
  BY <1>2 DEF MaybeCompact
<1> QED
  BY <1>1, <1>2

\* apply_committed_to extends what is applied before it may compact, so the
\* boundary stays within it.
LEMMA ApplyCommittedSound ==
  ASSUME NEW s \in Sound, NEW i \in Server
  PROVE  ApplyCommitted(i, s) \in Sound
<1> DEFINE start == Max({Len(s.applied), s.snap.index}) + 1
           gaps  == {n \in start..s.commit : At(s, n) = {}}
           end   == IF gaps = {} THEN s.commit ELSE Min(gaps) - 1
           new   == [k \in 1..(end - start + 1) |-> EntryAt(s, start + k - 1)]
           gone  == \E k \in DOMAIN new : IsConfig(new[k].cmd) /\ new[k].cmd = Remove(i)
           base  == MembersAfter(s.base, new)
           saved == IF HasConfig(new) THEN s.members ELSE s.saved
           t == [s EXCEPT !.applied = @ \o new, !.base = base, !.saved = saved,
                          !.removed = @ \/ gone]
<1>1. /\ s \in Node /\ s.snap.index \in Nat /\ s.commit \in Nat
      /\ s.applied \in Seq(Entry) /\ Len(s.applied) \in Nat
      /\ s.snap.index <= Len(s.applied)
  BY LenProperties DEF Sound, Node
<1>2. start \in Nat \ {0}
  <2>1. Max({Len(s.applied), s.snap.index}) \in Nat
    BY <1>1, TwoNaturals, Zenon
  <2> QED
    BY <2>1
<1> HIDE DEF start
<1>3. end \in Int /\ \A n \in start..end : At(s, n) # {}
  <2>1. CASE gaps = {}
    BY <1>1, <1>2, <2>1
  <2>2. CASE gaps # {}
    <3>1. gaps \subseteq Nat
      BY <1>1, <1>2
    <3>2. Min(gaps) \in gaps /\ \A y \in gaps : Min(gaps) <= y
      BY <2>2, <3>1, MinNat
    <3> DEFINE m == Min(gaps)
    <3>3. m \in Nat /\ m <= s.commit /\ end = m - 1
      BY <1>1, <1>2, <2>2, <3>2
    <3> HIDE DEF m, end
    <3>4. ASSUME NEW n \in start..end
          PROVE  At(s, n) # {}
      <4>1. n \in start..s.commit /\ ~(m <= n)
        BY <1>1, <1>2, <3>3
      <4> QED
        BY <3>2, <4>1 DEF m
    <3> QED
      BY <3>3, <3>4
  <2> QED
    BY <2>1, <2>2
<1> HIDE DEF end
<1>4. CASE end < start
  BY <1>4 DEF ApplyCommitted, start, end
<1>5. CASE ~(end < start)
  <2>1. end - start + 1 \in Nat
    BY <1>2, <1>3, <1>5
  <2>2. \A k \in 1..(end - start + 1) : EntryAt(s, start + k - 1) \in Entry
    <3> TAKE k \in 1..(end - start + 1)
    <3>1. start + k - 1 \in start..end
      BY <1>2, <1>3
    <3> QED
      BY <1>1, <1>3, <3>1, EntryAtType
  <2>3. new \in Seq(Entry)
    BY <2>1, <2>2
  <2>4. /\ s.applied \o new \in Seq(Entry)
        /\ Len(s.applied \o new) = Len(s.applied) + Len(new)
        /\ Len(new) \in Nat
    BY <1>1, <2>3, ConcatProperties, LenProperties
  <2>5. base \in SUBSET Server /\ gone \in BOOLEAN
    BY MembersAfterType
  <2>6. saved \in SUBSET Server
    BY <1>1 DEF Node
  <2>7. ApplyCommitted(i, s) = MaybeCompact(t)
    BY <1>5 DEF ApplyCommitted, start, end
  <2> HIDE DEF new, gone, base, saved
  <2>8. t \in Node
    BY <1>1, <2>4, <2>5, <2>6 DEF Node
  <2>9. t.snap = s.snap /\ t.applied = s.applied \o new
    BY <1>1 DEF Node
  <2> HIDE DEF t
  <2>10. t \in Sound
    BY <1>1, <2>4, <2>8, <2>9 DEF Sound
  <2> QED
    BY <2>7, <2>10, MaybeCompactSound
<1> QED
  BY <1>4, <1>5

\* advance_commit_index moves the commit index only.
LEMMA AdvanceCommitSound ==
  ASSUME NEW s \in Sound, NEW i \in Server, NEW term
  PROVE  AdvanceCommit(i, s, term) \in Sound
<1> DEFINE match == IF i \in s.members
                    THEN [s.match EXCEPT ![i] = Max({@, LastIndex(s)})]
                    ELSE s.match
           replicated(n) == {p \in s.members : match[p] >= n}
           good == {n \in s.commit + 1 .. LastIndex(s) :
                      /\ TermAt(s, n) = term
                      /\ Cardinality(replicated(n)) >= Quorum(s.members)}
           commit == IF good = {} THEN s.commit ELSE Max(good)
<1>1. /\ s \in Node /\ s.commit \in Nat /\ s.match \in [Server -> Nat]
      /\ LastIndex(s) \in Nat
  BY LastIndexType DEF Sound, Node
<1>2. match \in [Server -> Nat]
  <2>1. s.match[i] \in Nat
    BY <1>1
  <2>2. Max({s.match[i], LastIndex(s)}) \in Nat
    BY <1>1, <2>1, TwoNaturals, Zenon
  <2> QED
    BY <1>1, <2>2
<1>3. commit \in Nat
  <2>1. CASE good # {}
    <3>1. good \subseteq Nat /\ \A y \in good : y <= LastIndex(s)
      BY <1>1
    <3>2. Max(good) \in good
      BY <1>1, <2>1, <3>1, MaxNat
    <3> QED
      BY <2>1, <3>1, <3>2
  <2> QED
    BY <1>1, <2>1
<1>4. AdvanceCommit(i, s, term) = [s EXCEPT !.match = match, !.commit = commit]
  BY DEF AdvanceCommit
<1> HIDE DEF match, commit
<1> QED
  BY <1>2, <1>3, <1>4 DEF Sound, Node

\* on_peer_unreachable keeps next_index a positive index.
LEMMA UnreachableSound ==
  ASSUME NEW s \in Sound, NEW p \in Server
  PROVE  Unreachable(s, p) \in Sound
<1> DEFINE next == s.next[p]
           back == IF s.snap.index > 0 /\ next > s.snap.index
                   THEN Max({(next + s.snap.index) \div 2, s.snap.index})
                   ELSE Max({next - 1, 1})
<1>1. next \in Nat /\ s.snap.index \in Nat
  BY DEF Sound, Node
<1>2. /\ Max({(next + s.snap.index) \div 2, s.snap.index}) \in Nat
      /\ Max({next - 1, 1}) \in Nat
  <2>1. (next + s.snap.index) \div 2 \in Nat
    BY <1>1
  <2>2. \A n \in Nat : Max({n, s.snap.index}) \in Nat
    BY <1>1, TwoNaturals, Zenon
  <2>3. \A n \in Int : Max({n, 1}) \in Nat
    <3> TAKE n \in Int
    <3>1. Max({n, 1}) \in {n, 1} /\ 1 <= Max({n, 1})
      BY MaxOfTwo
    <3> QED
      BY <3>1
  <2> QED
    BY <1>1, <2>1, <2>2, <2>3
<1>3. back \in Nat
  BY <1>2
<1>4. Unreachable(s, p) = [s EXCEPT !.next = [s.next EXCEPT ![p] = back]]
  BY DEF Unreachable, Sound, Node
<1> HIDE DEF back
<1>5. [s.next EXCEPT ![p] = back] \in [Server -> Nat]
  BY <1>3 DEF Sound, Node
<1> QED
  BY <1>4, <1>5 DEF Sound, Node

\* A follower's commit index stays a natural when it follows the leader's.
LEMMA FollowCommitType ==
  ASSUME NEW s \in Node, NEW commit \in Nat
  PROVE  FollowCommit(s, commit) \in Nat
<1>1. LastIndex(s) \in Nat /\ s.commit \in Nat
  BY LastIndexType DEF Node
<1>2. Min({commit, LastIndex(s)}) \in Nat
  BY <1>1, TwoNaturals, Zenon
<1> QED
  BY <1>1, <1>2 DEF FollowCommit

\* A freshly opened node is sound.
LEMMA InitNodeSound ==
  ASSUME NEW i \in Server
  PROVE  InitNode(i) \in Sound
<1> DEFINE voters == IF i \in Bootstrap THEN Bootstrap ELSE {}
<1>1. voters \in SUBSET Server
  BY ServerAssumption
<1>2. /\ <<>> \in Seq(Entry) /\ <<>> \in Seq(Command) /\ Len(<<>>) = 0
      /\ {} \in SUBSET Waiter
  OBVIOUS
<1> HIDE DEF voters
<1>3. InitNode(i) =
        [log |-> <<>>, wal |-> <<>>, snap |-> [index |-> 0, term |-> 0],
         commit |-> 0, next |-> [j \in Server |-> 1],
         match |-> [j \in Server |-> 0], pending |-> <<>>, waiters |-> {},
         members |-> voters, base |-> voters, saved |-> voters,
         removed |-> FALSE, applied |-> <<>>]
  BY DEF InitNode, voters
<1> QED
  BY <1>1, <1>2, <1>3 DEF Sound, Node

-----------------------------------------------------------------------------
(* Requests and replies *)

\* A request that, if it is a snapshot, holds one entry per index it covers.
Faithful ==
  {m \in Request : m.type = "InstallSnapshot" => Len(m.data) = m.index}

\* The strengthening of TypeOK that every step preserves.
RaftInv ==
  /\ TypeOK
  /\ st \in [Server -> Sound]
  /\ net \subseteq Faithful

\* The fields every kind of request has.
LEMMA RequestFields ==
  ASSUME NEW m \in Request
  PROVE  /\ m.type \in {"RequestVote", "AppendEntries", "InstallSnapshot"}
         /\ m.from \in Server /\ m.to \in Server /\ m.live \in BOOLEAN
         /\ m.term \in Nat
BY DEF Request, VoteRequest, AppendRequest, SnapshotRequest

\* The type field tells the kind of a request.
LEMMA RequestKind ==
  ASSUME NEW m \in Request
  PROVE  /\ m.type = "RequestVote" => m \in VoteRequest
         /\ m.type = "AppendEntries" => m \in AppendRequest
         /\ m.type = "InstallSnapshot" => m \in SnapshotRequest
BY DEF Request, VoteRequest, AppendRequest, SnapshotRequest

\* What a leader sends carries a snapshot of applied entries only
\* (leader_peer_cursor, build_install_snapshot).
LEMMA PeerRequestFaithful ==
  ASSUME TypeOK, NEW s \in Sound, NEW i \in Server, NEW p \in Server
  PROVE  PeerRequest(i, p, s) \in Faithful
<1>1. /\ s \in Node /\ s.snap \in [index : Nat, term : Nat]
      /\ s.next[p] \in Nat /\ s.commit \in Nat
      /\ s.members \in SUBSET Server /\ s.applied \in Seq(Entry)
      /\ s.snap.index <= Len(s.applied)
  BY DEF Sound, Node
<1>2. currentTerm[i] \in Nat
  BY DEF TypeOK
<1>3. CASE NeedsSnapshot(s, p)
  <2> DEFINE data == SubSeq(s.applied, 1, s.snap.index)
             m == [type |-> "InstallSnapshot", from |-> i, to |-> p, live |-> TRUE,
                   term |-> currentTerm[i], index |-> s.snap.index,
                   lastTerm |-> s.snap.term, members |-> s.members,
                   data |-> data]
  <2>1. data \in Seq(Entry) /\ Len(data) = s.snap.index
    BY <1>1, SubSeqProperties, LenProperties
  <2>2. PeerRequest(i, p, s) = m
    BY <1>3 DEF PeerRequest
  <2> HIDE DEF data
  <2>3. m \in SnapshotRequest /\ Len(m.data) = m.index
    BY <1>1, <1>2, <2>1 DEF SnapshotRequest
  <2> QED
    BY <2>2, <2>3 DEF Faithful, Request
<1>4. CASE ~NeedsSnapshot(s, p)
  <2> DEFINE prev == Max({s.next[p] - 1, 0})
             term == TermAt(s, prev)
             prevTerm == IF term = None THEN 0 ELSE term
             suffix == EntriesFrom(s, s.next[p])
             entries == SubSeq(suffix, 1, Min({Len(suffix), MaxBatch}))
             m == [type |-> "AppendEntries", from |-> i, to |-> p, live |-> TRUE,
                   term |-> currentTerm[i], prevIndex |-> prev,
                   prevTerm |-> prevTerm, entries |-> entries,
                   commit |-> s.commit]
  <2>1. prev \in Nat
    <3>1. \A n \in Int : Max({n, 0}) \in Nat
      <4> TAKE n \in Int
      <4>1. Max({n, 0}) \in {n, 0} /\ 0 <= Max({n, 0})
        BY MaxOfTwo
      <4> QED
        BY <4>1
    <3>2. s.next[p] - 1 \in Int
      BY <1>1
    <3> QED
      BY <3>1, <3>2, Zenon
  <2> HIDE DEF prev
  <2>2. prevTerm \in Nat
    BY <1>1, <2>1, TermAtType
  <2>3. entries \in Seq(Entry)
    <3>1. suffix \in Seq(Entry)
      BY <1>1, EntriesFromType
    <3>2. MaxBatch \in Nat
      BY BoundAssumption
    <3> QED
      BY <3>1, <3>2, CappedType, Zenon
  <2>4. PeerRequest(i, p, s) = m
    BY <1>4 DEF PeerRequest, prev
  <2> HIDE DEF prevTerm, entries
  <2>5. m \in AppendRequest /\ m.type # "InstallSnapshot"
    BY <1>1, <1>2, <2>1, <2>2, <2>3 DEF AppendRequest
  <2> QED
    BY <2>4, <2>5 DEF Faithful, Request
<1> QED
  BY <1>3, <1>4

\* replicate_to_all adds well-formed requests and waits for peers.
LEMMA BroadcastType ==
  ASSUME TypeOK, net \subseteq Faithful, NEW i \in Server, NEW s \in Sound, NEW r,
         Broadcast(i, s, r)
  PROVE  calls' \in [Server -> SUBSET Server] /\ net' \subseteq Faithful
<1> DEFINE peers == IF r = "Leader" THEN s.members \ {i} ELSE {}
<1>1. peers \subseteq Server
  BY DEF Sound, Node
<1>2. PICK skipped \in SUBSET {p \in peers : NeedsSnapshot(s, p)} :
             /\ calls' = [calls EXCEPT ![i] = peers \ skipped]
             /\ net' = net \cup {PeerRequest(i, p, s) : p \in peers \ skipped}
  BY DEF Broadcast
<1> HIDE DEF peers
<1>3. \A p \in peers \ skipped : PeerRequest(i, p, s) \in Faithful
  BY <1>1, PeerRequestFaithful
<1>4. calls' \in [Server -> SUBSET Server]
  BY <1>1, <1>2 DEF TypeOK
<1> QED
  BY <1>2, <1>3, <1>4

\* A handler answers with a well-formed reply.
LEMMA AnswerType ==
  ASSUME replies \subseteq Reply, NEW m \in Request, NEW term \in Nat,
         NEW ok \in BOOLEAN, NEW match \in Nat, Answer(m, term, ok, match)
  PROVE  replies' \subseteq Reply
BY RequestFields DEF Answer, Reply

\* become_follower keeps term, vote and role well-typed.
LEMMA BecomeFollowerType ==
  ASSUME TypeOK, NEW i \in Server, NEW term \in Nat, BecomeFollower(i, term)
  PROVE  /\ currentTerm' \in [Server -> Nat]
         /\ votedFor' \in [Server -> Server \cup {None}]
         /\ role' \in [Server -> {"Follower", "Candidate", "Leader"}]
<1>1. currentTerm' \in [Server -> Nat]
  BY DEF BecomeFollower, TypeOK
<1>2. votedFor' \in [Server -> Server \cup {None}]
  BY DEF BecomeFollower, TypeOK
<1>3. role' \in [Server -> {"Follower", "Candidate", "Leader"}]
  BY DEF BecomeFollower, TypeOK
<1> QED
  BY <1>1, <1>2, <1>3

\* What notify_waiters acknowledges are commands at log positions.
LEMMA AcksType ==
  ASSUME TypeOK, NEW i \in Server, NEW s \in Sound
  PROVE  Acks(i, s) \subseteq [index : Nat, cmd : Command, term : Nat]
<1>1. currentTerm[i] \in Nat
  BY DEF TypeOK
<1>2. s.waiters \subseteq Waiter
  BY DEF Sound, Node
<1>3. \A w \in Ready(s) : w.index \in Nat /\ w.cmd \in Command
  BY <1>2 DEF Ready, Waiter
<1> QED
  BY <1>1, <1>3 DEF Acks

\* A request whose caller gave up is still well-formed.
LEMMA OrphanFaithful ==
  ASSUME NEW m \in Faithful, NEW i, NEW j
  PROVE  Orphan(m, i, j) \in Faithful
BY DEF Orphan, Faithful, Request, VoteRequest, AppendRequest, SnapshotRequest

\* A handler whose caller gave up is still well-formed.
LEMMA OrphanWindowType ==
  ASSUME NEW w \in Window, NEW i, NEW j
  PROVE  OrphanWindow(w, i, j) \in Window
<1>1. Orphan(w.req, i, j) \in AppendRequest
  BY DEF Orphan, Window, AppendRequest
<1> QED
  BY <1>1 DEF OrphanWindow, Window

=============================================================================
