------------------------------ MODULE MCEngine ------------------------------
(***************************************************************************)
(* Small instances of Engine.  A budget bounds how many operations of each   *)
(* kind are begun and says which client begins which, so that one run goes   *)
(* through several situations that would be too large together.              *)
(***************************************************************************)
EXTENDS Engine

CONSTANTS c1, c2

MCClient == {c1, c2}
MCKey == {1, 2}

Who(first, second) == [c \in MCClient |-> IF c = c1 THEN first ELSE second]

Quiet == [calls |-> Who({}, {}), serializable |-> {FALSE}, txns |-> 0, puts |-> 0,
          ops |-> Who(0, 0), vacuums |-> 0, crashes |-> 0, closes |-> 0, opens |-> 0,
          timeouts |-> 0, flushAt |-> 100, levels |-> 1, calm |-> FALSE,
          keys |-> MCKey]

\* Two transactions on a key, of up to two operations, at once.
Contend ==
  [Quiet EXCEPT !.calls = Who({"txn", "get", "write"}, {"txn", "get", "write"}),
                !.txns = 2, !.ops = Who(2, 1), !.keys = {1}]

\* The same with the serializable check, writes only.
Doomable ==
  [Quiet EXCEPT !.calls = Who({"txn", "write"}, {"txn", "write", "abort"}),
                !.txns = 2, !.ops = Who(2, 1), !.serializable = {TRUE}]

\* A reader keeps its snapshot while versions are written over, flushed,
\* vacuumed and compacted.
Keep ==
  [Quiet EXCEPT !.calls = Who({"txn", "get"}, {"put", "write", "vacuum"}),
                !.txns = 1, !.ops = Who(1, 1), !.puts = 2, !.vacuums = 1, !.flushAt = 2,
                !.keys = {1}, !.calm = TRUE]

\* A reader begins and reads while a transaction of two keys is applied.
KeepApplied ==
  [Quiet EXCEPT !.calls = Who({"txn", "get"}, {"txn", "write"}),
                !.txns = 2, !.ops = Who(1, 2), !.calm = TRUE]

\* It reads while files of level 0 and of the last level are compacted away.
KeepCompacted ==
  [Quiet EXCEPT !.calls = Who({"txn", "get"}, {"put", "write"}),
                !.txns = 1, !.ops = Who(1, 0), !.puts = 2, !.flushAt = 1,
                !.keys = {1}, !.calm = TRUE]

\* Three flushes, and compactions of two levels that run meanwhile.
Compact ==
  [Quiet EXCEPT !.calls = Who({"put", "write"}, {}), !.puts = 3, !.flushAt = 1,
                !.levels = 2]

\* Two writers flush at once, and one waits for room in level 0.
Flood ==
  [Quiet EXCEPT !.calls = Who({"put", "write"}, {"put", "write"}), !.puts = 2,
                !.flushAt = 1, !.keys = {1}]

\* A crash between any two steps of two transactions, and a recovery.
Die ==
  [Quiet EXCEPT !.calls = Who({"txn", "write", "open"}, {"txn", "write"}),
                !.txns = 2, !.ops = Who(2, 1), !.crashes = 1, !.opens = 1]

\* A crash between any two steps of two writes, a flush and a compaction.
DieFlushing ==
  [Quiet EXCEPT !.calls = Who({"put", "write", "delete", "open"}, {}), !.puts = 2,
                !.flushAt = 2, !.crashes = 1, !.opens = 1]

\* A crash between any two steps of two flushes and of compactions into an empty and into
\* an occupied level.
DieCompacting ==
  [Quiet EXCEPT !.calls = Who({"put", "write", "open"}, {}), !.puts = 2,
                !.flushAt = 1, !.crashes = 1, !.opens = 1]

\* An orderly close, and an open.
Finish ==
  [Quiet EXCEPT !.calls = Who({"txn", "put", "write", "close", "open"}, {}),
                !.txns = 1, !.ops = Who(1, 1), !.puts = 1, !.closes = 1, !.opens = 1,
                !.flushAt = 1, !.timeouts = 1]

Mixed == {Contend, Doomable, Keep, KeepApplied, KeepCompacted, Compact, Flood, Die,
          DieFlushing, DieCompacting, Finish}

\* A transaction, a plain write and a crash.
Redone ==
  {[Quiet EXCEPT !.calls = Who({"txn", "put", "write", "open"}, {}),
                 !.txns = 1, !.ops = Who(1, 1), !.puts = 1, !.crashes = 1, !.opens = 1]}
=============================================================================
