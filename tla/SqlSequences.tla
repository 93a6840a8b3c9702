---------------------------- MODULE SqlSequences ----------------------------
(* The sequence registry (sql.rs): nextval, currval, lastval, setval, CREATE,  *)
(* DROP and ALTER SEQUENCE, its mirror on disk (SEQUENCES), and the restart    *)
(* that reads it back.  Every call holds the registry's mutex from start to    *)
(* end.  Values are 64-bit in the code; here the largest is MaxValue.          *)
EXTENDS Integers, Sequences, FiniteSetsExt

CONSTANTS
    Sessions,
    Names,
    MaxValue,    \* i64::MAX
    SetValues,   \* values setval is called with
    Forms,       \* forms of ALTER SEQUENCE: [restart, inc, owned], 0 or "keep" when absent
    MaxSteps     \* calls in a behaviour

VARIABLES
    reg,      \* name -> its state, of the sequences that exist
    own,      \* set of <<column, name>>: the sequences owned by a column
    last,     \* session -> what lastval returns (0: undefined)
    seen,     \* session -> the sequences it has advanced
    file,     \* what SEQUENCES holds
    steps,
    issued,   \* history: name -> values nextval has returned since the sequence was last set
    mine,     \* history: session -> name -> the last value it was given (0: none)
    slips     \* history: the irregularities seen

vars == <<reg, own, last, seen, file, steps, issued, mine, slips>>

Fresh == [last |-> 1, called |-> FALSE, inc |-> 1]
Column == "c"
With(f, x, y) == [z \in DOMAIN f \union {x} |-> IF z = x THEN y ELSE f[z]]
Without(f, x) == [z \in DOMAIN f \ {x} |-> f[z]]

Init ==
    /\ reg = <<>> /\ own = {} /\ last = [s \in Sessions |-> 0] /\ seen = [s \in Sessions |-> {}]
    /\ file = [reg |-> <<>>, own |-> {}]
    /\ steps = 0
    /\ issued = [n \in Names |-> {}]
    /\ mine = [s \in Sessions |-> [n \in Names |-> 0]]
    /\ slips = {}

\* Mutant: the registry is not written.
PersistNever(odd) ==
    /\ steps < MaxSteps /\ steps' = steps + 1
    /\ slips' = slips \union odd
    /\ UNCHANGED file

\* touch_sequences: the registry is written to a temporary file and renamed over
\* SEQUENCES.  A failure is logged and forgotten.
PersistNoting(odd) ==
    /\ steps < MaxSteps /\ steps' = steps + 1
    /\ \/ file' = [reg |-> reg', own |-> own'] /\ slips' = slips \union odd
       \/ "unsaved" \notin slips /\ UNCHANGED file /\ slips' = slips \union odd \union {"unsaved"}
Persist == PersistNoting({})

\* ensure_sequence: a sequence that does not exist is created on first use.
StateOf(n) == IF n \in DOMAIN reg THEN reg[n] ELSE Fresh

\* saturating_add.
Advance(q) == IF ~q.called THEN [q EXCEPT !.called = TRUE]
              ELSE [q EXCEPT !.last = IF q.last + q.inc > MaxValue THEN MaxValue ELSE q.last + q.inc]

nextval(s, n) ==
    LET q == Advance(StateOf(n))
    IN /\ reg' = With(reg, n, q)
       /\ last' = [last EXCEPT ![s] = q.last]
       /\ seen' = [seen EXCEPT ![s] = @ \union {n}]
       /\ issued' = [issued EXCEPT ![n] = @ \union {q.last}]
       /\ mine' = [mine EXCEPT ![s][n] = q.last]
       /\ UNCHANGED own
       /\ PersistNoting(IF q.last \in issued[n] /\ q.last # MaxValue THEN {"repeated"} ELSE {})

\* A call that sets the sequence anew starts a new run of values.
Restarted(n) == issued' = [issued EXCEPT ![n] = {}]

setval(s, n, v, called) ==
    /\ reg' = With(reg, n, [StateOf(n) EXCEPT !.last = v, !.called = called])
    /\ last' = IF called THEN [last EXCEPT ![s] = v] ELSE last
    /\ seen' = IF called THEN [seen EXCEPT ![s] = @ \union {n}] ELSE seen
    /\ mine' = [t \in Sessions |-> [mine[t] EXCEPT ![n] = IF t = s /\ called THEN v ELSE 0]]
    /\ Restarted(n) /\ UNCHANGED own /\ Persist

create_sequence(n, start, inc) ==
    /\ n \notin DOMAIN reg
    /\ reg' = With(reg, n, [last |-> start, called |-> FALSE, inc |-> inc])
    /\ Restarted(n) /\ UNCHANGED <<own, last, seen, mine>> /\ Persist

\* Mutant: the column keeps the dropped sequence.
drop_sequence_owned(n) ==
    /\ n \in DOMAIN reg
    /\ reg' = Without(reg, n)
    /\ mine' = [t \in Sessions |-> [mine[t] EXCEPT ![n] = 0]]
    /\ Restarted(n) /\ UNCHANGED <<own, last, seen>> /\ Persist

\* The sessions' records of having advanced it stay.
drop_sequence(n) ==
    /\ n \in DOMAIN reg
    /\ reg' = Without(reg, n)
    /\ own' = {x \in own : x[2] # n}
    /\ mine' = [t \in Sessions |-> [mine[t] EXCEPT ![n] = 0]]
    /\ Restarted(n) /\ UNCHANGED <<last, seen>> /\ Persist

\* DROP TABLE and DROP COLUMN drop the sequence the column owns.
drop_sequence_owned_by_column ==
    \E x \in own : drop_sequence(x[2])

\* ALTER SEQUENCE: RESTART, INCREMENT, OWNED BY and RENAME TO in this order.  A new
\* name that is taken fails the call, unsaved, with the other parts done.
alter_sequence(n, form, to) ==
    LET q == [last |-> IF form.restart # 0 THEN form.restart ELSE reg[n].last,
              called |-> reg[n].called /\ form.restart = 0,
              inc |-> IF form.inc # 0 THEN form.inc ELSE reg[n].inc]
        owner == CASE form.owned = "keep" -> own
                   [] form.owned = "none" -> {x \in own : x[2] # n}
                   [] form.owned = "column" -> {x \in own : x[2] # n /\ x[1] # Column} \union {<<Column, n>>}
        values == IF form.restart # 0 THEN {} ELSE issued[n]
        gone == IF form.restart # 0 THEN {n} ELSE {}
        forget(names) == mine' = [t \in Sessions |-> [m \in Names |-> IF m \in names THEN 0 ELSE mine[t][m]]]
    IN /\ n \in DOMAIN reg
       /\ UNCHANGED <<last, seen>>
       /\ IF to = n \/ to \in DOMAIN reg
          THEN /\ reg' = [reg EXCEPT ![n] = q] /\ own' = owner
               /\ issued' = [issued EXCEPT ![n] = values] /\ forget(gone)
               /\ IF to = n THEN Persist
                  ELSE steps < MaxSteps /\ steps' = steps + 1 /\ UNCHANGED <<file, slips>>
          ELSE /\ reg' = With(Without(reg, n), to, q)
               /\ own' = {<<x[1], IF x[2] = n THEN to ELSE x[2]>> : x \in owner}
               /\ issued' = [issued EXCEPT ![to] = values, ![n] = {}] /\ forget({n, to})
               /\ Persist

\* The process restarts: load_sequences reads the file, sessions are new.
Restart ==
    /\ steps < MaxSteps /\ steps' = steps + 1
    /\ reg' = file.reg /\ own' = file.own
    /\ last' = [s \in Sessions |-> 0] /\ seen' = [s \in Sessions |-> {}]
    /\ mine' = [s \in Sessions |-> [n \in Names |-> 0]]
    /\ UNCHANGED <<file, issued, slips>>

Next ==
    \/ \E s \in Sessions, n \in Names :
         \/ nextval(s, n)
         \/ \E v \in SetValues : setval(s, n, v, TRUE) \/ setval(s, n, v, FALSE)
    \/ \E n \in Names :
         \/ create_sequence(n, 1, 2)
         \/ drop_sequence(n)
         \/ \E form \in Forms, to \in Names : alter_sequence(n, form, to)
    \/ drop_sequence_owned_by_column
    \/ Restart

---------------------------------------------------------------------------

\* What currval answers: the sequence's own last value, to a session that has
\* advanced it (0: not yet defined in this session).
currval(s, n) == IF n \in seen[s] /\ n \in DOMAIN reg /\ reg[n].called THEN reg[n].last ELSE 0

\* nextval hands no value out twice between two settings of the sequence, across
\* sessions, renames and restarts, unless the registry could not be saved or the
\* sequence has reached the largest value, which it then repeats.
NextvalUnique == "repeated" \in slips => "unsaved" \in slips


\* The sequence a column owns exists, over drops, renames, changes of owner and
\* restarts.
OwnedExist == \A x \in own : x[2] \in DOMAIN reg
=============================================================================
