------------------------------- MODULE Session -------------------------------
(* SQL sessions (SessionState, pg.rs) and the process-wide registries they     *)
(* share (sql.rs): advisory locks, with session and transaction scope, and    *)
(* LISTEN / NOTIFY queues; and the session's settings, of which one is        *)
(* modelled, with SET, SET LOCAL and set_config.  A statement runs under the  *)
(* session's mutex and takes each registry's mutex in turn, so it is one      *)
(* action; sessions interleave by statements.  A connection that goes away    *)
(* has no action: nothing removes its session, which merely does no more.     *)
EXTENDS Integers, Sequences, FiniteSets

CONSTANTS
    Sessions,
    Keys,       \* advisory lock keys
    Settings,   \* values of the setting
    QueueCap,   \* NOTIFY_QUEUE_CAPACITY
    MaxSteps    \* statements in a behaviour

VARIABLES
    txn,      \* session -> an explicit transaction is open
    locks,    \* key -> session -> how often it holds the lock exclusively, and shared
    xact,     \* session -> key -> how many of those holds end with the transaction
    guc,      \* session -> the setting, and what to restore at the transaction's end (0: nothing)
    mail,     \* the listening sessions, and session -> its queue of notifications
    steps,
    granted,  \* history: session -> key -> session-level and transaction-level holds, as asked for
    wanted,   \* history: session -> the last value given to the setting for the session
    slips     \* history: the irregular statements seen

vars == <<txn, locks, xact, guc, mail, steps, granted, wanted, slips>>

Modes == {"excl", "shared"}
None == 0

Init ==
    /\ txn = [s \in Sessions |-> FALSE]
    /\ locks = [k \in Keys |-> [m \in Modes |-> [s \in Sessions |-> 0]]]
    /\ xact = [s \in Sessions |-> [k \in Keys |-> [m \in Modes |-> 0]]]
    /\ guc = [s \in Sessions |-> [value |-> CHOOSE v \in Settings : TRUE, restore |-> None]]
    /\ mail = [listening |-> {}, queue |-> [s \in Sessions |-> <<>>], sent |-> 0]
    /\ steps = 0
    /\ granted = [s \in Sessions |-> [k \in Keys |-> [m \in Modes |-> [sess |-> 0, xact |-> 0]]]]
    /\ wanted = [s \in Sessions |-> CHOOSE v \in Settings : TRUE]
    /\ slips = {}

---------------------------------------------------------------------------
(* Advisory locks. *)

Held(k, m) == {s \in Sessions : locks[k][m][s] > 0}

\* pg_try_advisory_lock: nobody holds the key shared, and nobody else exclusively.
\* pg_try_advisory_lock_shared: nobody holds it exclusively, this session included.
CanLock(s, k, m) == IF m = "excl" THEN Held(k, "shared") = {} /\ Held(k, "excl") \subseteq {s}
                                  ELSE Held(k, "excl") = {}

\* Mutant: an unlock releases every level.
ReleaseAll(L, s, k, m, n) == IF n = 0 THEN L ELSE [L EXCEPT ![k][m][s] = 0]

\* pg_advisory_unlock and pg_advisory_unlock_shared release one level, n times.
Release(L, s, k, m, n) == [L EXCEPT ![k][m][s] = IF @ >= n THEN @ - n ELSE 0]

\* The end of every statement: outside an explicit transaction the holds of
\* transaction scope are released (run_plan).
AfterStatement(s, L, X, G, open) ==
    /\ steps < MaxSteps /\ steps' = steps + 1
    /\ IF open THEN locks' = L /\ xact' = X /\ granted' = G
       ELSE /\ locks' = [k \in Keys |-> [m \in Modes |->
                           Release(L, s, k, m, X[s][k][m])[k][m]]]
            /\ xact' = [X EXCEPT ![s] = [k \in Keys |-> [m \in Modes |-> 0]]]
            /\ granted' = [G EXCEPT ![s] = [k \in Keys |-> [m \in Modes |->
                             [G[s][k][m] EXCEPT !.xact = 0]]]]

\* pg_[try_]advisory_[xact_]lock[_shared]: the lock, and for transaction scope
\* its bookkeeping.  A refused lock is an error or FALSE; nothing changes.
Lock(s, k, m, scope) ==
    /\ CanLock(s, k, m)
    /\ AfterStatement(s, [locks EXCEPT ![k][m][s] = @ + 1],
                      IF scope = "xact" THEN [xact EXCEPT ![s][k][m] = @ + 1] ELSE xact,
                      [granted EXCEPT ![s][k][m][scope] = @ + 1], txn[s])
    /\ UNCHANGED <<txn, guc, mail, wanted, slips>>

\* pg_advisory_unlock[_shared] does not ask for the scope of the hold.
Unlock(s, k, m) ==
    /\ locks[k][m][s] > 0
    /\ AfterStatement(s, Release(locks, s, k, m, 1), xact,
                      [granted EXCEPT ![s][k][m].sess = IF @ > 0 THEN @ - 1 ELSE @], txn[s])
    /\ slips' = slips \union (IF granted[s][k][m].sess = 0 THEN {"unlocked_xact"} ELSE {})
    /\ UNCHANGED <<txn, guc, mail, wanted>>

\* pg_advisory_unlock_all drops every hold of the session, of both scopes.
UnlockAll(s) ==
    /\ \E k \in Keys, m \in Modes : locks[k][m][s] > 0
    /\ AfterStatement(s, [k \in Keys |-> [m \in Modes |-> [locks[k][m] EXCEPT ![s] = 0]]],
                      [xact EXCEPT ![s] = [k \in Keys |-> [m \in Modes |-> 0]]],
                      [granted EXCEPT ![s] = [k \in Keys |-> [m \in Modes |->
                                                [sess |-> 0, xact |-> 0]]]], txn[s])
    /\ UNCHANGED <<txn, guc, mail, wanted, slips>>

---------------------------------------------------------------------------
(* Transactions and settings. *)

Begin(s) ==
    /\ ~txn[s]
    /\ txn' = [txn EXCEPT ![s] = TRUE]
    /\ AfterStatement(s, locks, xact, granted, TRUE)
    /\ UNCHANGED <<guc, mail, wanted, slips>>

\* COMMIT, which restores the settings whether or not it succeeds, and ROLLBACK.
End(s) ==
    /\ txn[s]
    /\ txn' = [txn EXCEPT ![s] = FALSE]
    /\ guc' = [guc EXCEPT ![s] = [value |-> IF @.restore = None THEN @.value ELSE @.restore,
                                  restore |-> None]]
    /\ AfterStatement(s, locks, xact, granted, FALSE)
    /\ UNCHANGED <<mail, wanted, slips>>

\* SET: the value alone; what is to be restored stays as it is.  plan_set drops
\* the scope of the statement, so SET LOCAL does the same.
Set(s, v, local) ==
    /\ guc' = [guc EXCEPT ![s].value = v]
    /\ wanted' = IF local THEN wanted ELSE [wanted EXCEPT ![s] = v]
    /\ slips' = slips \union (IF local THEN {"set_local"}
                              ELSE IF guc[s].restore # None THEN {"set_after_local"} ELSE {})
    /\ AfterStatement(s, locks, xact, granted, txn[s])
    /\ UNCHANGED <<txn, mail>>

\* Mutant: a second local set_config notes the first one's value to go back to.
SetConfigLatest(s, v, local) ==
    /\ local => txn[s]
    /\ guc' = [guc EXCEPT ![s] = [value |-> v, restore |-> IF local THEN @.value ELSE None]]
    /\ wanted' = IF local THEN wanted ELSE [wanted EXCEPT ![s] = v]
    /\ AfterStatement(s, locks, xact, granted, txn[s])
    /\ UNCHANGED <<txn, mail, slips>>

\* set_config in a query: for the session it cancels the restore; local, which
\* needs a transaction, it notes the value to go back to, once.
SetConfig(s, v, local) ==
    /\ local => txn[s]
    /\ guc' = [guc EXCEPT ![s] = [value |-> v,
                 restore |-> IF ~local THEN None
                             ELSE IF @.restore = None THEN @.value ELSE @.restore]]
    /\ wanted' = IF local THEN wanted ELSE [wanted EXCEPT ![s] = v]
    /\ AfterStatement(s, locks, xact, granted, txn[s])
    /\ UNCHANGED <<txn, mail, slips>>

---------------------------------------------------------------------------
(* LISTEN, UNLISTEN and NOTIFY, on one channel. *)

Listen(s) ==
    /\ mail' = [mail EXCEPT !.listening = @ \union {s}]
    /\ AfterStatement(s, locks, xact, granted, txn[s])
    /\ UNCHANGED <<txn, guc, wanted, slips>>

\* The queue stays.
Unlisten(s) ==
    /\ s \in mail.listening
    /\ mail' = [mail EXCEPT !.listening = @ \ {s}]
    /\ AfterStatement(s, locks, xact, granted, txn[s])
    /\ UNCHANGED <<txn, guc, wanted, slips>>

\* pg_notify, sent at once, also inside a transaction: the listeners are served
\* in the order of their ids, up to the first whose queue is full; then the
\* statement fails.
Notify(s) ==
    LET full == {t \in mail.listening : Len(mail.queue[t]) >= QueueCap}
        served == {t \in mail.listening : \A f \in full : t < f}
    IN /\ mail' = [mail EXCEPT
                     !.queue = [t \in Sessions |-> IF t \in served
                                  THEN Append(mail.queue[t], mail.sent + 1) ELSE mail.queue[t]],
                     !.sent = @ + 1]
       /\ slips' = slips \union (IF full # {} THEN {"queue_full"} ELSE {})
       /\ AfterStatement(s, locks, xact, granted, txn[s])
       /\ UNCHANGED <<txn, guc, wanted>>

\* drain_notifications.
Drain(s) ==
    /\ mail.queue[s] # <<>>
    /\ mail' = [mail EXCEPT !.queue[s] = <<>>]
    /\ UNCHANGED <<txn, locks, xact, guc, steps, granted, wanted, slips>>

Next ==
    \E s \in Sessions :
      \/ \E k \in Keys, m \in Modes :
           Lock(s, k, m, "sess") \/ Lock(s, k, m, "xact") \/ Unlock(s, k, m)
      \/ UnlockAll(s) \/ Begin(s) \/ End(s)
      \/ \E v \in Settings : \E local \in BOOLEAN : Set(s, v, local) \/ SetConfig(s, v, local)
      \/ Listen(s) \/ Unlisten(s) \/ Notify(s) \/ Drain(s)

---------------------------------------------------------------------------
(* Properties. *)

\* Advisory locks are as granted: an exclusive hold excludes every hold of
\* another session, and the holds in the table are those the session asked for
\* and has neither released nor, at transaction scope, outlived; so a
\* transaction's end takes no lock of session scope with it.  Except after an
\* explicit unlock of a hold of transaction scope, which the unlock functions do
\* not tell apart: the bookkeeping then releases a later hold.
LocksAsGranted ==
    /\ \A k \in Keys : \A s \in Held(k, "excl") : \A m \in Modes : Held(k, m) \subseteq {s}
    /\ "unlocked_xact" \notin slips =>
         \A s \in Sessions, k \in Keys, m \in Modes :
           locks[k][m][s] = granted[s][k][m].sess + granted[s][k][m].xact

\* Outside a transaction the session's setting is the last value given to it for
\* the session: no set_config(.., true) outlives its transaction, however often it
\* is repeated, and the transaction's end undoes no set_config(.., false).  Not so
\* the SET statements, which do not go through the same code: a SET LOCAL does
\* outlive its transaction (local_guc_restore's comment says it is restored), and
\* a plain SET after set_config(.., true) is undone with it.
LocalConfigEnds ==
    \A s \in Sessions :
      /\ txn[s] \/ guc[s].restore = None
      /\ (~txn[s] /\ slips \intersect {"set_after_local", "set_local"} = {}) => guc[s].value = wanted[s]
=============================================================================
