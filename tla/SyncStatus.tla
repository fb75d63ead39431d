----------------------------- MODULE SyncStatus -----------------------------
(***************************************************************************)
(* The status the sync engine publishes to the JSON-RPC layer              *)
(* (sync/status.rs): the raw signals, the operations of SyncStatusWriter   *)
(* on them, and the derived status that gates balance and spend methods.   *)
(* A `fully_synced` of None is 0: a wallet birthday is at least 1.         *)
(***************************************************************************)
LOCAL INSTANCE Naturals

CONSTANT Tolerance   \* sync.lock_threshold

Signals == [tip : Nat, fs : Nat, reached : BOOLEAN, recovering : BOOLEAN]

Initially == [tip |-> 0, fs |-> 0, reached |-> FALSE, recovering |-> FALSE]

SetTip(s, h) == [s EXCEPT !.tip = h]
SetFullySynced(s, h) == [s EXCEPT !.fs = h]
BeginRecovery(s) == [s EXCEPT !.recovering = TRUE]

\* What steady_state publishes when it has reached the tip of its view:
\* set_fully_synced, mark_tip_reached, end_recovery.
ReachTip(s, h) == [s EXCEPT !.fs = h, !.reached = TRUE, !.recovering = FALSE]

\* A variant of the derivation below that lets a near tip hide a recovery.
StatusIgnoringRecovery(s) ==
  IF s.reached /\ s.fs # 0 /\ s.tip <= s.fs + Tolerance THEN "Synced" ELSE "CatchingUp"

\* SyncSignals::status; the subtraction saturates.
Status(s) ==
  IF s.recovering THEN "Recovering"
  ELSE IF s.reached /\ s.fs # 0 /\ s.tip <= s.fs + Tolerance THEN "Synced"
  ELSE "CatchingUp"

\* SyncStatusReader::ensure_available lets balance and spend methods through.
Available(s) == Status(s) = "Synced"
=============================================================================
