---------------------------- MODULE TreeRecovery ----------------------------
(***************************************************************************)
(* Bookkeeping of the note-commitment-tree divergence recovery (sync.rs):  *)
(* struct TreeRecovery and tree_recovery_target.  A `high_water` of None   *)
(* is 0, and so is a target of None: a wallet birthday is at least 1.      *)
(***************************************************************************)
LOCAL INSTANCE Naturals
LOCAL INSTANCE Sequences

CONSTANT Ladder     \* TREE_RECOVERY_LADDER
NoTarget == 0

NoRecovery == [attempts |-> 0, high |-> 0]

\* A variant of next_depth that never uses up a rung.
ObserveNoCount(r, tip) == [attempts |-> r.attempts, high |-> IF r.high = 0 THEN tip ELSE r.high]

\* TreeRecovery::next_depth: record the high-water mark and use up a rung.
Observe(r, tip) ==
  [attempts |-> IF r.attempts < Len(Ladder) THEN r.attempts + 1 ELSE r.attempts,
   high     |-> IF r.high = 0 THEN tip ELSE r.high]

\* TreeRecovery::note_progress: only a tip above the high-water mark ends a
\* recovery.
NoteProgress(r, tip) == IF r.high # 0 /\ tip > r.high THEN NoRecovery ELSE r

\* The rung that Observe takes, and where it leads from `tip`: at most down
\* to the birthday, and strictly down.
Target(r, tip, birthday) ==
  IF r.attempts >= Len(Ladder) THEN NoTarget
  ELSE LET depth == Ladder[r.attempts + 1]
           low   == IF tip >= depth THEN tip - depth ELSE 0
           t     == IF low >= birthday THEN low ELSE birthday
       IN  IF t < tip THEN t ELSE NoTarget
=============================================================================
