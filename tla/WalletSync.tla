----------------------------- MODULE WalletSync -----------------------------
(***************************************************************************)
(* The sync engine (zallet-core/src/components/sync.rs, sync/steps.rs):    *)
(* `initialize`, then the tasks `steady_state` and `recover_history`, each *)
(* with its own database connection, against a chain that grows, reorgs    *)
(* and rolls back under them.  One action per stretch of code between two  *)
(* points at which another task or the chain can get in between: an await, *)
(* a database transaction or a published signal.                           *)
(*                                                                         *)
(* External parts, modelled from how the code uses them:                   *)
(*  - the chain: `best` is the backend's best tip.  Blocks ReorgDepth      *)
(*    below the highest tip seen are final;                                *)
(*  - a chain view: named by the tip it was pinned to.  Reading a block    *)
(*    of it that is no longer on the best chain may fail as Unavailable;   *)
(*  - the wallet database: the blocks it stores (one per height), the      *)
(*    heights that are checkpoints in its note commitment trees, the       *)
(*    heights at which it holds a wrong frontier (`bad`), and the highest  *)
(*    chain tip it was told of, where the ranges it suggests end (`told`). *)
(***************************************************************************)
EXTENDS ForkPoint, FiniteSets

CONSTANTS
  MaxHeight, MaxMoves,     \* bounds: chain length, number of chain changes
  Chain0,                  \* the best chain at the start
  ReorgDepth,              \* how far below its highest tip the chain reorgs
  Rollbacks,               \* the best chain may get shorter
  OfflineReorgs,           \* a reorg or a rollback may go by while steady_state is
                           \* not running; else the chain then only grows, on top of
                           \* what the wallet stores
  BoundaryDepth,           \* update_boundary's 100
  BatchSize,               \* blocks recover_history scans at a time
  ShutdownHeight,          \* the consensus-divergence height, if reachable
  CheckpointDepth, AnchorInterval,   \* checkpoints the database retains
  MaxBadFrontiers,         \* bound: wrong frontiers a backend may hand out
  TreeRetries,             \* TREE_DIVERGENCE_RETRIES
  MaxRestarts,             \* bound: starts after the first
  Tolerance, Ladder

VARIABLES
  best, top, moves,                 \* the chain
  proc, why, restarts,              \* the process and why it last exited
  stored, ckpt, bad, faults, told,  \* the wallet database
  pc, view, prev, fork, tree,       \* initialize, then steady_state
  boundary,                         \* shared: lower_boundary
  hpc, hview, hlo, hend, htry, hfs, \* recover_history
  pub                               \* shared: the published SyncSignals

INSTANCE SyncStatus
INSTANCE TreeRecovery

chainVars == <<best, top, moves>>
procVars == <<proc, why, restarts>>
dbVars == <<stored, ckpt, bad, faults, told>>
steadyVars == <<pc, view, prev, fork, tree>>
histVars == <<hpc, hview, hlo, hend, htry, hfs>>
vars == <<chainVars, procVars, dbVars, steadyVars, boundary, histVars, pub>>

ASSUME SyncAssumption ==
  /\ {MaxHeight, MaxMoves, ReorgDepth, BoundaryDepth, ShutdownHeight,
      MaxBadFrontiers, TreeRetries, MaxRestarts, Tolerance} \subseteq Nat
  /\ {BatchSize, CheckpointDepth, AnchorInterval} \subseteq Nat \ {0}
  /\ {Rollbacks, OfflineReorgs} \subseteq BOOLEAN
  /\ Ladder \in Seq(Nat)
  /\ Chain0 \in Block
-----------------------------------------------------------------------------
Chains == UNION {[1..h -> Branches] : h \in 0..MaxHeight}

\* The height up to which the chain can no longer change.
Final == SatSub(top, ReorgDepth)

\* A read of height h of the view pinned to v may fail: the view is stale
\* and h is not final in it.
MayBeUnavailable(v, h) == ~IsAnc(v, best) /\ h > SatSub(Len(v), ReorgDepth)

\* A variant in which every backend's stream ends early.
MayEndEarlyAlways(v, h) == MayBeUnavailable(v, h)

\* Zebra's block stream takes a block that is gone for its end ...
MayEndEarly(v, h) == ~PinnedSearch /\ MayBeUnavailable(v, h)

\* ... and its tree states are those of the live best chain only.
TreeStateServed(v, h) == PinnedSearch \/ h <= SatSub(Len(v), ReorgDepth) \/ IsAnc(Anc(v, h), best)

Heights(S) == {Len(b) : b \in S}
Blocks(v, lo, hi) == {Anc(v, h) : h \in lo..hi}

\* Unscanned heights of an interval, and its maximal unscanned runs: the
\* ranges suggest_scan_ranges can return.
Unscanned(lo, hi) == {h \in MaxOf(lo, Birthday)..hi : h \notin Heights(stored)}
Runs(U) == {r \in U \X U : r[1] <= r[2] /\ r[1]..r[2] \subseteq U
                           /\ r[2] + 1 \notin U /\ \A h \in U : h + 1 # r[1]}

\* block_fully_scanned: the end of the scanned stretch at the birthday.
FullyScanned ==
  LET done == {h \in Heights(stored) : Birthday..h \subseteq Heights(stored)}
  IN  IF done = {} THEN 0 ELSE CHOOSE h \in done : \A g \in done : g <= h

Init ==
  /\ best = Chain0 /\ top = Len(Chain0) /\ moves = 0
  /\ proc = "init" /\ why = "none" /\ restarts = 0
  /\ stored = {} /\ ckpt = {} /\ bad = {} /\ faults = 0 /\ told = 0
  /\ pc = "pin" /\ view = Genesis /\ prev = Genesis /\ fork = Genesis /\ tree = NoRecovery
  /\ boundary = 0
  /\ hpc = "off" /\ hview = Genesis /\ hlo = 0 /\ hend = 0 /\ htry = 0 /\ hfs = 0
  /\ pub = Initially
-----------------------------------------------------------------------------
(***************************************************************************)
(* The chain: an extension, a reorg or a rollback above the final block.   *)
(***************************************************************************)
ChainMoves ==
  /\ moves < MaxMoves
  /\ \E b \in Chains \ {best} :
       /\ IsAnc(Anc(best, Final), b)
       /\ Rollbacks \/ Len(b) >= Len(best)
       /\ OfflineReorgs \/ proc = "run" \/ (IsAnc(best, b) /\ \A s \in stored : Comparable(s, b))
       /\ best' = b
       /\ top' = MaxOf(top, Len(b))
  /\ moves' = moves + 1
  /\ UNCHANGED <<procVars, dbVars, steadyVars, boundary, histVars, pub>>

(***************************************************************************)
(* The process.  Any sync task that ends takes the whole process down; the *)
(* database survives, everything else starts afresh.  A crash also stands  *)
(* for the errors no action below models: of the backend, of the database. *)
(***************************************************************************)
Exit(w) ==
  /\ proc' = "down" /\ why' = w /\ UNCHANGED restarts
  /\ pc' = "off" /\ view' = Genesis /\ prev' = Genesis /\ fork' = Genesis /\ tree' = NoRecovery
  /\ boundary' = 0
  /\ hpc' = "off" /\ hview' = Genesis /\ hlo' = 0 /\ hend' = 0 /\ htry' = 0 /\ hfs' = 0
  /\ pub' = Initially
  /\ UNCHANGED <<chainVars>>

Crash ==
  /\ proc # "down" /\ restarts < MaxRestarts
  /\ Exit("crash") /\ UNCHANGED dbVars

Restart ==
  /\ proc = "down" /\ restarts < MaxRestarts
  /\ OfflineReorgs \/ \A s \in stored : Comparable(s, best)
  /\ proc' = "init" /\ pc' = "pin" /\ restarts' = restarts + 1
  /\ UNCHANGED <<chainVars, why, dbVars, view, prev, fork, tree, boundary, histVars, pub>>

(***************************************************************************)
(* The wallet database.                                                    *)
(***************************************************************************)
\* Checkpoints kept: the most recent ones and the periodic anchors.
Retained(C) ==
  {c \in C : Cardinality({d \in C : d > c}) < CheckpointDepth \/ c % AnchorInterval = 0}

\* put_blocks refuses a block where the wallet holds another one ...
BlockConflict(bs) == \E b \in bs, s \in stored : Len(s) = Len(b) /\ s # b

\* ... and, failing that, may find that its trees disagree with what it is
\* given: it holds a wrong frontier, or a neighbouring block of another chain.
TreeMayConflict(v, lo, hi) ==
  /\ ~BlockConflict(Blocks(v, lo, hi))
  /\ \/ bad # {}
     \/ \E s \in stored : Len(s) + 1 = lo /\ ~IsAnc(s, v)
     \/ \E s \in stored : Len(s) = hi + 1 /\ ~IsAnc(Anc(v, hi), s)

PutBlocks(bs) ==
  /\ ~BlockConflict(bs)
  /\ stored' = stored \cup bs
  /\ ckpt' = Retained(ckpt \cup Heights(bs))
  /\ \/ UNCHANGED <<bad, faults>>
     \/ /\ faults < MaxBadFrontiers
        /\ \E b \in bs : bad' = bad \cup {Len(b)}
        /\ faults' = faults + 1

\* update_chain_tip: the suggested ranges reach up to the highest tip seen.
UpdateChainTip(h) == MaxOf(told, h)

\* truncate_to_wallet_checkpoint: the highest checkpoint at or below the
\* target, else the lowest checkpoint there is.
Landing(t) ==
  LET below == {c \in ckpt : c <= t}
  IN  IF below # {} THEN CHOOSE c \in below : \A d \in below : d <= c
                    ELSE CHOOSE c \in ckpt : \A d \in ckpt : c <= d

\* truncate_to_height
TruncateTo(h) ==
  /\ stored' = {b \in stored : Len(b) <= h}
  /\ ckpt' = {c \in ckpt : c <= h}
  /\ bad' = {c \in bad : c <= h}
  /\ told' = MinOf(told, h)
  /\ UNCHANGED faults

\* A variant that resumes from the block asked for.
ResumeAtTarget(h, target) == IF BlockAt(stored, target) # NoBlock THEN BlockAt(stored, target)
                             ELSE BlockAt(stored, h)

\* resume_point: scanning resumes from the block the wallet landed on.
ResumePoint(h, target) == BlockAt(stored, h)
-----------------------------------------------------------------------------
(***************************************************************************)
(* initialize                                                              *)
(***************************************************************************)
UpdateBoundary(b, tip) == MaxOf(b, SatSub(tip, BoundaryDepth))

InitPin ==
  /\ proc = "init" /\ pc = "pin"
  /\ view' = best
  /\ pub' = SetTip(pub, Len(best))
  /\ boundary' = UpdateBoundary(0, Len(best))
  /\ pc' = "scan"
  /\ told' = UpdateChainTip(Len(best))
  /\ UNCHANGED <<chainVars, procVars, stored, ckpt, bad, faults, prev, fork, tree, histVars>>

\* A Verify range starts right above the highest block scanned.
VerifyStart == IF stored = {} THEN boundary ELSE Len(Highest(stored)) + 1

\* select_initial_scan_range
InitRanges ==
  UNION {Runs(Unscanned(lo, Len(view))) : lo \in {boundary, VerifyStart}}

\* A variant that scans the divergence height itself.
ClampInclusive(hi) == IF ShutdownHeight <= hi THEN ShutdownHeight ELSE hi

\* clamp_to_boundary: the last height of a range that may be scanned.
Clamp(hi) == IF ShutdownHeight <= hi THEN SatSub(ShutdownHeight, 1) ELSE hi

\* Hand over to the two tasks.
StartTasks ==
  /\ proc' = "run" /\ UNCHANGED <<why, restarts>>
  /\ prev' = view /\ pc' = "pin" /\ view' = Genesis /\ UNCHANGED <<fork, tree>>
  /\ hpc' = "choose" /\ UNCHANGED <<hview, hlo, hend, htry, hfs>>

\* What scan_blocks may read of [lo, hi] before the stream ends.
StreamEnds(v, lo, hi) ==
  IF MayEndEarly(v, hi) THEN (lo - 1)..hi ELSE {hi}

InitScan ==
  /\ proc = "init" /\ pc = "scan"
  /\ \E r \in InitRanges :
       LET lo == r[1]  hi == Clamp(r[2])
       IN \/ /\ lo > hi       \* wholly beyond the divergence height
             /\ StartTasks
             /\ UNCHANGED dbVars
             /\ pub' = SetFullySynced(pub, FullyScanned)
          \/ /\ lo <= hi /\ TreeStateServed(view, lo - 1)
             /\ \E end \in StreamEnds(view, lo, hi) : PutBlocks(Blocks(view, lo, end))
             /\ UNCHANGED told
             /\ IF hi < r[2]
                THEN StartTasks /\ pub' = SetFullySynced(pub, FullyScanned')
                ELSE pc' = "pin" /\ UNCHANGED <<procVars, view, prev, fork, tree, histVars, pub>>
  /\ UNCHANGED <<chainVars, boundary>>

InitScanStale ==
  /\ proc = "init" /\ pc = "scan"
  /\ \E r \in InitRanges : r[1] <= Clamp(r[2]) /\ MayBeUnavailable(view, Clamp(r[2]))
  /\ pc' = "pin"
  /\ UNCHANGED <<chainVars, procVars, dbVars, view, prev, fork, tree, boundary, histVars, pub>>

\* Nothing to scan and no tip block: the wallet has no work at its tip.
TipMissing == InitRanges = {} /\ view # Genesis /\ BlockAt(stored, Len(view)) = NoBlock

\* Any other error ends the process, a vanished tip block included.
InitFails ==
  /\ proc = "init" /\ pc = "scan"
  /\ \/ /\ \E r \in InitRanges \cup (IF TipMissing THEN {<<Len(view), Len(view)>>} ELSE {}) :
               r[1] <= Clamp(r[2]) /\ TreeMayConflict(view, r[1], Clamp(r[2]))
        /\ Exit("tree")
     \/ TipMissing /\ MayEndEarly(view, Len(view)) /\ Exit("backend")
  /\ UNCHANGED dbVars

\* Commit the missing tip block, unless the view went stale.
InitTip ==
  /\ proc = "init" /\ pc = "scan" /\ InitRanges = {}
  /\ \/ /\ ~TipMissing \/ Len(view) >= ShutdownHeight \/ MayBeUnavailable(view, Len(view))
        /\ UNCHANGED dbVars
     \/ /\ TipMissing /\ Len(view) < ShutdownHeight /\ TreeStateServed(view, Len(view) - 1)
        /\ PutBlocks({view}) /\ UNCHANGED told
  /\ StartTasks
  /\ pub' = SetFullySynced(pub, FullyScanned')
  /\ UNCHANGED <<chainVars, boundary>>
-----------------------------------------------------------------------------
(***************************************************************************)
(* steady_state                                                            *)
(***************************************************************************)
\* Pin a view; when its tip is not the block last applied, move the boundary
\* and publish the tip.
Pin ==
  /\ proc = "run" /\ pc = "pin"
  /\ view' = best
  /\ IF best = prev
     THEN pc' = "caught" /\ UNCHANGED <<boundary, pub>>
     ELSE /\ pc' = "locate"
          /\ boundary' = UpdateBoundary(boundary, Len(best))
          /\ pub' = SetTip(pub, Len(best))
  /\ UNCHANGED <<chainVars, procVars, dbVars, prev, fork, tree, histVars>>

\* A variant that goes on without a rewind.
LocateNoRewind ==
  /\ proc = "run" /\ pc = "locate"
  /\ \E f \in LocateForkPoint(stored, prev, view, best) \ {NoBlock} :
       Len(f) <= Len(view) /\ (f = prev \/ Len(f) < Len(prev))
  /\ pc' = "apply"
  /\ UNCHANGED <<chainVars, procVars, dbVars, view, prev, fork, tree, boundary, histVars, pub>>

\* Found: no reorg, or one to rewind.  The two assertions hold.
Locate ==
  /\ proc = "run" /\ pc = "locate"
  /\ \E f \in LocateForkPoint(stored, prev, view, best) \ {NoBlock} :
       /\ Len(f) <= Len(view)
       /\ f = prev \/ Len(f) < Len(prev)
       /\ pc' = IF f = prev THEN "apply" ELSE "rewind"
       /\ fork' = IF f = prev THEN fork ELSE f
  /\ UNCHANGED <<chainVars, procVars, dbVars, view, prev, tree, boundary, histVars, pub>>

LocateFails ==
  /\ proc = "run" /\ pc = "locate"
  /\ \E f \in LocateForkPoint(stored, prev, view, best) :
       \/ f = NoBlock /\ Exit("diverged")
       \/ f # NoBlock /\ (Len(f) > Len(view) \/ (f # prev /\ Len(f) >= Len(prev))) /\ Exit("panic")
  /\ UNCHANGED dbVars

\* Unavailable is retried from the top.
LocateStale ==
  /\ proc = "run" /\ pc = "locate"
  /\ MayStepBack(stored, prev, view, best) /\ MayBeUnavailable(view, Len(view))
  /\ pc' = "pin"
  /\ UNCHANGED <<chainVars, procVars, dbVars, view, prev, fork, tree, boundary, histVars, pub>>

\* A variant that keeps one block too many.
RewindOneShort ==
  /\ proc = "run" /\ pc \in {"rewind", "rewind-retry"}
  /\ TruncateTo(Landing(Len(fork) + 1))
  /\ prev' = ResumePoint(Landing(Len(fork) + 1), Len(fork))
  /\ pc' = IF pc = "rewind" THEN "mark" ELSE "mark-retry"
  /\ fork' = Genesis
  /\ UNCHANGED <<chainVars, procVars, view, tree, boundary, histVars, pub>>

\* Rewind to the fork point, then enter the recovering state.
Rewind ==
  /\ proc = "run" /\ pc \in {"rewind", "rewind-retry"}
  /\ TruncateTo(Landing(Len(fork)))
  /\ prev' = ResumePoint(Landing(Len(fork)), Len(fork))
  /\ pc' = IF pc = "rewind" THEN "mark" ELSE "mark-retry"
  /\ fork' = Genesis
  /\ UNCHANGED <<chainVars, procVars, view, tree, boundary, histVars, pub>>

Mark ==
  /\ proc = "run" /\ pc \in {"mark", "mark-retry"}
  /\ pub' = BeginRecovery(pub)
  /\ pc' = IF pc = "mark" THEN "apply" ELSE "pin"
  /\ UNCHANGED <<chainVars, procVars, dbVars, view, prev, fork, tree, boundary, histVars>>

next == Len(prev) + 1

\* scan_block refuses the divergence height itself.
ScanBlockRefuses(h) == h >= ShutdownHeight

\* Apply the next block of the view.
Apply ==
  /\ proc = "run" /\ pc = "apply"
  /\ next <= Len(view) /\ ~ScanBlockRefuses(next) /\ TreeStateServed(view, next - 1)
  /\ PutBlocks({Anc(view, next)})
  /\ told' = UpdateChainTip(next)
  /\ prev' = Anc(view, next)
  /\ UNCHANGED <<chainVars, procVars, pc, view, fork, tree, boundary, histVars, pub>>

ApplyDone ==
  /\ proc = "run" /\ pc = "apply"
  /\ next > Len(view) \/ MayEndEarly(view, next)
  /\ pc' = "caught"
  /\ UNCHANGED <<chainVars, procVars, dbVars, view, prev, fork, tree, boundary, histVars, pub>>

ApplyStale ==
  /\ proc = "run" /\ pc = "apply"
  /\ next <= Len(view) /\ MayBeUnavailable(view, next)
  /\ pc' = "pin"
  /\ UNCHANGED <<chainVars, procVars, dbVars, view, prev, fork, tree, boundary, histVars, pub>>

\* The stream or the tip is at the divergence height: graceful shutdown.
ShutDown ==
  /\ proc = "run"
  /\ \/ pc = "apply" /\ next <= Len(view) /\ ScanBlockRefuses(next)
     \/ pc = "caught" /\ Len(view) >= ShutdownHeight
  /\ Exit("shutdown") /\ UNCHANGED dbVars

\* A block conflict: take the block below as the previous tip and search
\* again, against a fresh view.
ApplyConflict ==
  /\ proc = "run" /\ pc = "apply"
  /\ next <= Len(view) /\ ~ScanBlockRefuses(next) /\ BlockConflict({Anc(view, next)})
  /\ UNCHANGED dbVars
  /\ IF BlockAt(stored, next - 1) = NoBlock
     THEN Exit("diverged")
     ELSE /\ view' = best
          /\ fork' = BlockAt(stored, next - 1)
          /\ pc' = "relocate"
          /\ UNCHANGED <<chainVars, procVars, prev, tree, boundary, histVars, pub>>

\* Here every error of the search ends the task.
Relocate ==
  /\ proc = "run" /\ pc = "relocate"
  /\ \/ \E f \in LocateForkPoint(stored, fork, view, best) \ {NoBlock} :
          /\ fork' = f
          /\ pc' = "rewind-retry"
          /\ UNCHANGED <<chainVars, procVars, view, prev, tree, boundary, histVars, pub>>
     \/ NoBlock \in LocateForkPoint(stored, fork, view, best) /\ Exit("diverged")
     \/ /\ MayStepBack(stored, fork, view, best) /\ MayBeUnavailable(view, Len(view))
        /\ Exit("unavailable")
  /\ UNCHANGED dbVars

\* A tree divergence: roll back by the next rung of the ladder and retry.
RecoverTree ==
  /\ proc = "run" /\ pc = "apply"
  /\ next <= Len(view) /\ ~ScanBlockRefuses(next) /\ TreeMayConflict(view, next, next)
  /\ LET target == Target(tree, Len(prev), Birthday)
     IN  IF target = NoTarget
         THEN Exit("tree") /\ UNCHANGED dbVars
         ELSE IF Landing(target) >= Len(prev)
         THEN Exit("tree") /\ TruncateTo(Landing(target))
         ELSE /\ TruncateTo(Landing(target))
              /\ prev' = ResumePoint(Landing(target), target)
              /\ tree' = Observe(tree, Len(prev))
              /\ pc' = "mark-retry"
              /\ UNCHANGED <<chainVars, procVars, view, fork, boundary, histVars, pub>>

\* A variant without the check of the tip against the divergence height.
CaughtUpUnchecked ==
  /\ proc = "run" /\ pc = "caught"
  /\ pub' = ReachTip(pub, FullyScanned)
  /\ pc' = "mempool"
  /\ UNCHANGED <<chainVars, procVars, dbVars, view, prev, fork, tree, boundary, histVars>>

\* Every block of the view is applied: publish it.
CaughtUp ==
  /\ proc = "run" /\ pc = "caught" /\ Len(view) < ShutdownHeight
  /\ pub' = ReachTip(pub, FullyScanned)
  /\ pc' = "mempool"
  /\ UNCHANGED <<chainVars, procVars, dbVars, view, prev, fork, tree, boundary, histVars>>

\* The mempool stream ends when the tip moves; none may be available yet.
MempoolEnds ==
  /\ proc = "run" /\ pc = "mempool"
  /\ tree' = NoteProgress(tree, Len(prev))
  /\ pc' = "pin"
  /\ UNCHANGED <<chainVars, procVars, dbVars, view, prev, fork, boundary, histVars, pub>>
-----------------------------------------------------------------------------
(***************************************************************************)
(* recover_history                                                         *)
(***************************************************************************)
\* What suggest_scan_ranges covers: nothing above every tip and every block
\* the database knows.
Suggested(hi) ==
  {h \in Unscanned(Birthday, hi) : h <= told \/ \E s \in stored : h < Len(s)}

\* Load the boundary and take the first suggested range below it.
HistChoose ==
  /\ proc = "run" /\ hpc = "choose"
  /\ \E r \in Runs(Suggested(SatSub(boundary, 1))) : hlo' = r[1] /\ hend' = r[2]
  /\ hpc' = "pin" /\ htry' = 0
  /\ UNCHANGED <<chainVars, procVars, dbVars, steadyVars, boundary, hview, hfs, pub>>

HistPin ==
  /\ proc = "run" /\ hpc = "pin"
  /\ hview' = best
  /\ hpc' = "scan"
  /\ UNCHANGED <<chainVars, procVars, dbVars, steadyVars, boundary, hlo, hend, htry, hfs, pub>>

batchEnd == MinOf(hlo + BatchSize - 1, hend)

\* Scan one batch; a view that ends below it is skipped.
HistScan ==
  /\ proc = "run" /\ hpc = "scan"
  /\ LET hi == Clamp(batchEnd)
     IN  IF hlo > hi \/ hlo > Len(hview) + 1
         THEN /\ hpc' = IF hlo > hi THEN "choose" ELSE "publish"
              /\ UNCHANGED dbVars
         ELSE /\ TreeStateServed(hview, hlo - 1)
              /\ \E end \in StreamEnds(hview, hlo, MinOf(hi, Len(hview))) :
                    PutBlocks(Blocks(hview, hlo, end)) /\ UNCHANGED told
              /\ hpc' = IF hi < batchEnd THEN "choose" ELSE "publish"
  /\ UNCHANGED <<chainVars, procVars, steadyVars, boundary, hview, hlo, hend, htry, hfs, pub>>

\* Wait for steady_state to repair the tree, a bounded number of times.
HistTreeConflict ==
  /\ proc = "run" /\ hpc = "scan"
  /\ hlo <= MinOf(Clamp(batchEnd), Len(hview))
  /\ TreeMayConflict(hview, hlo, MinOf(Clamp(batchEnd), Len(hview)))
  /\ UNCHANGED dbVars
  /\ IF htry >= TreeRetries THEN Exit("tree")
     ELSE /\ htry' = htry + 1 /\ hpc' = "pin"
          /\ UNCHANGED <<chainVars, procVars, steadyVars, boundary, hview, hlo, hend, hfs, pub>>

\* Any other error ends the task, and with it the wallet.
HistFails ==
  /\ proc = "run" /\ hpc = "scan"
  /\ hlo <= Clamp(batchEnd) /\ hlo <= Len(hview) + 1
  /\ LET hi == MinOf(Clamp(batchEnd), Len(hview))
     IN  \/ MayBeUnavailable(hview, hi) /\ Exit("unavailable")
         \/ BlockConflict(Blocks(hview, hlo, hi)) /\ Exit("conflict")
  /\ UNCHANGED dbVars

\* Republish the fully scanned height: read, then write.
HistRead ==
  /\ proc = "run" /\ hpc = "publish"
  /\ hfs' = FullyScanned
  /\ hpc' = "write"
  /\ UNCHANGED <<chainVars, procVars, dbVars, steadyVars, boundary, hview, hlo, hend, htry, pub>>

\* A variant that takes another batch when the range is used up.
HistWriteNoEnd ==
  /\ proc = "run" /\ hpc = "write"
  /\ pub' = SetFullySynced(pub, hfs)
  /\ hfs' = 0 /\ htry' = 0
  /\ hlo' = batchEnd + 1 /\ hpc' = "pin" /\ UNCHANGED hend
  /\ UNCHANGED <<chainVars, procVars, dbVars, steadyVars, boundary, hview>>

\* Then the next batch, unless a range of higher priority has appeared.
HistWrite ==
  /\ proc = "run" /\ hpc = "write"
  /\ pub' = SetFullySynced(pub, hfs)
  /\ hfs' = 0 /\ htry' = 0
  /\ \/ batchEnd < hend /\ hlo' = batchEnd + 1 /\ hpc' = "pin" /\ UNCHANGED hend
     \/ hpc' = "choose" /\ hlo' = 0 /\ hend' = 0
  /\ UNCHANGED <<chainVars, procVars, dbVars, steadyVars, boundary, hview>>
-----------------------------------------------------------------------------
Initialize == InitPin \/ InitScan \/ InitScanStale \/ InitFails \/ InitTip
SteadyState ==
  \/ Pin \/ Locate \/ LocateFails \/ LocateStale \/ Rewind \/ Mark
  \/ Apply \/ ApplyDone \/ ApplyStale \/ ShutDown \/ ApplyConflict \/ Relocate
  \/ RecoverTree \/ CaughtUp \/ MempoolEnds
RecoverHistory ==
  \/ HistChoose \/ HistPin \/ HistScan \/ HistTreeConflict \/ HistFails \/ HistRead \/ HistWrite

Next == ChainMoves \/ Crash \/ Restart \/ Initialize \/ SteadyState \/ RecoverHistory
Spec == Init /\ [][Next]_vars

\* The tasks keep running: neither awaits the other, and every call to the
\* backend and the database returns.  A mempool stream need only end once
\* the tip has moved.  The operator restarts a wallet that is down.
Fairness ==
  /\ WF_vars(Restart)
  /\ WF_vars(Initialize)
  /\ WF_vars(SteadyState /\ (pc # "mempool" \/ best # view))
  /\ WF_vars(RecoverHistory)
FairSpec == Spec /\ Fairness
-----------------------------------------------------------------------------
\* Every variable holds what the code's types and loops allow; in particular
\* recover_history never runs past the end of the range it chose, and the
\* database's checkpoints are heights it has blocks for.
TypeOK ==
  /\ best \in Chains /\ top \in 0..MaxHeight /\ moves \in 0..MaxMoves
  /\ proc \in {"init", "run", "down"} /\ restarts \in 0..MaxRestarts
  /\ why \in {"none", "crash", "tree", "diverged", "panic", "backend", "shutdown", "unavailable", "conflict"}
  /\ stored \subseteq Chains /\ ckpt \subseteq Heights(stored) /\ bad \subseteq Heights(stored)
  /\ faults \in 0..MaxBadFrontiers /\ told \in 0..MaxHeight
  /\ pc \in {"off", "pin", "scan", "locate", "rewind", "mark", "apply", "relocate",
             "rewind-retry", "mark-retry", "caught", "mempool"}
  /\ {view, prev, fork, hview} \subseteq Chains
  /\ tree \in [attempts : 0..Len(Ladder), high : 0..MaxHeight]
  /\ boundary \in 0..MaxHeight
  /\ hpc \in {"off", "choose", "pin", "scan", "publish", "write"}
  /\ hend \in 0..MaxHeight /\ hlo \in 0..hend /\ htry \in 0..TreeRetries
  /\ hfs \in 0..MaxHeight /\ pub \in Signals

\* The blocks the wallet stores are all of one chain, whatever the chain does
\* while steady_state and recover_history write: a reorg is rewound before
\* steady_state_iteration applies another block, and neither task leaves a
\* block of an abandoned branch behind.
OneChain == \A a, b \in stored : Comparable(a, b)

\* The assertions of steady_state_iteration never fire: the fork point that
\* locate_fork_point answers is not above the view's tip, and is below the
\* previous tip unless it is the previous tip.
NoPanic == why # "panic"

\* steady_state_iteration only ever applies blocks on top of a block of the
\* view they come from, however many reorgs, retries and rewinds came before.
AppliesToView == pc = "apply" => IsAnc(prev, view)

\* steady_state reports the tip as reached only when it has applied every
\* block of its view, so the status it publishes is about a scanned chain.
TipReached == pc = "mempool" => prev = view

\* A round of steady_state is sound with a pinned view: no assertion fires,
\* blocks go on top of their parents, and the tip is reached when it says so.
RoundsSound == NoPanic /\ AppliesToView /\ TipReached

\* A rewind by truncate_to_wallet_checkpoint lands at or below the fork point
\* it was asked for, never above, whatever checkpoints the database retains.
RewindReachesFork == [][Rewind => Len(prev') <= Len(fork)]_vars

\* No block at or above the consensus-divergence height is ever stored, by
\* initialize, steady_state or recover_history: clamp_to_boundary and
\* scan_block's refusal cover every path.
ShutdownRespected == \A b \in stored : Len(b) < ShutdownHeight

\* The stretch that steady_state answers for, from the boundary to the block
\* it resumes from, has no gap: a rewind resumes from where the wallet landed,
\* not from where it was asked to go, so no height is skipped.
NoGap ==
  proc = "run" => \A h \in MaxOf(boundary, Birthday)..Len(prev) :
                    h < ShutdownHeight => h \in Heights(stored)

\* A wallet that reports Synced (ensure_available lets balances and spends
\* through) has scanned every block up to the tip it reports, less the
\* tolerance, except between a rewind (truncate_to_wallet_checkpoint) and its
\* announcement (begin_recovery).
SyncedMeansScanned ==
  (Available(pub) /\ pc \notin {"mark", "mark-retry"}) =>
    Unscanned(Birthday, SatSub(pub.tip, Tolerance)) = {}

\* recover_history stores only blocks that can no longer be reorged away, so
\* steady_state never has to rewind what it wrote.
HistoryIsFinal == [][HistScan => \A b \in stored' \ stored : Len(b) <= Final]_vars

\* What is written is rewound exactly when it must be: history never, and the
\* steady state far enough.
RewindsRight == HistoryIsFinal /\ RewindReachesFork

\* Once the chain stops moving, the wallet either is down or ends up at its
\* tip with all of its history scanned: no retry, rewind or tree recovery of
\* steady_state and recover_history goes on for ever or leaves a gap.
Settles == <>[](proc = "down" \/ (prev = best /\ Unscanned(Birthday, Len(best)) = {}))

\* Once the chain stays at or above the divergence height, steady_state shuts
\* the wallet down, and a restart does not bring it back.
ShutsDown == <>[](Len(best) >= ShutdownHeight => proc = "down")
=============================================================================
