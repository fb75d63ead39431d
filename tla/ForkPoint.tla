----------------------------- MODULE ForkPoint ------------------------------
(***************************************************************************)
(* The search for the block from which to resume scanning: the block       *)
(* locator (sync/locator.rs), the backends' find_fork_point, and the       *)
(* fallback walk along the wallet's own history (sync.rs).                 *)
(*                                                                         *)
(* The wallet's recorded blocks are passed as the set `stored`.            *)
(***************************************************************************)
EXTENDS BlockTree

CONSTANTS
  MaxLocatorDepth,   \* MAX_LOCATOR_DEPTH
  SearchStep,        \* FORK_SEARCH_STEP
  Birthday,          \* the wallet birthday, at least 1
  PinnedSearch,      \* find_fork_point answers from the pinned view (zaino)
                     \* rather than from the live best chain (zebra)
  NoBlock            \* "no such block"

ASSUME ForkPointAssumption ==
  /\ MaxLocatorDepth \in Nat
  /\ SearchStep \in Nat \ {0}
  /\ Birthday \in Nat \ {0}
  /\ PinnedSearch \in BOOLEAN
  /\ NoBlock \notin Block

\* DbConnection::get_block_hash: the wallet's block at a height.
BlockAt(stored, h) ==
  IF \E b \in stored : Len(b) = h THEN CHOOSE b \in stored : Len(b) = h ELSE NoBlock

\* locator_block_heights: the tip, then ever sparser, then the floor.
LocatorHeights(tip) ==
  LET floor == SatSub(tip, MaxLocatorDepth)
  IN  {h \in floor..tip : h \in {tip, floor} \/ \E k \in 0..tip : h + 2^k = tip}

\* build_block_locator: heights the wallet has no block for are left out.
Locator(stored, tip) == {b \in stored : Len(b) \in LocatorHeights(tip)}

\* A variant that answers from the live chain whatever the view.
FindForkPointLive(loc, view, live) ==
  LET on == {b \in loc : IsAnc(b, live)}
  IN  {IF on = {} THEN NoBlock ELSE Highest(on)}

\* ChainView::find_fork_point.  Zebra walks its live best chain and answers
\* with the highest locator entry on it.  Zaino asks its index about each
\* entry in turn, highest first; the first entry it knows, on the pinned
\* chain or on a branch it still remembers, yields the block where that
\* entry's branch leaves the pinned chain.
FindForkPoint(loc, view, live) ==
  LET on(c) == {b \in loc : IsAnc(b, c)}
      first == {e \in loc : \A b \in on(view) : Len(b) <= Len(e)}
  IN  IF PinnedSearch
      THEN {CommonAnc(e, view) : e \in first} \cup (IF on(view) = {} THEN {NoBlock} ELSE {})
      ELSE {IF on(live) = {} THEN NoBlock ELSE Highest(on(live))}

\* rewind_step: the heights probed when walking back from `tip`.
ProbeHeights(tip) == {MaxOf(SatSub(tip, k * SearchStep), Birthday) : k \in 1..(tip + 1)}

\* A variant that takes the first block it has for one of the best chain.
StepBackUnchecked(stored, view, tip) ==
  LET found == {b \in stored : Len(b) \in ProbeHeights(tip)}
  IN  IF found = {} THEN NoBlock ELSE Highest(found)

\* step_back_to_best_chain: the first probed wallet block on the view's
\* chain; NoBlock when the birthday is reached without one.
StepBack(stored, view, tip) ==
  LET found == {b \in stored : Len(b) \in ProbeHeights(tip) /\ IsAnc(b, view)}
  IN  IF found = {} THEN NoBlock ELSE Highest(found)

\* locate_fork_point: the blocks it may answer, or NoBlock for
\* WalletDivergedBelowBirthday.
LocateForkPoint(stored, prev, view, live) ==
  LET loc == Locator(stored, Len(prev))
  IN  IF loc = {} THEN {prev}
      ELSE {IF f = NoBlock THEN StepBack(stored, view, Len(prev)) ELSE f :
              f \in FindForkPoint(loc, view, live)}

\* The walk back reads headers of the pinned view, which can fail when the
\* view is stale.
MayStepBack(stored, prev, view, live) ==
  LET loc == Locator(stored, Len(prev))
  IN  loc # {} /\ NoBlock \in FindForkPoint(loc, view, live)
=============================================================================
