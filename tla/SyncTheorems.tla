---------------------------- MODULE SyncTheorems ----------------------------
(***************************************************************************)
(* What the invariants establish about synchronisation: no block at or     *)
(* above the divergence height, one chain, sound rounds, final history,    *)
(* and no height left out.                                                 *)
(***************************************************************************)
EXTENDS ChainInvProofs, FiniteSetTheorems

USE DEF chainVars, procVars, dbVars, steadyVars, histVars

\* The facts about sets of numbers hold.
LEMMA SetFactsHold == SetFacts
<1>1. ASSUME NEW C \in SUBSET Nat, C # {} PROVE \E m \in C : \A d \in C : m <= d
  <2>1. IsWellFoundedOn(OpToRel(<, Nat), Nat)
    BY NatLessThanWellFounded, Zenon
  <2>2. PICK m \in C : \A d \in C : ~(<<d, m>> \in OpToRel(<, Nat))
    BY <1>1, <2>1, WFMin, Zenon
  <2>3. ASSUME NEW d \in C PROVE m <= d
    <3>1. <<d, m>> \in OpToRel(<, Nat) <=> d < m
      BY DEF OpToRel
    <3>2. ~(d < m)
      BY <2>2, <3>1, Zenon
    <3>3. d \in Nat /\ m \in Nat
      OBVIOUS
    <3> QED BY ONLY <3>2, <3>3
  <2> QED BY <2>3
<1>2. Cardinality({}) = 0
  BY FS_EmptySet
<1>3. ASSUME NEW B \in Nat, NEW C \in SUBSET (0..B)
      PROVE  /\ IsFiniteSet(C) /\ Cardinality(C) \in Nat
             /\ \A A \in SUBSET C : IsFiniteSet(A) /\ Cardinality(A) \in Nat
                                    /\ Cardinality(A) <= Cardinality(C)
  <2>1. IsFiniteSet(0..B)
    BY FS_Interval
  <2>2. IsFiniteSet(C)
    BY <2>1, FS_Subset
  <2> QED BY <2>2, FS_Subset, FS_CardinalityType
<1>4. \A S : IsFiniteSet(S) => \A x : x \notin S => Cardinality(S \cup {x}) = Cardinality(S) + 1
  BY FS_AddElement
<1>5. ASSUME NEW m \in Nat, NEW n \in Nat, m <= n, NEW S \in SUBSET ((m + 1)..n)
      PROVE  Cardinality(S) <= n - m
  <2>1. IsFiniteSet((m + 1)..n)
    BY FS_Interval
  <2>2. Cardinality((m + 1)..n) = IF m + 1 > n THEN 0 ELSE n - (m + 1) + 1
    BY FS_Interval
  <2>3. Cardinality((m + 1)..n) = n - m
    BY <1>5, <2>2
  <2> QED BY <2>1, <2>3, FS_Subset
<1> QED BY <1>1, <1>2, <1>3, <1>4, <1>5, Zenon DEF SetFacts

\* No block at or above the consensus-divergence height is ever stored by
\* initialize, steady_state or recover_history, whatever the chain, the ladder,
\* the batch size and the checkpoints kept, and through any reorgs, crashes and
\* restarts.
THEOREM DivergenceRespected == Spec => []ShutdownRespected
<1>1. SyncInv => ShutdownRespected
  BY DEF SyncInv, DbSound
<1> QED BY <1>1, SetFactsHold, SyncInductive, PTL DEF Spec

\* The blocks the wallet stores are always of one chain, for chains of any
\* length, any reorgs and rollbacks while steady_state and recover_history run,
\* crashes between any two steps, wrong frontiers and tree recoveries.
THEOREM StoresOneChain ==
  ASSUME Regular
  PROVE  Spec => []OneChain
<1>1. ChainInv => OneChain
  BY DEF ChainInv, WalletSound
<1> QED BY <1>1, SetFactsHold, ChainInductive, PTL DEF Spec

\* In the same setting a round of steady_state is sound: its assertions on the
\* fork point never fire, it applies blocks only on top of a block of its view,
\* and it reports the tip reached only when it applied all of its view.
THEOREM RoundsAreSound ==
  ASSUME Regular
  PROVE  Spec => []RoundsSound
<1>1. ChainInv => RoundsSound
  BY DEF ChainInv, RoundInv, RoundsSound, NoPanic, AppliesToView, TipReached
<1> QED BY <1>1, SetFactsHold, ChainInductive, PTL DEF Spec

\* And recover_history stores only blocks that no reorg can reach, however far
\* the chain moved between its choice of a range and the write.
THEOREM HistoryOnlyFinal ==
  ASSUME Regular
  PROVE  Spec => HistoryIsFinal
<1>1. ASSUME ChainInv, HistScan PROVE \A b \in stored' \ stored : Len(b) <= Final
  <2>1. CASE hlo > Clamp(batchEnd) \/ hlo > Len(hview) + 1
    BY <1>1, <2>1 DEF HistScan
  <2>2. CASE ~(hlo > Clamp(batchEnd) \/ hlo > Len(hview) + 1)
    <3>1. PICK bs \in SUBSET Block : PutBlocks(bs) /\ \A x \in bs : Settled(Len(x))
      BY <1>1, <2>2, BatchSettled
    <3> QED BY <3>1 DEF PutBlocks, Settled
  <2> QED BY <2>1, <2>2
<1>2. ChainInv => [HistScan => \A b \in stored' \ stored : Len(b) <= Final]_vars
  BY <1>1
<1> QED BY <1>2, SetFactsHold, ChainInductive, PTL DEF Spec, HistoryIsFinal
-----------------------------------------------------------------------------
\* Heights are only left out below the boundary: what steady_state answers for
\* has none, initialize's view covers those there are, and recover_history's
\* range stays below the boundary as it was when chosen.
GapsLow ==
  /\ pc = "scan" => \A h : Gap(h) => h <= Len(view)
  /\ proc = "run" => \A h : Gap(h) => h < MaxOf(boundary, Birthday)
  /\ hpc \in {"pin", "scan", "publish", "write"} => hend < MaxOf(boundary, Birthday)

\* The boundary only rises.
LEMMA BoundaryRises ==
  ASSUME NEW b \in Nat, NEW tip \in Nat, NEW h \in Nat, h < MaxOf(b, Birthday)
  PROVE  h < MaxOf(UpdateBoundary(b, tip), Birthday)
BY Numbers DEF UpdateBoundary, MaxOf, SatSub

\* Every step keeps the heights left out below the boundary.
LEMMA GapsLowInductive ==
  ASSUME Regular, ChainInv, ChainInv', GapsLow, [Next]_vars
  PROVE  GapsLow'
<1>0. /\ SyncInv /\ ChainSound /\ WalletSound /\ PlaceSound /\ HistSettled /\ DbSound
      /\ SyncInv' /\ PlaceSound' /\ HistSettled' /\ WalletSound'
  BY DEF ChainInv, SyncInv
<1>1. SetFacts /\ boundary \in Nat /\ Len(best) \in Nat /\ Len(view) \in Nat /\ hend \in Nat
      /\ stored \in SUBSET Block
  BY <1>0, Shapes
<1>2. ASSUME pc' = pc \/ pc' # "scan", UNCHANGED <<proc, boundary>>, view' = view \/ pc' # "scan",
             \A h : Gap(h)' => Gap(h),
             hpc' \in {"pin", "scan", "publish", "write"} =>
                hend' = hend /\ hpc \in {"pin", "scan", "publish", "write"}
      PROVE  GapsLow'
  BY <1>2 DEF GapsLow
<1>3. stored' = stored => \A h : Gap(h)' => Gap(h)
  BY DEF Gap, Heights
<1>4. ASSUME NEW w, Exit(w) PROVE GapsLow'
  BY <1>4 DEF Exit, GapsLow
<1>5. ASSUME NEW t, TruncateTo(Landing(t)), stored # {} PROVE \A h : Gap(h)' => Gap(h)
  <2>1. Landing(t) \in Nat /\ stored' = {b \in stored : Len(b) <= Landing(t)}
    <3>1. Landing(t) \in ckpt
      BY <1>0, <1>5, LandsOnCheckpoint
    <3> QED BY <1>0, <1>5, <3>1, Shapes DEF TruncateTo
  <2>2. ASSUME NEW h, Gap(h)' PROVE Gap(h)
    <3>1. h \in Nat /\ h \notin Heights(stored')
      BY <2>2 DEF Gap
    <3>2. PICK s \in stored' : h < Len(s)
      BY <2>2 DEF Gap
    <3>3. s \in stored /\ Len(s) \in Nat /\ Len(s) <= Landing(t)
      BY <1>0, <2>1, Shapes
    <3>4. ASSUME NEW x \in stored, Len(x) = h PROVE FALSE
      <4>1. x \in stored'
        BY <2>1, <3>1, <3>2, <3>3, <3>4
      <4> QED BY <3>1, <3>4, <4>1 DEF Heights
    <3> QED BY <3>1, <3>2, <3>3, <3>4 DEF Gap, Heights
  <2> QED BY <2>2
<1>6. CASE UNCHANGED vars
  BY <1>2, <1>3, <1>6 DEF vars
<1>7. CASE ChainMoves \/ Crash \/ Restart
  <2>1. CASE ChainMoves
    BY <1>2, <1>3, <2>1 DEF ChainMoves
  <2>2. CASE Crash
    BY <1>4, <2>2 DEF Crash
  <2>3. CASE Restart
    <3>1. proc' = "init" /\ pc' = "pin" /\ hpc' = hpc /\ proc = "down"
      BY <2>3 DEF Restart
    <3> QED BY <1>0, <3>1 DEF GapsLow, HistSettled
  <2> QED BY <1>7, <2>1, <2>2, <2>3
<1>8. CASE Initialize
  <2>0. proc = "init" /\ hpc \notin {"pin", "scan", "publish", "write"}
    BY <1>0, <1>8 DEF Initialize, InitPin, InitScan, InitScanStale, InitFails, InitTip, HistSettled
  <2>1. CASE InitPin
    <3>1. stored' = stored /\ view' = best /\ proc' = "init" /\ hpc' = hpc
      BY <2>0, <2>1 DEF InitPin
    <3>2. \A h : Gap(h)' => h <= Len(best)
      <4>1. \A h : Gap(h) => h \in Nat /\ h <= Final
        BY <1>0 DEF WalletSound, Settled
      <4>2. Final \in Nat /\ Final <= Len(best)
        BY <1>0 DEF ChainSound
      <4> QED BY <1>1, <1>3, <3>1, <4>1, <4>2
    <3> QED BY <2>0, <3>1, <3>2 DEF GapsLow
  <2>2. CASE InitFails
    BY <1>4, <2>2 DEF InitFails
  <2>3. CASE InitScan \/ InitScanStale
    <3>1. CASE pc' = "pin" /\ UNCHANGED <<proc, hpc>>
      BY <2>0, <3>1 DEF GapsLow
    <3>2. CASE StartTasks
      <4>1. PICK r \in InitRanges : r[1] > Clamp(r[2]) \/ Clamp(r[2]) < r[2]
        BY <2>3, <3>2 DEF InitScan, InitScanStale, StartTasks
      <4>2. r[1] \in Nat /\ r[2] \in Nat /\ r[1] <= r[2] /\ r[2] <= Len(view)
        <5>1. r[1] <= r[2]
          BY DEF InitRanges, Runs
        <5> QED BY <1>0, <5>1, InitRangesWithin
      <4>3. Len(view) <= top /\ top \in Nat /\ top <= MaxHeight /\ MaxHeight < ShutdownHeight
        BY <1>0 DEF PlaceSound, Rooted, ChainSound, Regular
      <4> QED BY <1>1, <4>1, <4>2, <4>3, Numbers DEF Clamp
    <3> QED BY <2>3, <3>1, <3>2 DEF InitScan, InitScanStale
  <2>4. CASE InitTip
    <3>1. pc = "scan" /\ InitRanges = {} /\ proc' = "run" /\ pc' = "pin" /\ prev' = view
          /\ hpc' = "choose" /\ boundary' = boundary
      BY <2>4 DEF InitTip, StartTasks
    <3>2. Unscanned(boundary, Len(view)) = {}
      <4> DEFINE U == Unscanned(boundary, Len(view))
      <4>1. Runs(U) = {}
        BY <3>1 DEF InitRanges
      <4>2. MaxOf(boundary, Birthday) \in Nat
        BY <1>1, Numbers DEF MaxOf
      <4>3. U \in SUBSET Nat /\ \A h \in U : h <= Len(view)
        BY <1>1, <4>2 DEF Unscanned
      <4> HIDE DEF U
      <4> QED BY <1>1, <4>1, <4>3, RunsNonempty DEF U
    <3>3. ASSUME NEW h, Gap(h)' PROVE h < MaxOf(boundary, Birthday)
      <4>0. MaxOf(boundary, Birthday) \in Nat
        BY <1>1, Numbers DEF MaxOf
      <4>1. h \in Nat /\ h \notin Heights(stored) /\ h <= Len(view)
        <5>1. CASE stored' = stored
          BY <1>3, <3>1, <3>3, <5>1 DEF GapsLow, Gap
        <5>2. CASE stored' = stored \cup {view}
          <6>1. h \in Nat /\ h \notin Heights(stored') /\ \E s \in stored' : h < Len(s)
            BY <3>3 DEF Gap
          <6>2. h \notin Heights(stored)
            BY <5>2, <6>1 DEF Heights
          <6>3. CASE h < Len(view)
            BY <1>1, <6>1, <6>2, <6>3
          <6>4. CASE \E s \in stored : h < Len(s)
            BY <3>1, <6>1, <6>2, <6>4 DEF Gap, GapsLow
          <6> QED BY <5>2, <6>1, <6>3, <6>4
        <5> QED BY <2>4, <5>1, <5>2 DEF InitTip, PutBlocks
      <4> QED BY <1>1, <3>2, <4>0, <4>1 DEF Unscanned
    <3> QED BY <3>1, <3>3 DEF GapsLow
  <2> QED BY <1>8, <2>1, <2>2, <2>3, <2>4 DEF Initialize
<1>9. CASE SteadyState
  <2>0. proc = "run" /\ stored # {} /\ prev \in stored /\ Len(prev) \in Nat
    BY <1>0, <1>9, Shapes DEF SteadyState, Pin, Locate, LocateFails, LocateStale, Rewind, Mark, Apply,
       ApplyDone, ApplyStale, ShutDown, ApplyConflict, Relocate, RecoverTree, CaughtUp, MempoolEnds,
       PlaceSound
  <2>1. CASE Pin
    <3>1. /\ stored' = stored /\ proc' = proc /\ pc' # "scan" /\ UNCHANGED <<hpc, hend>>
          /\ boundary' = boundary \/ boundary' = UpdateBoundary(boundary, Len(best))
      BY <2>1 DEF Pin
    <3>2. \A h \in Nat : h < MaxOf(boundary, Birthday) => h < MaxOf(boundary', Birthday)
      BY <1>1, <3>1, BoundaryRises
    <3>3. \A h : Gap(h)' => h \in Nat /\ Gap(h)
      BY <1>3, <3>1 DEF Gap
    <3> QED BY <1>1, <2>0, <3>1, <3>2, <3>3 DEF GapsLow
  <2>2. CASE \E w : Exit(w)
    BY <1>4, <2>2
  <2>3. CASE Rewind \/ (RecoverTree /\ ~\E w : Exit(w))
    <3>1. /\ pc' # "scan" /\ UNCHANGED <<proc, boundary, hpc, hend>>
          /\ \E t : TruncateTo(Landing(t))
      BY <2>3 DEF Rewind, RecoverTree
    <3> QED BY <1>2, <1>5, <2>0, <3>1
  <2>4. CASE Apply
    <3>1. /\ stored' = stored \cup {Anc(view, next)} /\ pc' # "scan" /\ next <= Len(view)
          /\ UNCHANGED <<proc, boundary, hpc, hend>>
      BY <2>4 DEF Apply, PutBlocks
    <3>2. Len(Anc(view, next)) = Len(prev) + 1
      BY <1>0, <2>0, <3>1, AncLength, Shapes DEF next
    <3>3. ASSUME NEW h, Gap(h)' PROVE Gap(h)
      <4>1. h \in Nat /\ h \notin Heights(stored) /\ h # Len(prev)
            /\ \E s \in stored \cup {Anc(view, next)} : h < Len(s)
        BY <2>0, <3>1, <3>3 DEF Gap, Heights
      <4> QED BY <2>0, <3>2, <4>1 DEF Gap
    <3> QED BY <1>2, <3>1, <3>3
  <2>5. CASE /\ ~\E w : Exit(w)
             /\ Locate \/ LocateFails \/ LocateStale \/ Mark \/ ApplyDone \/ ApplyStale \/ ShutDown
                \/ ApplyConflict \/ Relocate \/ CaughtUp \/ MempoolEnds
    <3>1. UNCHANGED <<stored, proc, boundary, hpc, hend>> /\ pc' # "scan"
      BY <2>5 DEF Locate, LocateFails, LocateStale, Mark, ApplyDone, ApplyStale, ShutDown,
         ApplyConflict, Relocate, CaughtUp, MempoolEnds
    <3> QED BY <1>2, <1>3, <3>1
  <2> QED BY <1>9, <2>1, <2>2, <2>3, <2>4, <2>5 DEF SteadyState
<1>10. CASE RecoverHistory
  <2>0. proc = "run"
    BY <1>10 DEF RecoverHistory, HistChoose, HistPin, HistScan, HistTreeConflict, HistFails, HistRead, HistWrite
  <2>1. CASE HistChoose
    <3>1. PICK r \in Runs(Suggested(SatSub(boundary, 1))) : hend' = r[2]
      BY <2>1 DEF HistChoose
    <3>2. hend' \in Suggested(SatSub(boundary, 1))
      BY <3>1 DEF Runs
    <3>3. SatSub(boundary, 1) \in Nat /\ MaxOf(Birthday, Birthday) = Birthday
      BY <1>1, Numbers DEF SatSub, MaxOf
    <3>4. hend' \in Birthday..SatSub(boundary, 1)
      BY <3>2, <3>3 DEF Suggested, Unscanned
    <3>5. hend' < MaxOf(boundary, Birthday)
      BY <1>1, <3>3, <3>4, Numbers DEF SatSub, MaxOf
    <3>6. UNCHANGED <<stored, proc, pc, view, boundary>>
      BY <2>1 DEF HistChoose
    <3> QED BY <1>3, <3>5, <3>6 DEF GapsLow
  <2>2. CASE \E w : Exit(w)
    BY <1>4, <2>2
  <2>3. CASE HistScan
    <3>1. /\ hpc = "scan" /\ UNCHANGED <<proc, pc, view, boundary, hend>> /\ pc # "scan"
      BY <1>0, <2>0, <2>3 DEF HistScan, PlaceSound
    <3>2. CASE hlo > Clamp(batchEnd) \/ hlo > Len(hview) + 1
      BY <1>2, <1>3, <2>3, <3>1, <3>2 DEF HistScan
    <3>3. CASE ~(hlo > Clamp(batchEnd) \/ hlo > Len(hview) + 1)
      <4>1. PICK e \in Nat, bs \in SUBSET Block :
              e <= hend /\ PutBlocks(bs) /\ \A x \in bs : Len(x) <= e /\ Len(x) \in Nat
        BY <2>3, <3>3, BatchSettled
      <4>2. stored' = stored \cup bs
        BY <4>1 DEF PutBlocks
      <4>3. hend < MaxOf(boundary, Birthday) /\ MaxOf(boundary, Birthday) \in Nat
        BY <1>1, <3>1, Numbers DEF GapsLow, MaxOf
      <4>4. ASSUME NEW h, Gap(h)' PROVE h < MaxOf(boundary, Birthday)
        <5>1. h \in Nat /\ h \notin Heights(stored) /\ \E s \in stored \cup bs : h < Len(s)
          BY <4>2, <4>4 DEF Gap, Heights
        <5>2. CASE \E s \in stored : h < Len(s)
          BY <2>0, <5>1, <5>2 DEF Gap, GapsLow
        <5>3. CASE \E s \in bs : h < Len(s)
          BY <1>1, <4>1, <4>3, <5>1, <5>3
        <5> QED BY <5>1, <5>2, <5>3
      <4> QED BY <3>1, <4>3, <4>4 DEF GapsLow
    <3> QED BY <3>2, <3>3
  <2>4. CASE /\ ~\E w : Exit(w)
             /\ HistPin \/ HistTreeConflict \/ HistFails \/ HistRead \/ HistWrite
    <3>1. /\ UNCHANGED <<stored, proc, pc, view, boundary>>
          /\ hpc \in {"pin", "scan", "publish", "write"}
          /\ hend' = hend \/ hpc' = "choose"
      BY <2>4 DEF HistPin, HistTreeConflict, HistFails, HistRead, HistWrite
    <3> QED BY <1>2, <1>3, <3>1
  <2> QED BY <1>10, <2>1, <2>2, <2>3, <2>4 DEF RecoverHistory
<1> QED BY <1>6, <1>7, <1>8, <1>9, <1>10 DEF Next

\* The stretch steady_state answers for has no gap, whatever rewinds, tree
\* recoveries and batches of recover_history came before: a rewind resumes from
\* where the wallet landed, not from where it was asked to go.
THEOREM NoHeightSkipped ==
  ASSUME Regular
  PROVE  Spec => []NoGap
<1>1. Init => GapsLow
  BY DEF Init, GapsLow
<1>2. ChainInv /\ GapsLow => NoGap
  <2> SUFFICES ASSUME ChainInv, GapsLow, proc = "run",
                      NEW h \in MaxOf(boundary, Birthday)..Len(prev), h \notin Heights(stored)
               PROVE  FALSE
    BY DEF NoGap
  <2>1. prev \in stored /\ Len(prev) \in Nat /\ Len(prev) \in Heights(stored) /\ boundary \in Nat
    BY Shapes DEF ChainInv, PlaceSound
  <2>2. MaxOf(boundary, Birthday) \in Nat
    BY <2>1, Numbers DEF MaxOf
  <2>3. h \in Nat /\ h < Len(prev) /\ ~(h < MaxOf(boundary, Birthday))
    BY <2>1, <2>2
  <2> QED BY <2>1, <2>3 DEF GapsLow, Gap
<1> QED BY <1>1, <1>2, SetFactsHold, ChainInductive, GapsLowInductive, PTL DEF Spec
=============================================================================
