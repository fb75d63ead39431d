--------------------------- MODULE ChainInvProofs ---------------------------
(***************************************************************************)
(* ChainInv is preserved by crashes and restarts, by initialize, by        *)
(* steady_state, round by round, and by recover_history, whose batches may *)
(* come between any of its steps.                                          *)
(***************************************************************************)
EXTENDS WalletSyncProofs

USE DEF chainVars, procVars, dbVars, steadyVars, histVars

\* Where anything is unscanned there is a range to scan.
LEMMA RunsNonempty ==
  ASSUME SetFacts, NEW B \in Nat, NEW U \in SUBSET Nat, U # {}, \A h \in U : h <= B
  PROVE  Runs(U) # {}
<1>1. PICK m \in U : \A d \in U : m <= d
  BY Lowest
<1> DEFINE V == {h \in U : m..h \subseteq U}
<1>2. V \in SUBSET Nat /\ m \in V /\ \A h \in V : h <= B
  <2>1. m..m = {m}
    BY <1>1
  <2> QED BY <1>1, <2>1
<1>3. PICK k \in V : \A d \in V : d <= k
  <2> HIDE DEF V
  <2> QED BY <1>2, Uppermost
<1>4. k \in U /\ m..k \subseteq U /\ k \in Nat /\ m \in Nat /\ m <= k
  BY <1>1, <1>2, <1>3
<1>5. k + 1 \notin U
  <2>1. ASSUME k + 1 \in U PROVE FALSE
    <3>1. m..(k + 1) = m..k \cup {k + 1}
      BY <1>4
    <3>2. k + 1 \in V
      BY <1>4, <2>1, <3>1
    <3> QED BY <1>3, <1>4, <3>2
  <2> QED BY <2>1
<1>6. \A h \in U : h + 1 # m
  BY <1>1, <1>4
<1>7. <<m, k>> \in Runs(U)
  BY <1>1, <1>4, <1>5, <1>6 DEF Runs
<1> QED BY <1>7

\* A range that initialize scans leaves no gap above the blocks there are
\* except below the boundary.
LEMMA InitRangeTight ==
  ASSUME SyncInv, NEW r \in InitRanges, NEW h \in Nat, h >= Birthday, h < r[1],
         \A s \in stored : Len(s) < h
  PROVE  h < boundary
<1>1. r[1] \in Nat /\ r[2] \in Nat /\ r[2] <= Len(view) /\ Len(view) \in Nat /\ boundary \in Nat
  BY InitRangesWithin, Shapes
<1>2. PICK lo \in {boundary, VerifyStart} : r \in Runs(Unscanned(lo, Len(view)))
  BY DEF InitRanges
<1>3. r[1] <= r[2] /\ \A g \in Unscanned(lo, Len(view)) : g + 1 # r[1]
  BY <1>2 DEF Runs
<1>4. lo = boundary \/ (stored # {} /\ lo = Len(Highest(stored)) + 1)
  BY <1>2 DEF VerifyStart
<1>5. ASSUME stored # {}, lo = Len(Highest(stored)) + 1 PROVE lo <= h /\ lo \in Nat
  <2>1. \A b \in stored : Len(b) <= h
    BY Shapes
  <2>2. SetFacts /\ stored \in SUBSET Block
    BY Shapes
  <2>3. Highest(stored) \in stored
    BY <1>5, <2>1, <2>2, HighestFound
  <2> QED BY <1>5, <2>3, Shapes
<1>6. ASSUME lo <= h, lo \in Nat PROVE FALSE
  <2> DEFINE g == r[1] - 1
  <2>1. g \in Nat /\ h <= g /\ g <= Len(view) /\ MaxOf(lo, Birthday) <= g /\ MaxOf(lo, Birthday) \in Nat
    BY <1>1, <1>3, <1>6, Numbers DEF MaxOf
  <2>2. g \notin Heights(stored)
    <3>1. \A s \in stored : Len(s) \in Nat /\ Len(s) # g
      BY <2>1, Shapes
    <3> QED BY <3>1 DEF Heights
  <2>3. g \in Unscanned(lo, Len(view))
    BY <1>1, <2>1, <2>2 DEF Unscanned
  <2>4. g + 1 = r[1]
    BY <1>1
  <2> QED BY <1>3, <2>3, <2>4
<1> QED BY <1>1, <1>4, <1>5, <1>6

\* The genesis block is on the chain at its final depth.
LEMMA GenesisRooted ==
  ASSUME best \in Block, top \in Nat
  PROVE  Rooted(Genesis) /\ Genesis \in Block
<1>1. Len(Genesis) = 0 /\ Genesis \in Block
  BY DEF Genesis, Block
<1>2. SatSub(Len(Genesis), ReorgDepth) = 0
  BY <1>1, Numbers DEF SatSub
<1>3. Anc(Genesis, 0) \in Block /\ Len(Anc(Genesis, 0)) = 0 /\ IsAnc(Anc(Genesis, 0), Genesis)
  BY <1>1, AncAt
<1>4. Anc(Genesis, 0) = Genesis
  BY <1>1, <1>3, AncSameHeight
<1> QED BY <1>1, <1>2, <1>4, AncReflexive DEF Rooted

\* The chain, a crash and a restart keep the invariant.
LEMMA OutsideKeeps ==
  ASSUME Regular, ChainInv, SyncInv', ChainMoves \/ Crash \/ Restart
  PROVE  ChainInv'
<1>1. CASE ChainMoves
  BY <1>1, MoveSound
<1>2. CASE Crash
  BY <1>2, QuietExit DEF Crash
<1>3. CASE Restart
  <2>1. /\ UNCHANGED <<best, top, stored, ckpt, told, why, view, hpc>>
        /\ proc = "down" /\ proc' = "init" /\ pc' = "pin" /\ \A s \in stored : Comparable(s, best)
    BY <1>3 DEF Restart, Regular
  <2>2. ChainSound' /\ WalletSound'
    BY <2>1, QuietKeeps DEF ChainInv, Active
  <2>3. view = Genesis /\ IsAnc(Genesis, best) /\ Rooted(Genesis)
    BY <2>1, Shapes, AncReflexive, GenesisRooted DEF ChainInv, PlaceSound, ChainSound
  <2>4. PlaceSound'
    BY <2>1, <2>3 DEF ChainInv, PlaceSound, Rooted
  <2>5. HistSettled' /\ RoundInv'
    BY <2>1 DEF ChainInv, HistSettled, RoundInv
  <2> QED BY <2>2, <2>4, <2>5 DEF ChainInv
<1> QED BY <1>1, <1>2, <1>3

\* Of the checkpoints that were settled in a database, or written with it, one
\* is still retained and final when none of them was above the highest tip.
LEMMA KeepsFinal ==
  ASSUME SetFacts, ReorgDepth < CheckpointDepth, top \in Nat,
         NEW C \in SUBSET Nat, \A c \in C : c <= top, NEW c0 \in C, c0 <= Final
  PROVE  \E c \in Retained(C) : c \in Nat /\ c <= Final
<1>1. CASE c0 \in Retained(C)
  BY <1>1
<1>2. CASE c0 \notin Retained(C)
  <2>1. PICK c1 \in Retained(C), m \in C : c1 + ReorgDepth <= m
    BY <1>2, RetentionLag
  <2>2. c1 \in Nat /\ m \in Nat /\ m <= top
    BY <2>1 DEF Retained
  <2>3. c1 <= Final
    BY <2>1, <2>2, Numbers DEF Final, SatSub
  <2> QED BY <2>1, <2>2, <2>3
<1> QED BY <1>1, <1>2

\* initialize scans a range of its view.
LEMMA InitScanKeeps ==
  ASSUME Regular, ChainInv, SyncInv', InitScan
  PROVE  ChainInv'
<1>0. SyncInv /\ ChainSound /\ WalletSound /\ PlaceSound /\ HistSettled /\ RoundInv
  BY DEF ChainInv
<1>1. proc = "init" /\ pc = "scan" /\ UNCHANGED <<best, top>>
  BY DEF InitScan
<1>2. /\ best \in Block /\ view \in Block /\ stored \in SUBSET Block
      /\ Len(best) \in Nat /\ Len(view) \in Nat /\ IsAnc(view, best)
      /\ \A s \in stored : Comparable(s, best)
      /\ boundary \in Nat /\ boundary <= Final
  BY <1>0, <1>1, Shapes DEF PlaceSound
<1>3. /\ top \in Nat /\ Final \in Nat /\ Final <= Len(best) /\ Birthday <= Final
      /\ Len(view) <= Len(best) /\ Len(best) <= top /\ top < ShutdownHeight
      /\ Len(view) < ShutdownHeight
  <2>1. Len(view) <= Len(best)
    BY <1>2, AncSteps
  <2> QED BY <1>0, <1>2, <2>1, Numbers DEF ChainSound, Regular
<1>4. PICK r \in InitRanges :
         LET lo == r[1]  hi == Clamp(r[2])
         IN \/ lo > hi /\ StartTasks
            \/ /\ lo <= hi
               /\ \E end \in StreamEnds(view, lo, hi) : PutBlocks(Blocks(view, lo, end))
               /\ UNCHANGED told
               /\ IF hi < r[2] THEN StartTasks
                  ELSE pc' = "pin" /\ UNCHANGED <<procVars, view, prev, fork, tree, histVars, pub>>
  BY DEF InitScan
<1>5. r[1] \in Nat /\ r[2] \in Nat /\ r[1] >= 1 /\ r[2] <= Len(view) /\ r[1] <= r[2]
  <2>1. r[1] <= r[2]
    BY DEF InitRanges, Runs
  <2> QED BY <1>0, <2>1, InitRangesWithin
<1>6. Clamp(r[2]) = r[2]
  BY <1>3, <1>5, <1>2, Numbers DEF Clamp
<1>7. StreamEnds(view, r[1], r[2]) = {r[2]}
  BY DEF StreamEnds, MayEndEarly, Regular
<1> DEFINE bs == Blocks(view, r[1], r[2])
<1>8. PutBlocks(bs) /\ UNCHANGED told /\ pc' = "pin" /\ UNCHANGED <<procVars, view, prev, fork, tree, histVars>>
  BY <1>4, <1>5, <1>6, <1>7
<1>9. ASSUME NEW x \in bs
      PROVE  x \in Block /\ IsAnc(x, best) /\ Len(x) \in r[1]..r[2] /\ Len(x) <= top
  <2>1. PICK h \in r[1]..r[2] : x = Anc(view, h)
    BY DEF Blocks
  <2>2. h \in Nat /\ h <= Len(view)
    BY <1>2, <1>5
  <2>3. x \in Block /\ Len(x) = h /\ IsAnc(x, view)
    BY <1>2, <2>1, <2>2, AncAt
  <2>4. IsAnc(x, best)
    BY <1>2, <2>3, AncTransitive
  <2> QED BY <1>2, <1>3, <2>2, <2>3, <2>4
<1>10. \A h \in r[1]..r[2] : h \in Heights(bs)
  <2>1. ASSUME NEW h \in r[1]..r[2] PROVE Anc(view, h) \in bs /\ Len(Anc(view, h)) = h
    <3>1. h \in Nat /\ h <= Len(view)
      BY <1>2, <1>5
    <3> QED BY <1>2, <3>1, AncAt DEF Blocks
  <2> HIDE DEF bs
  <2> QED BY <2>1 DEF Heights
<1>11. stored' = stored \cup bs /\ ckpt' = Retained(ckpt \cup Heights(bs))
  BY <1>8 DEF PutBlocks
<1> HIDE DEF bs
<1>12. bs \in SUBSET Block /\ stored' \in SUBSET Block
  BY <1>2, <1>9, <1>11
<1>13. \A s \in stored' : Comparable(s, best)
  BY <1>2, <1>9, <1>11 DEF Comparable
<1>14. ASSUME NEW x \in bs, NEW y \in stored \cup bs PROVE Comparable(x, y)
  <2>1. Comparable(best, y) /\ y \in Block
    BY <1>11, <1>12, <1>13 DEF Comparable
  <2> QED BY <1>2, <1>9, <2>1, ComparableBelow
<1>15. \A x \in bs : Rooted(x)
  BY <1>0, <1>2, <1>9, OnBestRooted
<1>16. ChainSound' /\ Final' = Final /\ ~Active'
  BY <1>0, <1>1, <1>8 DEF ChainSound, Final, Active
<1>17. ASSUME NEW g \in Nat, g <= Final PROVE Settled(g)'
  <2>1. \A x \in stored' : Comparable(Anc(best, g), x)
    <3>1. Anc(best, g) \in Block /\ IsAnc(Anc(best, g), best)
      BY <1>2, <1>3, <1>17, AncAt
    <3>2. \A x \in stored' : x \in Block /\ Comparable(best, x)
      BY <1>12, <1>13 DEF Comparable
    <3> QED BY <1>2, <3>1, <3>2, ComparableBelow
  <2> QED BY <1>1, <1>16, <1>17, <2>1 DEF Settled
<1>18. ASSUME NEW h, Gap(h)' PROVE Gap(h) \/ Settled(h)'
  <2>1. h \in Nat /\ h \notin Heights(stored')
    BY <1>18 DEF Gap
  <2>2. PICK s \in stored' : h < Len(s)
    BY <1>18 DEF Gap
  <2>3. h \notin Heights(stored) /\ h \notin Heights(bs)
    BY <1>11, <2>1 DEF Heights
  <2>4. CASE \E y \in stored : h < Len(y)
    BY <2>1, <2>3, <2>4 DEF Gap
  <2>5. CASE ~\E y \in stored : h < Len(y)
    <3>1. s \in bs
      BY <1>11, <2>2, <2>5
    <3>2. h < r[1]
      <4>1. h < Len(s) /\ Len(s) \in r[1]..r[2] /\ h \notin r[1]..r[2]
        BY <1>9, <1>10, <2>2, <2>3, <3>1
      <4> QED BY <1>5, <2>1, <4>1
    <3>3. \A y \in stored : Len(y) < h
      <4>1. \A y \in stored : Len(y) \in Nat /\ Len(y) # h
        BY <1>0, <2>3, Shapes
      <4> QED BY <2>1, <2>5, <4>1
    <3>4. h >= Birthday => h < boundary
      BY <1>0, <2>1, <3>2, <3>3, InitRangeTight
    <3>5. h <= Final
      BY <1>2, <1>3, <2>1, <3>4, Numbers
    <3> QED BY <1>17, <2>1, <3>5
  <2> QED BY <2>4, <2>5
<1>19. \E c \in ckpt' : Settled(c)'
  <2> DEFINE C == ckpt \cup Heights(bs)
  <2>1. C \in SUBSET Nat /\ \A c \in C : c <= top
    <3>1. \A x \in stored : Len(x) \in Nat /\ Len(x) <= top
      BY <1>0, Shapes DEF WalletSound, Rooted
    <3>2. \A x \in bs : Len(x) \in Nat /\ Len(x) <= top
      BY <1>5, <1>9
    <3>3. \A c \in ckpt : \E x \in stored : Len(x) = c
      BY <1>0, Shapes
    <3>4. \A c \in Heights(bs) : \E x \in bs : Len(x) = c
      BY DEF Heights
    <3> QED BY <3>1, <3>2, <3>3, <3>4
  <2>2. \E c0 \in C : c0 <= Final
    <3>1. CASE stored # {}
      BY <1>0, <3>1 DEF WalletSound, Settled
    <3>2. CASE stored = {}
      <4>1. r[1] \in C
        BY <1>5, <1>10
      <4>2. ASSUME r[1] > Final PROVE FALSE
        <5>1. r[1] - 1 \in Nat /\ r[1] - 1 >= Birthday /\ r[1] - 1 < r[1] /\ r[1] - 1 >= boundary
          BY <1>2, <1>3, <1>5, <4>2, Numbers
        <5>2. r[1] - 1 < boundary
          BY <1>0, <3>2, <5>1, InitRangeTight
        <5> QED BY <1>2, <5>1, <5>2
      <4> QED BY <1>3, <1>5, <4>1, <4>2
    <3> QED BY <3>1, <3>2
  <2>3. SetFacts /\ ReorgDepth < CheckpointDepth
    BY <1>0, Shapes DEF Regular
  <2> HIDE DEF C
  <2>4. \E c \in Retained(C) : c \in Nat /\ c <= Final
    BY <1>3, <2>1, <2>2, <2>3, KeepsFinal
  <2> QED BY <1>11, <1>17, <2>4 DEF C
<1>20. \A g : Settled(g) => Settled(g)'
  BY <1>17 DEF Settled
<1>21. WalletSound'
  BY <1>0, <1>1, <1>8, <1>12, <1>14, <1>15, <1>18, <1>19, <1>20, PutKeeps
<1>22. PlaceSound'
  BY <1>0, <1>1, <1>8, <1>11, <1>13 DEF PlaceSound, Rooted
<1>23. HistSettled' /\ RoundInv'
  BY <1>0, <1>1, <1>8 DEF HistSettled, RoundInv
<1> QED BY <1>16, <1>21, <1>22, <1>23 DEF ChainInv

\* initialize keeps the invariant.
LEMMA InitializeKeeps ==
  ASSUME Regular, ChainInv, SyncInv', Initialize
  PROVE  ChainInv'
<1>0. SyncInv /\ ChainSound /\ WalletSound /\ PlaceSound /\ HistSettled /\ RoundInv
  BY DEF ChainInv
<1>1. /\ SetFacts /\ best \in Block /\ view \in Block /\ stored \in SUBSET Block
      /\ Len(best) \in Nat /\ Len(view) \in Nat /\ told \in Nat /\ top \in Nat
      /\ Final \in Nat /\ Final <= Len(best) /\ Birthday <= Final /\ Len(best) <= top
  BY <1>0, Shapes DEF PlaceSound, ChainSound
<1>2. CASE InitPin
  <2>1. /\ UNCHANGED <<best, top, stored, ckpt, proc, why, hpc>>
        /\ proc = "init" /\ view' = best /\ pc' = "scan"
        /\ boundary' = UpdateBoundary(0, Len(best)) /\ told' = UpdateChainTip(Len(best))
    BY <1>2 DEF InitPin
  <2>2. ChainSound' /\ WalletSound'
    BY <1>0, <2>1, QuietKeeps
  <2>3. IsAnc(best, best) /\ Rooted(best)
    BY <1>0, <1>1, AncReflexive, OnBestRooted
  <2>4. boundary' <= Final /\ boundary' <= Len(best) /\ Final' = Final /\ Birthday <= Len(best)
    BY <1>1, <2>1, Numbers DEF UpdateBoundary, MaxOf, SatSub, Final, Regular
  <2>5. told' \in Nat /\ (told' = told \/ told' = Len(best))
    BY <1>1, <2>1 DEF UpdateChainTip, MaxOf
  <2>6. told' <= Len(best) \/ \E s \in stored : told' <= Len(s)
    <3>1. told <= Len(best) \/ \E s \in stored : told <= Len(s)
      BY <1>0 DEF PlaceSound
    <3> QED BY <1>1, <2>5, <3>1
  <2>7. PlaceSound'
    BY <1>0, <2>1, <2>3, <2>4, <2>5, <2>6 DEF PlaceSound, Rooted
  <2>8. HistSettled' /\ RoundInv'
    BY <1>0, <2>1 DEF HistSettled, RoundInv
  <2> QED BY <2>2, <2>7, <2>8 DEF ChainInv
<1>3. CASE InitScan
  BY <1>3, InitScanKeeps
<1>4. CASE InitScanStale
  <2>1. /\ UNCHANGED <<best, top, stored, ckpt, told, proc, why, view, prev, hpc>>
        /\ proc = "init" /\ pc' = "pin"
    BY <1>4 DEF InitScanStale
  <2>2. ChainSound' /\ WalletSound'
    BY <1>0, <2>1, QuietKeeps DEF Active
  <2>3. PlaceSound'
    BY <1>0, <2>1 DEF PlaceSound, Rooted
  <2>4. HistSettled' /\ RoundInv'
    BY <1>0, <2>1 DEF HistSettled, RoundInv
  <2> QED BY <2>2, <2>3, <2>4 DEF ChainInv
<1>5. CASE InitFails
  BY <1>5, QuietExit DEF InitFails
<1>6. CASE InitTip
  <2>1. proc = "init" /\ pc = "scan" /\ InitRanges = {} /\ StartTasks /\ UNCHANGED <<best, top>>
    BY <1>6 DEF InitTip
  <2>2. IsAnc(view, best) /\ Birthday <= Len(view) /\ boundary <= Len(view) /\ boundary \in Nat
        /\ \A s \in stored : Comparable(s, best)
    BY <1>0, <2>1, Shapes DEF PlaceSound
  <2>3. Len(view) \in Heights(stored)
    <3> DEFINE U == Unscanned(boundary, Len(view))
    <3>1. Runs(U) = {}
      BY <2>1 DEF InitRanges
    <3>2. MaxOf(boundary, Birthday) \in Nat /\ MaxOf(boundary, Birthday) <= Len(view)
      BY <1>1, <2>2, Numbers DEF MaxOf
    <3>3. U \in SUBSET Nat /\ \A h \in U : h <= Len(view)
      BY <1>1, <3>2 DEF Unscanned
    <3>4. U = {}
      <4> HIDE DEF U
      <4> QED BY <1>1, <3>1, <3>3, RunsNonempty
    <3> QED BY <1>1, <3>2, <3>4 DEF Unscanned
  <2>4. view \in stored
    <3>1. PICK s \in stored : Len(s) = Len(view)
      BY <2>3 DEF Heights
    <3>2. s \in Block /\ IsAnc(s, best)
      <4>1. Len(view) <= Len(best)
        BY <1>1, <2>2, AncSteps
      <4> QED BY <1>1, <2>2, <3>1, <4>1, ComparableLower
    <3>3. s = view
      BY <1>1, <2>2, <3>1, <3>2, AncOrdered, AncSameHeight
    <3> QED BY <3>3
  <2>5. ~TipMissing
    <3>1. BlockAt(stored, Len(view)) \in stored
      BY <2>4 DEF BlockAt
    <3> QED BY <1>1, <3>1, Numbers DEF TipMissing
  <2>6. UNCHANGED <<stored, ckpt, told, why>> /\ proc' = "run" /\ prev' = view /\ pc' = "pin"
        /\ view' = Genesis /\ hpc' = "choose"
    BY <1>6, <2>5 DEF InitTip, StartTasks
  <2>7. ChainSound' /\ WalletSound'
    BY <1>0, <2>1, <2>6, QuietKeeps DEF Active
  <2>8. Rooted(Genesis)
    BY <1>1, GenesisRooted
  <2>9. \E s \in stored : told <= Len(s)
    BY <1>0, <2>1, <2>4 DEF PlaceSound
  <2>10. PlaceSound'
    BY <1>0, <2>1, <2>4, <2>6, <2>8, <2>9 DEF PlaceSound, Rooted
  <2>11. HistSettled' /\ RoundInv'
    BY <1>0, <2>6 DEF HistSettled, RoundInv
  <2> QED BY <2>7, <2>10, <2>11 DEF ChainInv
<1> QED BY <1>2, <1>3, <1>4, <1>5, <1>6 DEF Initialize
-----------------------------------------------------------------------------
\* What is below a rooted block is rooted.
LEMMA RootedBelow ==
  ASSUME best \in Block, top \in Nat, NEW x \in Block, Rooted(x), NEW y \in Block, IsAnc(y, x)
  PROVE  Rooted(y)
<1> DEFINE k == SatSub(Len(x), ReorgDepth)
           j == SatSub(Len(y), ReorgDepth)
<1>1. Len(x) \in Nat /\ Len(y) \in Nat /\ Len(y) <= Len(x) /\ Len(x) <= top /\ IsAnc(Anc(x, k), best)
  BY AncSteps DEF Rooted
<1>2. k \in Nat /\ k <= Len(x) /\ j \in Nat /\ j <= Len(y) /\ j <= k
  BY <1>1, Numbers DEF SatSub
<1> HIDE DEF k, j
<1>3. Anc(x, k) \in Block /\ Len(Anc(x, k)) = k /\ IsAnc(Anc(x, k), x)
  BY <1>2, AncAt
<1>4. Anc(y, j) = Anc(x, j) /\ Anc(Anc(x, k), j) = Anc(x, j)
  BY <1>2, <1>3, AncShared
<1>5. Anc(Anc(x, k), j) \in Block /\ IsAnc(Anc(Anc(x, k), j), Anc(x, k))
  BY <1>2, <1>3, AncAt
<1>6. IsAnc(Anc(y, j), best)
  BY <1>1, <1>3, <1>4, <1>5, AncTransitive
<1> QED BY <1>1, <1>6 DEF Rooted, j

\* A height low enough below a rooted block is final, and the two chains agree
\* there.
LEMMA RootedFinal ==
  ASSUME best \in Block, top \in Nat, NEW x \in Block, Rooted(x),
         NEW c \in Nat, c + ReorgDepth <= Len(x)
  PROVE  c <= Final /\ Anc(best, c) = Anc(x, c) /\ Anc(x, c) \in Block /\ IsAnc(Anc(x, c), x)
<1> DEFINE k == SatSub(Len(x), ReorgDepth)
<1>1. Len(x) \in Nat /\ Len(x) <= top /\ IsAnc(Anc(x, k), best)
  BY AncSteps DEF Rooted
<1>2. k \in Nat /\ k <= Len(x) /\ c <= k /\ c <= Len(x) /\ c <= Final
  BY <1>1, Numbers DEF SatSub, Final
<1> HIDE DEF k
<1>3. Anc(x, k) \in Block /\ Len(Anc(x, k)) = k /\ IsAnc(Anc(x, k), x)
  BY <1>2, AncAt
<1>4. Anc(Anc(x, k), c) = Anc(x, c) /\ Anc(Anc(x, k), c) = Anc(best, c)
  BY <1>1, <1>2, <1>3, AncShared
<1> QED BY <1>2, <1>4, AncAt

\* steady_state applies a block of its view.
LEMMA ApplyKeeps ==
  ASSUME Regular, ChainInv, SyncInv', Apply
  PROVE  ChainInv'
<1>0. SyncInv /\ ChainSound /\ WalletSound /\ PlaceSound /\ HistSettled /\ RoundInv
  BY DEF ChainInv
<1> DEFINE b == Anc(view, next)
<1>1. /\ proc = "run" /\ pc = "apply" /\ next <= Len(view) /\ PutBlocks({b}) /\ prev' = b
      /\ told' = MaxOf(told, next)
      /\ UNCHANGED <<best, top, proc, why, pc, view, fork, boundary, hpc, hview, hend>>
  BY DEF Apply, UpdateChainTip
<1>2. /\ SetFacts /\ best \in Block /\ view \in Block /\ prev \in Block /\ stored \in SUBSET Block
      /\ Len(best) \in Nat /\ Len(view) \in Nat /\ Len(prev) \in Nat /\ top \in Nat
      /\ Final \in Nat /\ Final <= Len(best)
      /\ \A s \in stored : Len(s) \in Nat
  BY <1>0, Shapes DEF ChainSound
<1>3. prev \in stored /\ IsAnc(prev, view) /\ Rooted(view) /\ Active /\ told \in Nat
  BY <1>0, <1>1 DEF PlaceSound, RoundInv, Active
<1>4. next = Len(prev) + 1 /\ next \in Nat
  BY <1>2 DEF next
<1>5. b \in Block /\ Len(b) = next /\ IsAnc(b, view)
  BY <1>1, <1>2, <1>4, AncAt
<1>6. /\ stored' = stored \cup {b} /\ ckpt' = Retained(ckpt \cup {next})
      /\ \A s \in stored : Len(s) = next => s = b
  <2>1. Heights({b}) = {next}
    BY <1>5 DEF Heights
  <2> QED BY <1>1, <1>5, <2>1 DEF PutBlocks, BlockConflict
<1> HIDE DEF b
<1>7. ASSUME NEW y \in stored PROVE Comparable(b, y)
  <2>0. y \in Block /\ Len(y) \in Nat /\ \A s \in stored : Comparable(s, y)
    BY <1>0, <1>2 DEF WalletSound, OneChain
  <2>1. CASE Len(y) <= Len(prev)
    <3>1. IsAnc(y, prev)
      BY <1>0, <1>2, <1>3, <2>0, <2>1, ComparableLower DEF WalletSound, OneChain
    <3>2. IsAnc(y, view)
      BY <1>2, <1>3, <2>0, <3>1, AncTransitive
    <3>3. IsAnc(y, b)
      BY <1>2, <1>4, <1>5, <2>0, <2>1, <3>2, AncOrdered
    <3> QED BY <3>3 DEF Comparable
  <2>2. CASE next \in Heights(stored)
    <3>1. b \in stored
      BY <1>6, <2>2 DEF Heights
    <3> QED BY <2>0, <3>1
  <2>3. CASE Len(y) > Len(prev) /\ next \notin Heights(stored)
    <3>1. next < Len(y)
      <4>1. Len(y) # next
        BY <2>3 DEF Heights
      <4> QED BY <1>2, <1>4, <2>0, <2>3, <4>1
    <3>2. Settled(next)
      BY <1>0, <1>4, <2>3, <3>1 DEF WalletSound, Gap
    <3>3. next <= Len(best) /\ IsAnc(Anc(best, next), view) /\ Comparable(Anc(best, next), y)
      BY <1>2, <1>3, <1>4, <3>2 DEF Settled
    <3>4. Anc(best, next) \in Block /\ Len(Anc(best, next)) = next
      BY <1>2, <1>4, <3>3, AncAt
    <3>5. Anc(best, next) = b
      BY <1>2, <1>4, <1>5, <3>3, <3>4, AncOrdered, AncSameHeight
    <3> QED BY <3>3, <3>5
  <2> QED BY <1>2, <2>0, <2>1, <2>2, <2>3
<1>8. \A x \in {b}, y \in stored \cup {b} : Comparable(x, y)
  BY <1>5, <1>7, AncReflexive DEF Comparable
<1>9. Rooted(b)
  BY <1>2, <1>3, <1>5, RootedBelow
<1>10. ASSUME NEW h, Gap(h)' PROVE Gap(h)
  <2>1. h \in Nat /\ h \notin Heights(stored')
    BY <1>10 DEF Gap
  <2>2. PICK s \in stored' : h < Len(s)
    BY <1>10 DEF Gap
  <2>3. h \notin Heights(stored) /\ h # Len(prev)
    BY <1>3, <1>6, <2>1 DEF Heights
  <2>4. CASE s \in stored
    BY <2>1, <2>2, <2>3, <2>4 DEF Gap
  <2>5. CASE s = b
    <3>1. h < Len(prev)
      BY <1>2, <1>4, <1>5, <2>1, <2>2, <2>3, <2>5
    <3> QED BY <1>3, <2>1, <2>3, <3>1 DEF Gap
  <2> QED BY <1>6, <2>2, <2>4, <2>5
<1>11. Final' = Final /\ ChainSound' /\ (Active' <=> Active)
  BY <1>0, <1>1 DEF Final, ChainSound, Active
<1>12. ASSUME NEW g, Settled(g) PROVE Settled(g)'
  <2>1. g \in Nat /\ g <= Final /\ IsAnc(Anc(best, g), view) /\ \A x \in stored : Comparable(Anc(best, g), x)
    BY <1>3, <1>12 DEF Settled
  <2>2. Anc(best, g) \in Block
    BY <1>2, <2>1, AncAt
  <2>3. Comparable(Anc(best, g), b)
    <3>1. Comparable(view, b)
      BY <1>5 DEF Comparable
    <3> QED BY <1>2, <1>5, <2>1, <2>2, <3>1, ComparableBelow
  <2> QED BY <1>1, <1>6, <1>11, <2>1, <2>3 DEF Settled
<1>13. \E c \in ckpt' : Settled(c)'
  <2> DEFINE C == ckpt \cup {next}
  <2>1. \A c \in ckpt : c \in Nat /\ c < ShutdownHeight /\ c \in Heights(stored)
    BY <1>0, Shapes
  <2>2. C \in SUBSET Nat /\ (\A c \in C : c <= ShutdownHeight + next) /\ ShutdownHeight + next \in Nat
    BY <1>4, <2>1, Numbers
  <2>3. \A c \in C : \E y \in stored' : Len(y) = c
    BY <1>5, <1>6, <2>1 DEF Heights
  <2>4. PICK c0 \in ckpt : Settled(c0)
    BY <1>0, <1>3 DEF WalletSound
  <2>5. CASE c0 \in Retained(C)
    BY <1>6, <1>12, <2>4, <2>5
  <2>6. CASE c0 \notin Retained(C)
    <3>1. next \in Retained(C)
      <4> DEFINE A0 == {d \in ckpt : d > c0}
                 A1 == {d \in C : d > next}
      <4>1. c0 \in Retained(ckpt)
        BY <1>0, <2>4 DEF WalletSound
      <4>2. Cardinality(A0) < CheckpointDepth /\ {d \in C : d > c0} # A0
        <5>1. ~(c0 % AnchorInterval = 0) /\ ~(Cardinality({d \in C : d > c0}) < CheckpointDepth)
          BY <2>4, <2>6 DEF Retained
        <5>2. Cardinality(A0) < CheckpointDepth
          BY <4>1, <5>1 DEF Retained
        <5> QED BY <5>1, <5>2
      <4>3. next > c0
        BY <4>2
      <4>4. A1 \subseteq A0
        <5>1. ASSUME NEW d \in C, d > next PROVE d \in ckpt /\ d > c0
          BY <1>4, <2>1, <4>3, <5>1
        <5> QED BY <5>1
      <4>5. A0 \in SUBSET Nat /\ \A d \in A0 : d <= ShutdownHeight
        <5>1. \A d \in ckpt : d \in Nat /\ d <= ShutdownHeight
          BY <2>1, Numbers
        <5> QED BY <5>1
      <4>6. Cardinality(A1) < CheckpointDepth
        <5>1. Cardinality(A1) \in Nat /\ Cardinality(A0) \in Nat /\ Cardinality(A1) <= Cardinality(A0)
          <6> HIDE DEF A0, A1
          <6> QED BY <1>2, <4>4, <4>5, FewHeights, Numbers
        <5> QED BY <4>2, <5>1, Numbers
      <4> QED BY <4>6 DEF Retained
    <3>2. PICK c1 \in Retained(C), m \in C :
            c0 < c1 /\ c1 + ReorgDepth <= m /\ \A d \in C : d <= m
      <4>1. ReorgDepth < CheckpointDepth /\ c0 \in C
        BY <2>4 DEF Regular
      <4> HIDE DEF C
      <4> QED BY <1>2, <2>2, <2>6, <4>1, RetentionLag
    <3>3. c1 \in Nat /\ m \in Nat /\ next <= m
      <4>1. Retained(C) \subseteq C
        BY DEF Retained
      <4> QED BY <2>2, <3>2, <4>1
    <3>4. PICK c \in Retained(C) : c \in Nat /\ c <= next /\ c + ReorgDepth <= m
      <4>1. CASE c1 <= next
        BY <3>2, <3>3, <4>1
      <4>2. CASE ~(c1 <= next)
        BY <1>4, <3>1, <3>2, <3>3, <4>2, Numbers
      <4> QED BY <4>1, <4>2
    <3>5. PICK y \in stored' : Len(y) = m
      BY <2>3
    <3>6. y \in Block /\ Rooted(y) /\ \A x \in stored' : Comparable(y, x)
      <4>1. Rooted(y) /\ y \in Block
        BY <1>0, <1>2, <1>5, <1>6, <1>9 DEF WalletSound
      <4>2. ASSUME NEW x \in stored' PROVE Comparable(y, x)
        <5>1. (x \in stored \/ x = b) /\ (y \in stored \/ y = b)
          BY <1>6
        <5> QED BY <1>0, <1>7, <1>8, <5>1 DEF WalletSound, OneChain, Comparable
      <4> QED BY <4>1, <4>2
    <3>7. c <= Final /\ Anc(best, c) = Anc(y, c) /\ Anc(y, c) \in Block /\ IsAnc(Anc(y, c), y)
      BY <1>2, <3>4, <3>5, <3>6, RootedFinal
    <3>8. IsAnc(b, y)
      <4>1. Comparable(b, y)
        BY <1>6, <3>6 DEF Comparable
      <4> QED BY <1>5, <3>3, <3>5, <3>6, <4>1, ComparableLower
    <3>9. IsAnc(Anc(best, c), view)
      <4>1. Anc(b, c) = Anc(y, c) /\ Anc(b, c) = Anc(view, c)
        BY <1>2, <1>5, <3>4, <3>6, <3>8, AncShared
      <4>2. c <= Len(view)
        BY <1>1, <1>2, <1>4, <3>4
      <4> QED BY <1>2, <3>4, <3>7, <4>1, <4>2, AncAt
    <3>10. \A x \in stored' : Comparable(Anc(best, c), x)
      <4>1. stored' \in SUBSET Block
        BY <1>2, <1>5, <1>6
      <4> QED BY <3>6, <3>7, <4>1, ComparableBelow
    <3>11. Settled(c)'
      BY <1>1, <1>11, <3>4, <3>7, <3>9, <3>10 DEF Settled
    <3> QED BY <1>6, <3>4, <3>11
  <2> QED BY <2>5, <2>6
<1>14. WalletSound'
  <2>1. {b} \in SUBSET Block /\ (\A x \in {b} : Rooted(x)) /\ PutBlocks({b})
    BY <1>1, <1>5, <1>9 DEF b
  <2>2. \A h : Gap(h)' => Gap(h) \/ Settled(h)'
    BY <1>10
  <2> QED BY <1>0, <1>1, <1>8, <1>12, <1>13, <2>1, <2>2, PutKeeps
<1>15. told' \in Nat /\ \E s \in stored' : told' <= Len(s)
  <2>1. \E s \in stored : told <= Len(s)
    BY <1>0, <1>1 DEF PlaceSound
  <2>2. told' \in Nat /\ (told' = told \/ told' = next)
    BY <1>1, <1>3, <1>4 DEF MaxOf
  <2>3. next <= Len(b)
    BY <1>4, <1>5
  <2> QED BY <1>6, <2>1, <2>2, <2>3
<1>16. PlaceSound'
  BY <1>0, <1>1, <1>6, <1>15 DEF PlaceSound, Rooted, b
<1>17. HistSettled'
  BY <1>0, <1>1, <1>12 DEF HistSettled
<1>18. RoundInv'
  BY <1>0, <1>1, <1>5 DEF RoundInv, b
<1> QED BY <1>11, <1>14, <1>16, <1>17, <1>18 DEF ChainInv

\* A step of steady_state that leaves the database and the block applied last
\* alone, with the view it had or a fresh one.
LEMMA QuietRound ==
  ASSUME ChainInv, SyncInv', RoundInv', proc = "run", pc' \notin {"off", "scan"},
         UNCHANGED <<best, top, proc, stored, ckpt, told, prev, hpc, hview, hend>>,
         (view' = view /\ (Active' => Active)) \/ view' = best
  PROVE  ChainInv'
<1>0. SyncInv /\ ChainSound /\ WalletSound /\ PlaceSound /\ HistSettled
  BY DEF ChainInv
<1>1. ChainSound' /\ WalletSound' /\ \A g : Settled(g) => Settled(g)'
  BY <1>0, QuietKeeps
<1>2. Rooted(view')
  BY <1>0, Shapes, AncReflexive, OnBestRooted DEF PlaceSound
<1>3. PlaceSound'
  BY <1>0, <1>2 DEF PlaceSound, Rooted
<1>4. HistSettled'
  BY <1>0, <1>1 DEF HistSettled
<1> QED BY <1>1, <1>3, <1>4 DEF ChainInv

\* steady_state rewinds to the fork point, or to the lowest checkpoint, which
\* is settled.
LEMMA RewindKeeps ==
  ASSUME Regular, ChainInv, SyncInv', Rewind
  PROVE  ChainInv'
<1>0. SyncInv /\ ChainSound /\ WalletSound /\ PlaceSound /\ HistSettled /\ RoundInv /\ DbSound
  BY DEF ChainInv, SyncInv
<1> DEFINE L == Landing(Len(fork))
<1>1. /\ proc = "run" /\ pc \in {"rewind", "rewind-retry"} /\ TruncateTo(L)
      /\ prev' = ResumePoint(L, Len(fork))
      /\ pc' = IF pc = "rewind" THEN "mark" ELSE "mark-retry"
      /\ UNCHANGED <<best, top, proc, why, view, hpc, hview, hend>>
  BY DEF Rewind
<1>2. stored # {} /\ fork \in Block /\ Len(fork) \in Nat /\ Active
  BY <1>0, <1>1 DEF SyncInv, RoundInv, Block, Active
<1>3. /\ WalletSound' /\ stored' \subseteq stored
      /\ \A g : Settled(g) => Settled(g)'
      /\ prev' \in stored' /\ Len(prev') = L
      /\ told' \in Nat /\ \E s \in stored' : told' <= Len(s)
  BY <1>1, <1>2, TruncateKeeps
<1>4. L \in ckpt /\ L \in Nat /\ (L <= Len(fork) \/ \A d \in ckpt : L <= d)
  BY <1>0, <1>2, LandsLow
<1> HIDE DEF L
<1>5. ChainSound'
  BY <1>0, <1>1 DEF ChainSound, Final
<1>6. PlaceSound'
  BY <1>0, <1>1, <1>3 DEF PlaceSound, Rooted
<1>7. HistSettled'
  BY <1>0, <1>1, <1>3 DEF HistSettled
<1>8. ASSUME pc = "rewind" PROVE IsAnc(prev', view)
  <2>1. IsAnc(fork, view) /\ Comparable(prev', fork) /\ prev' \in stored
    BY <1>0, <1>3, <1>8 DEF RoundInv
  <2>2. prev' \in Block /\ view \in Block /\ best \in Block /\ Len(best) \in Nat
    BY <1>0, <2>1, Shapes
  <2>3. CASE L <= Len(fork)
    <3>1. IsAnc(prev', fork)
      BY <1>2, <1>3, <2>1, <2>2, <2>3, ComparableLower
    <3> QED BY <1>2, <2>1, <2>2, <3>1, AncTransitive
  <2>4. CASE \A d \in ckpt : L <= d
    <3>1. PICK q \in ckpt : Settled(q)
      BY <1>0, <1>2 DEF WalletSound
    <3>2. Settled(L)
      BY <1>0, <1>4, <2>4, <3>1, SettledBelow
    <3>3. L <= Len(best) /\ Comparable(Anc(best, L), prev') /\ IsAnc(Anc(best, L), view)
      BY <1>0, <1>2, <1>4, <2>1, <2>2, <3>2 DEF Settled, ChainSound
    <3>4. Anc(best, L) \in Block /\ Len(Anc(best, L)) = L
      BY <1>4, <2>2, <3>3, AncAt
    <3>5. Anc(best, L) = prev'
      BY <1>3, <1>4, <2>2, <3>3, <3>4, ComparableLower, AncSameHeight
    <3> QED BY <3>3, <3>5
  <2> QED BY <1>4, <2>3, <2>4
<1>9. RoundInv'
  BY <1>0, <1>1, <1>8 DEF RoundInv
<1> QED BY <1>3, <1>5, <1>6, <1>7, <1>9 DEF ChainInv

\* A tree divergence: steady_state rolls back, or gives up.
LEMMA RecoverTreeKeeps ==
  ASSUME Regular, ChainInv, SyncInv', RecoverTree
  PROVE  ChainInv'
<1>0. SyncInv /\ ChainSound /\ WalletSound /\ PlaceSound /\ HistSettled /\ RoundInv
  BY DEF ChainInv
<1> DEFINE t == Target(tree, Len(prev), Birthday)
<1>1. proc = "run" /\ pc = "apply"
  BY DEF RecoverTree
<1>2. stored # {}
  BY <1>0, <1>1 DEF PlaceSound
<1>3. \/ UNCHANGED dbVars /\ Exit("tree")
      \/ TruncateTo(Landing(t)) /\ Exit("tree")
      \/ /\ TruncateTo(Landing(t)) /\ prev' = ResumePoint(Landing(t), t) /\ pc' = "mark-retry"
         /\ UNCHANGED <<chainVars, procVars, view, fork, boundary, histVars, pub>>
  BY DEF RecoverTree
<1> HIDE DEF t
<1>4. CASE UNCHANGED dbVars /\ Exit("tree")
  BY <1>4, QuietExit
<1>5. CASE TruncateTo(Landing(t)) /\ Exit("tree")
  <2>1. UNCHANGED <<best, top>> /\ ~Active'
    BY <1>5 DEF Exit, Active
  <2>2. WalletSound' /\ told' \in Nat /\ \E s \in stored' : told' <= Len(s)
    BY <1>2, <1>5, <2>1, TruncateKeeps
  <2> QED BY <1>5, <2>2, ExitKeeps
<1>6. CASE /\ TruncateTo(Landing(t)) /\ prev' = ResumePoint(Landing(t), t) /\ pc' = "mark-retry"
           /\ UNCHANGED <<chainVars, procVars, view, fork, boundary, histVars, pub>>
  <2>1. UNCHANGED <<best, top, proc, why, view, hpc, hview, hend>> /\ Active
    BY <1>1, <1>6 DEF Active
  <2>2. /\ WalletSound' /\ (\A g : Settled(g) => Settled(g)') /\ prev' \in stored'
        /\ told' \in Nat /\ \E s \in stored' : told' <= Len(s)
    BY <1>2, <1>6, <2>1, TruncateKeeps
  <2>3. ChainSound'
    BY <1>0, <2>1 DEF ChainSound, Final
  <2>4. PlaceSound'
    BY <1>0, <1>1, <1>6, <2>1, <2>2 DEF PlaceSound, Rooted
  <2>5. HistSettled' /\ RoundInv'
    BY <1>0, <1>6, <2>1, <2>2 DEF HistSettled, RoundInv
  <2> QED BY <2>2, <2>3, <2>4, <2>5 DEF ChainInv
<1> QED BY <1>3, <1>4, <1>5, <1>6

\* steady_state keeps the invariant.
LEMMA SteadyKeeps ==
  ASSUME Regular, ChainInv, SyncInv', SteadyState
  PROVE  ChainInv'
<1>0. SyncInv /\ ChainSound /\ WalletSound /\ PlaceSound /\ HistSettled /\ RoundInv
  BY DEF ChainInv
<1>1. /\ SetFacts /\ best \in Block /\ view \in Block /\ prev \in Block /\ stored \in SUBSET Block
      /\ Len(best) \in Nat /\ Len(view) \in Nat /\ Len(prev) \in Nat
      /\ (\A a, b \in stored : Comparable(a, b)) /\ PinnedSearch = TRUE
      /\ proc = "run" => prev \in stored
  BY <1>0, Shapes DEF WalletSound, OneChain, Regular, PlaceSound
<1>2. CASE Pin
  <2>1. RoundInv'
    BY <1>0, <1>2 DEF Pin, RoundInv
  <2> QED BY <1>2, <2>1, QuietRound DEF Pin
<1>3. CASE Locate
  <2>1. PICK f \in LocateForkPoint(stored, prev, view, best) :
          /\ f # NoBlock
          /\ pc' = IF f = prev THEN "apply" ELSE "rewind"
          /\ fork' = IF f = prev THEN fork ELSE f
    BY <1>3 DEF Locate
  <2>2. f \in Block /\ IsAnc(f, view) /\ \A s \in stored : Comparable(s, f)
    BY <1>1, <1>3, <2>1, ForkFound DEF Locate
  <2>3. UNCHANGED <<best, top, proc, why, stored, ckpt, told, view, prev, hpc, hview, hend>>
        /\ proc = "run" /\ Active
    BY <1>3 DEF Locate, Active
  <2>4. RoundInv'
    BY <1>0, <2>1, <2>2, <2>3 DEF RoundInv
  <2> QED BY <2>1, <2>3, <2>4, QuietRound
<1>4. CASE LocateFails
  <2>1. PICK f \in LocateForkPoint(stored, prev, view, best) :
          \/ f = NoBlock /\ Exit("diverged")
          \/ f # NoBlock /\ (Len(f) > Len(view) \/ (f # prev /\ Len(f) >= Len(prev)))
    BY <1>4 DEF LocateFails
  <2>2. ASSUME f # NoBlock PROVE FALSE
    <3>1. f \in Block /\ IsAnc(f, view) /\ (f = prev \/ Len(f) < Len(prev))
      BY <1>1, <1>4, <2>1, <2>2, ForkFound DEF LocateFails
    <3>2. Len(f) \in Nat /\ Len(f) <= Len(view)
      BY <1>1, <3>1, AncSteps
    <3> QED BY <1>1, <2>1, <2>2, <3>1, <3>2
  <2>3. Exit("diverged") /\ UNCHANGED dbVars
    BY <1>4, <2>1, <2>2 DEF LocateFails
  <2> QED BY <2>3, QuietExit
<1>5. CASE LocateStale \/ ApplyStale \/ MempoolEnds
  <2>1. /\ proc = "run" /\ pc' = "pin"
        /\ UNCHANGED <<best, top, proc, why, stored, ckpt, told, view, prev, hpc, hview, hend>>
    BY <1>5 DEF LocateStale, ApplyStale, MempoolEnds
  <2>2. RoundInv' /\ ~Active'
    BY <1>0, <2>1 DEF RoundInv, Active
  <2> QED BY <2>1, <2>2, QuietRound
<1>6. CASE Rewind
  BY <1>6, RewindKeeps
<1>7. CASE Mark \/ CaughtUp
  <2>1. /\ proc = "run" /\ Active
        /\ \/ pc = "mark" /\ pc' = "apply"
           \/ pc = "mark-retry" /\ pc' = "pin"
           \/ pc = "caught" /\ pc' = "mempool"
        /\ UNCHANGED <<best, top, proc, why, stored, ckpt, told, view, prev, fork, hpc, hview, hend>>
    BY <1>7 DEF Mark, CaughtUp, Active
  <2>2. RoundInv'
    BY <1>0, <2>1 DEF RoundInv
  <2> QED BY <2>1, <2>2, QuietRound
<1>8. CASE Apply
  BY <1>8, ApplyKeeps
<1>9. CASE ApplyDone
  <2>1. /\ proc = "run" /\ Active /\ pc = "apply" /\ pc' = "caught" /\ next > Len(view)
        /\ UNCHANGED <<best, top, proc, why, stored, ckpt, told, view, prev, fork, hpc, hview, hend>>
    BY <1>1, <1>9 DEF ApplyDone, MayEndEarly, Active
  <2>2. prev = view
    <3>1. IsAnc(prev, view)
      BY <1>0, <2>1 DEF RoundInv
    <3>2. Len(prev) = Len(view)
      BY <1>1, <2>1, <3>1, AncSteps DEF next
    <3> QED BY <1>1, <3>1, <3>2, AncSameHeight
  <2>3. RoundInv'
    BY <1>0, <2>1, <2>2 DEF RoundInv
  <2> QED BY <2>1, <2>3, QuietRound
<1>10. CASE ShutDown
  BY <1>10, QuietExit DEF ShutDown
<1>11. CASE ApplyConflict
  <2>1. CASE Exit("diverged")
    BY <1>11, <2>1, QuietExit DEF ApplyConflict
  <2>2. CASE ~Exit("diverged")
    <3>1. /\ proc = "run" /\ UNCHANGED dbVars /\ view' = best /\ pc' = "relocate"
          /\ BlockAt(stored, next - 1) # NoBlock /\ fork' = BlockAt(stored, next - 1)
          /\ UNCHANGED <<chainVars, procVars, prev, tree, boundary, histVars, pub>>
      BY <1>11, <2>2 DEF ApplyConflict
    <3>2. fork' \in stored
      BY <3>1 DEF BlockAt
    <3>3. RoundInv'
      BY <1>0, <3>1, <3>2 DEF RoundInv
    <3> QED BY <3>1, <3>3, QuietRound
  <2> QED BY <2>1, <2>2
<1>12. CASE Relocate
  <2>0. proc = "run" /\ pc = "relocate" /\ UNCHANGED dbVars
    BY <1>12 DEF Relocate
  <2>1. CASE Exit("diverged") \/ Exit("unavailable")
    BY <2>0, <2>1, QuietExit
  <2>2. CASE ~(Exit("diverged") \/ Exit("unavailable"))
    <3>1. PICK f \in LocateForkPoint(stored, fork, view, best) :
            /\ f # NoBlock /\ fork' = f /\ pc' = "rewind-retry"
            /\ UNCHANGED <<chainVars, procVars, view, prev, tree, boundary, histVars, pub>>
      BY <1>12, <2>2 DEF Relocate
    <3>2. fork \in stored
      BY <1>0, <2>0 DEF RoundInv
    <3>3. f \in Block
      BY <1>1, <3>1, <3>2, ForkFound
    <3>4. RoundInv' /\ Active
      BY <1>0, <2>0, <3>1, <3>3 DEF RoundInv, Active
    <3> QED BY <2>0, <3>1, <3>4, QuietRound
  <2> QED BY <2>1, <2>2
<1>13. CASE RecoverTree
  BY <1>13, RecoverTreeKeeps
<1> QED BY <1>2, <1>3, <1>4, <1>5, <1>6, <1>7, <1>8, <1>9, <1>10, <1>11, <1>12, <1>13 DEF SteadyState
-----------------------------------------------------------------------------
\* A step of recover_history that stores nothing.
LEMMA QuietHistory ==
  ASSUME ChainInv, SyncInv', HistSettled',
         UNCHANGED <<best, top, proc, why, stored, ckpt, told, pc, view, prev, fork, boundary>>
  PROVE  ChainInv'
<1>0. SyncInv /\ ChainSound /\ WalletSound /\ PlaceSound /\ RoundInv
  BY DEF ChainInv
<1>1. ChainSound' /\ WalletSound'
  BY <1>0, QuietKeeps DEF Active
<1>2. PlaceSound' /\ RoundInv'
  BY <1>0 DEF PlaceSound, Rooted, Final, RoundInv
<1> QED BY <1>1, <1>2 DEF ChainInv

\* What a batch of recover_history stores: settled blocks of the best chain.
LEMMA BatchSettled ==
  ASSUME Regular, ChainInv, HistScan,
         ~(hlo > Clamp(batchEnd) \/ hlo > Len(hview) + 1)
  PROVE  \E e \in Nat, bs \in SUBSET Block :
           /\ e <= hend /\ hlo <= e /\ PutBlocks(bs) /\ UNCHANGED told
           /\ e \in Heights(bs)
           /\ \A x \in bs : /\ Len(x) <= e /\ Len(x) \in Nat /\ IsAnc(x, best)
                             /\ x = Anc(best, Len(x)) /\ Settled(Len(x))
<1>0. SyncInv /\ ChainSound /\ HistSettled
  BY DEF ChainInv
<1>1. Settled(hend) /\ IsAnc(Anc(best, hend), hview)
  BY <1>0 DEF HistScan, HistSettled
<1>2. /\ best \in Block /\ hview \in Block /\ Len(best) \in Nat /\ Len(hview) \in Nat
      /\ hlo \in Nat /\ hend \in Nat /\ hend <= Final /\ Final \in Nat /\ Final <= Len(best)
      /\ hend < ShutdownHeight
  <2>1. hend <= Final /\ Final <= Len(best) /\ Len(best) <= top /\ top <= MaxHeight /\ MaxHeight < ShutdownHeight
        /\ top \in Nat /\ Final \in Nat
    BY <1>0, <1>1 DEF ChainSound, Settled, Regular
  <2> QED BY <1>0, <2>1, Shapes, Numbers
<1>3. /\ Anc(best, hend) \in Block /\ Len(Anc(best, hend)) = hend /\ IsAnc(Anc(best, hend), best)
      /\ hend <= Len(hview)
  <2>1. Anc(best, hend) \in Block /\ Len(Anc(best, hend)) = hend /\ IsAnc(Anc(best, hend), best)
    BY <1>2, AncAt
  <2> QED BY <1>1, <1>2, <2>1, AncSteps
<1> DEFINE e == batchEnd
<1>4. e \in Int /\ e <= hend
  BY <1>2, Numbers DEF batchEnd, MinOf
<1>5. Clamp(e) = e /\ MinOf(e, Len(hview)) = e
  BY <1>2, <1>3, <1>4, Numbers DEF Clamp, MinOf
<1>6. hlo <= e /\ e \in Nat
  BY <1>2, <1>4, <1>5
<1>7. StreamEnds(hview, hlo, e) = {e}
  BY DEF StreamEnds, MayEndEarly, Regular
<1> DEFINE bs == Blocks(hview, hlo, e)
<1>8. PutBlocks(bs) /\ UNCHANGED told
  BY <1>5, <1>7 DEF HistScan
<1>9. ASSUME NEW g \in hlo..e
      PROVE  /\ g \in Nat /\ g <= e /\ Anc(hview, g) \in Block /\ Len(Anc(hview, g)) = g
             /\ Anc(hview, g) = Anc(best, g) /\ IsAnc(Anc(hview, g), best) /\ Settled(g)
  <2>1. g \in Nat /\ g <= e /\ g <= hend /\ g <= Len(best) /\ g <= Len(hview)
    BY <1>2, <1>3, <1>4, <1>6
  <2>2. Anc(Anc(best, hend), g) = Anc(hview, g) /\ Anc(Anc(best, hend), g) = Anc(best, g)
    BY <1>1, <1>2, <1>3, <2>1, AncShared
  <2>3. Settled(g)
    BY <1>0, <1>1, <2>1, SettledBelow
  <2> QED BY <1>2, <2>1, <2>2, <2>3, AncAt
<1>10. ASSUME NEW x \in bs
       PROVE  /\ x \in Block /\ Len(x) <= e /\ Len(x) \in Nat /\ IsAnc(x, best)
              /\ x = Anc(best, Len(x)) /\ Settled(Len(x))
  <2>1. PICK g \in hlo..e : x = Anc(hview, g)
    BY DEF Blocks
  <2>2. Len(x) = g
    BY <1>9, <2>1
  <2> QED BY <1>9, <2>1, <2>2
<1>11. e \in Heights(bs)
  <2>1. e \in hlo..e
    BY <1>2, <1>6
  <2>2. Anc(hview, e) \in bs /\ Len(Anc(hview, e)) = e
    BY <1>9, <2>1 DEF Blocks
  <2> HIDE DEF bs
  <2> QED BY <2>2 DEF Heights
<1> HIDE DEF bs, e
<1> QED BY <1>4, <1>6, <1>8, <1>10, <1>11

\* A batch of recover_history keeps the invariant.
LEMMA HistScanKeeps ==
  ASSUME Regular, ChainInv, SyncInv', HistScan
  PROVE  ChainInv'
<1>0. SyncInv /\ ChainSound /\ WalletSound /\ PlaceSound /\ HistSettled /\ RoundInv
  BY DEF ChainInv
<1>1. /\ proc = "run" /\ Settled(hend) /\ hpc' \in {"choose", "publish"}
      /\ UNCHANGED <<best, top, proc, why, pc, view, prev, fork, boundary, hview, hlo, hend>>
  BY <1>0 DEF HistScan, HistSettled
<1>2. CASE hlo > Clamp(batchEnd) \/ hlo > Len(hview) + 1
  <2>1. UNCHANGED dbVars
    BY <1>2 DEF HistScan
  <2>2. HistSettled'
    BY <1>1, <2>1 DEF HistSettled, Settled, Final, Active
  <2> QED BY <1>1, <2>1, <2>2, QuietHistory
<1>3. CASE ~(hlo > Clamp(batchEnd) \/ hlo > Len(hview) + 1)
  <2>1. PICK e \in Nat, bs \in SUBSET Block :
           /\ e <= hend /\ hlo <= e /\ PutBlocks(bs) /\ UNCHANGED told
           /\ e \in Heights(bs)
           /\ \A x \in bs : /\ Len(x) <= e /\ Len(x) \in Nat /\ IsAnc(x, best)
                             /\ x = Anc(best, Len(x)) /\ Settled(Len(x))
    BY <1>3, BatchSettled
  <2>2. stored' = stored \cup bs /\ ckpt' = Retained(ckpt \cup Heights(bs))
    BY <2>1 DEF PutBlocks
  <2>3. /\ SetFacts /\ best \in Block /\ view \in Block /\ stored \in SUBSET Block /\ Len(best) \in Nat
        /\ Final \in Nat /\ Final <= Len(best) /\ hend \in Nat /\ prev \in stored
    BY <1>0, <1>1, Shapes DEF ChainSound, PlaceSound
  <2>4. ASSUME NEW x \in bs, NEW y \in stored \cup bs PROVE Comparable(x, y)
    <3>1. CASE y \in stored
      BY <2>1, <3>1 DEF Settled
    <3>2. CASE y \in bs
      <4>1. Comparable(best, y)
        BY <2>1, <3>2 DEF Comparable
      <4> QED BY <2>1, <2>3, <3>2, <4>1, ComparableBelow
    <3> QED BY <3>1, <3>2
  <2>5. \A x \in bs : Rooted(x)
    BY <1>0, <2>1, <2>3, OnBestRooted
  <2>6. Final' = Final /\ ChainSound' /\ (Active' <=> Active)
    BY <1>0, <1>1 DEF Final, ChainSound, Active
  <2>7. ASSUME NEW g, Settled(g) PROVE Settled(g)'
    <3>1. g \in Nat /\ g <= Final /\ (Active => IsAnc(Anc(best, g), view))
          /\ \A x \in stored : Comparable(Anc(best, g), x)
      BY <2>7 DEF Settled
    <3>2. Anc(best, g) \in Block /\ IsAnc(Anc(best, g), best)
      BY <2>3, <3>1, AncAt
    <3>3. \A x \in bs : Comparable(Anc(best, g), x)
      <4>1. \A x \in bs : x \in Block /\ Comparable(best, x)
        BY <2>1 DEF Comparable
      <4> QED BY <2>3, <3>2, <4>1, ComparableBelow
    <3> QED BY <1>1, <2>2, <2>6, <3>1, <3>3 DEF Settled
  <2>8. ASSUME NEW h, Gap(h)' PROVE Gap(h) \/ Settled(h)'
    <3>1. h \in Nat /\ h \notin Heights(stored')
      BY <2>8 DEF Gap
    <3>2. PICK s \in stored' : h < Len(s)
      BY <2>8 DEF Gap
    <3>3. CASE s \in stored
      <4>1. h \notin Heights(stored)
        BY <2>2, <3>1 DEF Heights
      <4> QED BY <3>1, <3>2, <3>3, <4>1 DEF Gap
    <3>4. CASE s \in bs
      <4>1. Settled(Len(s)) /\ h <= Len(s)
        BY <2>1, <3>1, <3>2, <3>4
      <4>2. Settled(h)
        BY <1>0, <3>1, <4>1, SettledBelow
      <4> QED BY <2>7, <4>2
    <3> QED BY <2>2, <3>2, <3>3, <3>4
  <2>9. \E c \in ckpt' : Settled(c)'
    <3> DEFINE C == ckpt \cup Heights(bs)
    <3>1. PICK c0 \in ckpt : Settled(c0)
      BY <1>0, <2>3 DEF WalletSound
    <3>2. Settled(e)
      BY <1>0, <1>1, <2>1, SettledBelow
    <3>3. c0 \in Nat /\ c0 \in Retained(ckpt)
      BY <1>0, <3>1 DEF Settled, WalletSound
    <3>4. CASE c0 % AnchorInterval = 0
      <4>1. c0 \in Retained(C)
        BY <3>1, <3>4 DEF Retained
      <4> QED BY <2>2, <2>7, <3>1, <4>1
    <3>5. CASE ~(c0 % AnchorInterval = 0)
      <4> DEFINE A0 == {d \in ckpt : d > c0}
      <4>1. Cardinality(A0) < CheckpointDepth
        BY <3>3, <3>5 DEF Retained
      <4>2. PICK q \in {c0, e} : c0 <= q /\ e <= q
        BY <2>1, <3>3
      <4>3. q \in C /\ Settled(q) /\ q \in Nat
        BY <2>1, <3>1, <3>2, <3>3, <4>2
      <4> DEFINE A1 == {d \in C : d > q}
      <4>4. \A d \in ckpt : d \in Nat /\ d <= ShutdownHeight
        BY <1>0, Shapes, Numbers, HeightsBounded DEF SyncInv
      <4>5. A1 \subseteq A0
        <5>1. ASSUME NEW d \in C, d > q PROVE d \in ckpt /\ d > c0
          <6>1. \A c \in Heights(bs) : c \in Nat /\ c <= e
            BY <2>1 DEF Heights
          <6>2. d \in ckpt
            BY <2>1, <4>2, <4>3, <5>1, <6>1
          <6> QED BY <3>3, <4>2, <4>3, <4>4, <5>1, <6>2
        <5> QED BY <5>1
      <4>6. A0 \in SUBSET Nat /\ \A d \in A0 : d <= ShutdownHeight
        BY <4>4
      <4>7. Cardinality(A1) < CheckpointDepth
        <5>1. Cardinality(A1) \in Nat /\ Cardinality(A0) \in Nat /\ Cardinality(A1) <= Cardinality(A0)
          <6> HIDE DEF A0, A1
          <6> QED BY <2>3, <4>5, <4>6, FewHeights, Numbers
        <5> QED BY <4>1, <5>1, Numbers
      <4>8. q \in Retained(C)
        BY <4>3, <4>7 DEF Retained
      <4> QED BY <2>2, <2>7, <4>3, <4>8
    <3> QED BY <3>4, <3>5
  <2>10. WalletSound'
    BY <1>0, <1>1, <2>1, <2>4, <2>5, <2>7, <2>8, <2>9, PutKeeps
  <2>11. PlaceSound'
    BY <1>0, <1>1, <2>1, <2>2 DEF PlaceSound, Rooted
  <2>12. HistSettled'
    BY <1>1, <2>7 DEF HistSettled
  <2>13. ASSUME pc = "rewind" PROVE \A s \in stored' : Comparable(s, fork)
    <3>1. fork \in Block /\ IsAnc(fork, view) /\ (\A s \in stored : Comparable(s, fork)) /\ Active
      BY <1>0, <1>1, <2>13 DEF RoundInv, Active
    <3>2. ASSUME NEW x \in bs PROVE Comparable(x, fork)
      <4>1. x \in Block /\ IsAnc(x, view)
        BY <2>1, <3>1 DEF Settled
      <4>2. Comparable(view, fork)
        BY <3>1 DEF Comparable
      <4> QED BY <2>3, <3>1, <4>1, <4>2, ComparableBelow
    <3> QED BY <2>2, <3>1, <3>2
  <2>14. RoundInv'
    BY <1>0, <1>1, <2>2, <2>13 DEF RoundInv
  <2> QED BY <2>6, <2>10, <2>11, <2>12, <2>14 DEF ChainInv
<1> QED BY <1>2, <1>3

\* recover_history keeps the invariant.
LEMMA HistoryKeeps ==
  ASSUME Regular, ChainInv, SyncInv', RecoverHistory
  PROVE  ChainInv'
<1>0. SyncInv /\ ChainSound /\ WalletSound /\ PlaceSound /\ HistSettled /\ RoundInv
  BY DEF ChainInv
<1>1. CASE HistChoose
  <2>1. PICK r \in Runs(Suggested(SatSub(boundary, 1))) : hend' = r[2]
    BY <1>1 DEF HistChoose
  <2>2. hend' \in Suggested(SatSub(boundary, 1))
    BY <2>1 DEF Runs
  <2>3. hend' \in Nat /\ hend' \notin Heights(stored) /\ (hend' <= told \/ \E s \in stored : hend' < Len(s))
    BY <2>2 DEF Suggested, Unscanned, SyncInv
  <2>4. Gap(hend')
    <3>1. PICK s0 \in stored : told <= Len(s0)
      BY <1>0, <1>1 DEF PlaceSound, HistChoose
    <3>2. told \in Nat /\ Len(s0) \in Nat /\ hend' # Len(s0)
      BY <1>0, <2>3, Shapes DEF PlaceSound
    <3> QED BY <2>3, <3>1, <3>2 DEF Gap
  <2>5. Settled(hend')
    BY <1>0, <2>4 DEF WalletSound
  <2>6. HistSettled'
    BY <1>1, <2>5 DEF HistChoose, HistSettled, Settled, Final, Active
  <2> QED BY <1>1, <2>6, QuietHistory DEF HistChoose
<1>2. CASE HistPin
  <2>1. Settled(hend) /\ proc = "run"
    BY <1>0, <1>2 DEF HistPin, HistSettled
  <2>2. hend \in Nat /\ hend <= Len(best) /\ best \in Block
    BY <1>0, <2>1, Shapes DEF Settled, ChainSound
  <2>3. IsAnc(Anc(best, hend), best)
    BY <2>2, AncAt
  <2>4. HistSettled'
    BY <1>2, <2>1, <2>3 DEF HistPin, HistSettled, Settled, Final, Active
  <2> QED BY <1>2, <2>4, QuietHistory DEF HistPin
<1>3. CASE HistScan
  BY <1>3, HistScanKeeps
<1>4. CASE HistTreeConflict
  <2>1. CASE Exit("tree")
    BY <1>4, <2>1, QuietExit DEF HistTreeConflict
  <2>2. CASE ~Exit("tree")
    <3>1. /\ UNCHANGED dbVars /\ hpc = "scan" /\ hpc' = "pin"
          /\ UNCHANGED <<chainVars, procVars, steadyVars, boundary, hend>>
      BY <1>4, <2>2 DEF HistTreeConflict
    <3>2. HistSettled'
      BY <1>0, <3>1 DEF HistSettled, Settled, Final, Active
    <3> QED BY <3>1, <3>2, QuietHistory
  <2> QED BY <2>1, <2>2
<1>5. CASE HistFails
  BY <1>5, QuietExit DEF HistFails
<1>6. CASE HistRead \/ HistWrite
  <2>1. /\ UNCHANGED <<chainVars, procVars, dbVars, steadyVars, boundary>>
        /\ hpc \in {"publish", "write"}
        /\ (hpc' \in {"write", "pin"} /\ hend' = hend) \/ hpc' = "choose"
    BY <1>6 DEF HistRead, HistWrite
  <2>2. HistSettled'
    BY <1>0, <2>1 DEF HistSettled, Settled, Final, Active
  <2> QED BY <2>1, <2>2, QuietHistory
<1> QED BY <1>1, <1>2, <1>3, <1>4, <1>5, <1>6 DEF RecoverHistory
-----------------------------------------------------------------------------
\* The invariant is inductive.
LEMMA ChainInductive ==
  ASSUME Regular, SetFacts
  PROVE  (Init => ChainInv) /\ (ChainInv /\ [Next]_vars => ChainInv')
<1>1. ASSUME Init PROVE ChainInv
  <2>1. /\ best = Chain0 /\ top = Len(Chain0) /\ proc = "init" /\ pc = "pin" /\ why = "none"
        /\ stored = {} /\ ckpt = {} /\ told = 0 /\ view = Genesis /\ hpc = "off"
    BY <1>1 DEF Init
  <2>2. SyncInv /\ best \in Block /\ Len(best) \in Nat
    BY <1>1, SyncInductive, Shapes
  <2>3. ChainSound
    BY <2>1, <2>2, Numbers DEF ChainSound, Final, SatSub, Regular
  <2>4. WalletSound
    BY <2>1 DEF WalletSound, OneChain, Gap
  <2>5. PlaceSound
    <3>1. Rooted(Genesis) /\ IsAnc(Genesis, best)
      BY <2>2, <2>3, GenesisRooted, AncReflexive DEF ChainSound
    <3> QED BY <2>1, <2>2, <3>1 DEF PlaceSound
  <2>6. HistSettled /\ RoundInv
    BY <2>1 DEF HistSettled, RoundInv
  <2> QED BY <2>2, <2>3, <2>4, <2>5, <2>6 DEF ChainInv
<1>2. ASSUME ChainInv, [Next]_vars PROVE ChainInv'
  <2>0. SyncInv'
    BY <1>2, SyncInductive DEF ChainInv
  <2>1. CASE UNCHANGED vars
    <3>1. UNCHANGED <<best, top, proc, why, stored, ckpt, told, pc, view, prev, fork, boundary,
                      hpc, hview, hend>>
      BY <2>1 DEF vars
    <3>2. HistSettled'
      BY <1>2, <3>1 DEF ChainInv, HistSettled, Settled, Final, Active
    <3> QED BY <1>2, <2>0, <3>1, <3>2, QuietHistory
  <2>2. CASE Next
    BY <1>2, <2>0, <2>2, OutsideKeeps, InitializeKeeps, SteadyKeeps, HistoryKeeps DEF Next
  <2> QED BY <1>2, <2>1, <2>2
<1> QED BY <1>1, <1>2
=============================================================================
