-------------------------- MODULE WalletSyncProofs --------------------------
(***************************************************************************)
(* Two invariants of synchronisation, and what the moves of the chain and  *)
(* the writes of the database do to them.  SyncInv bounds the heights of   *)
(* the stored blocks and checkpoints, by what the chain ever reached and   *)
(* by the divergence height.  ChainInv makes the stored blocks be of one   *)
(* chain.                                                                  *)
(*                                                                         *)
(* The chain reorganises by at most ReorgDepth blocks, so a block that was *)
(* ever on it keeps all but its last ReorgDepth ancestors there (Rooted):  *)
(* stored blocks go stale only near the tip they were read from.  A task   *)
(* therefore rewinds to a block of its view before it writes at the tip,   *)
(* and what it writes away from the tip is out of every reorg's reach and  *)
(* below what any view disagrees about (Settled).                          *)
(***************************************************************************)
EXTENDS WalletSync, Integers, TLAPS

\* What the argument uses about sets of numbers and their cardinality.  It is
\* gathered here, and proved from the library's theorems in SyncTheorems.
SetFacts ==
  /\ \A C \in SUBSET Nat : C # {} => \E m \in C : \A d \in C : m <= d
  /\ Cardinality({}) = 0
  /\ \A B \in Nat : \A C \in SUBSET (0..B) :
       /\ IsFiniteSet(C) /\ Cardinality(C) \in Nat
       /\ \A A \in SUBSET C : IsFiniteSet(A) /\ Cardinality(A) \in Nat /\ Cardinality(A) <= Cardinality(C)
  /\ \A S : IsFiniteSet(S) => \A x : x \notin S => Cardinality(S \cup {x}) = Cardinality(S) + 1
  /\ \A m, n \in Nat : m <= n => \A S \in SUBSET ((m + 1)..n) : Cardinality(S) <= n - m

\* A set of heights has a lowest one.
LEMMA Lowest ==
  ASSUME SetFacts, NEW C \in SUBSET Nat, C # {}
  PROVE  \E m \in C : \A d \in C : m <= d
BY Zenon DEF SetFacts

\* A bounded one has a highest.
LEMMA Uppermost ==
  ASSUME SetFacts, NEW B \in Nat, NEW C \in SUBSET Nat, C # {}, \A c \in C : c <= B
  PROVE  \E m \in C : \A d \in C : d <= m
<1> DEFINE T == {n \in Nat : B - n \in C}
<1>1. \A c \in C : B - c \in T
  OBVIOUS
<1>2. PICK n \in T : \A d \in T : n <= d
  BY <1>1, Lowest
<1>3. B - n \in C /\ \A d \in C : d <= B - n
  BY <1>1, <1>2
<1> QED BY <1>3
-----------------------------------------------------------------------------
\* The constants are numbers.
LEMMA Numbers ==
  /\ ReorgDepth \in Nat /\ BoundaryDepth \in Nat /\ ShutdownHeight \in Nat /\ MaxHeight \in Nat
  /\ BatchSize \in Nat /\ BatchSize >= 1 /\ CheckpointDepth \in Nat /\ CheckpointDepth >= 1
  /\ Birthday \in Nat /\ Birthday >= 1
  /\ Chain0 \in Block /\ NoBlock \notin Block
<1>1. {MaxHeight, MaxMoves, ReorgDepth, BoundaryDepth, ShutdownHeight,
       MaxBadFrontiers, TreeRetries, MaxRestarts, Tolerance} \subseteq Nat
  BY SyncAssumption, Zenon
<1>2. {BatchSize, CheckpointDepth, AnchorInterval} \subseteq Nat \ {0}
  BY SyncAssumption, Zenon
<1>3. Birthday \in Nat \ {0} /\ NoBlock \notin Block
  BY ForkPointAssumption, Zenon
<1>4. Chain0 \in Block
  BY SyncAssumption, Zenon
<1> QED BY ONLY <1>1, <1>2, <1>3, <1>4

\* A block's height is a number, and the block at a height of its chain has
\* that height.
LEMMA AncLength ==
  ASSUME NEW v \in Block, NEW h \in Nat, h <= Len(v)
  PROVE  Len(v) \in Nat /\ Anc(v, h) \in Block /\ Len(Anc(v, h)) = h
BY DEF Anc, Block

\* Everything the chain can be is a chain.
LEMMA ChainsAreBlocks == Chains \subseteq Block
BY Numbers DEF Chains, Block

\* What the database holds: blocks below the divergence height, checkpoints
\* and wrong frontiers only where it has a block, and a checkpoint as soon as
\* it has any block.
DbSound ==
  /\ SetFacts
  /\ stored \subseteq Block
  /\ ShutdownRespected
  /\ ckpt \subseteq Heights(stored)
  /\ stored # {} => ckpt # {}
  /\ bad \subseteq Heights(stored)

\* The inductive invariant: the database, the typing of the blocks and heights
\* that the tasks carry, that only a wallet with blocks rewinds, and that
\* recover_history's ranges start above genesis.
SyncInv ==
  /\ DbSound
  /\ best \in Block /\ view \in Block /\ prev \in Block /\ hview \in Block
  /\ pc \in {"rewind", "rewind-retry", "relocate"} => stored # {}
  /\ boundary \in Nat /\ hlo \in Nat /\ hend \in Nat
  /\ hpc \in {"pin", "scan", "publish", "write"} => hlo >= 1

\* Stored heights are numbers below the divergence height.
LEMMA HeightsBounded ==
  ASSUME DbSound
  PROVE  /\ SetFacts
         /\ Heights(stored) \subseteq Nat
         /\ \A h \in Heights(stored) : h < ShutdownHeight
         /\ \A h \in Heights(stored) : \E b \in stored : Len(b) = h
         /\ \A b \in stored : Len(b) \in Heights(stored)
BY Numbers DEF DbSound, Heights, ShutdownRespected, Block

\* Retention never drops the last checkpoint.
LEMMA RetainedSome ==
  ASSUME SetFacts, NEW C \in SUBSET Nat, \A c \in C : c < ShutdownHeight
  PROVE  Retained(C) \subseteq C /\ (C # {} => Retained(C) # {})
<1>1. ASSUME C # {} PROVE Retained(C) # {}
  <2>1. PICK m \in C : \A d \in C : d <= m
    <3>1. \A c \in C : c <= ShutdownHeight
      BY Numbers
    <3> QED BY <1>1, <3>1, Numbers, Uppermost
  <2>2. {d \in C : d > m} = {}
    <3>1. m \in Nat /\ \A d \in C : d \in Nat /\ ~(d > m)
      BY <2>1
    <3> QED BY ONLY <3>1
  <2>3. Cardinality({d \in C : d > m}) = 0
    BY <2>2 DEF SetFacts
  <2>4. Cardinality({d \in C : d > m}) < CheckpointDepth
    BY <2>3, Numbers
  <2> QED BY <2>1, <2>4 DEF Retained
<1> QED BY <1>1 DEF Retained

\* A write of blocks below the divergence height keeps the database sound.
LEMMA PutSound ==
  ASSUME DbSound, NEW bs \in SUBSET Block, \A b \in bs : Len(b) < ShutdownHeight, PutBlocks(bs)
  PROVE  DbSound' /\ (stored # {} => stored' # {})
<1> DEFINE C == ckpt \cup Heights(bs)
<1>1. stored' = stored \cup bs /\ ckpt' = Retained(C)
  BY DEF PutBlocks
<1>2. stored' \subseteq Block /\ ShutdownRespected'
  BY <1>1 DEF DbSound, ShutdownRespected
<1>3. Heights(stored') = Heights(stored) \cup Heights(bs)
  BY <1>1 DEF Heights
<1>4. C \in SUBSET Nat /\ (\A c \in C : c < ShutdownHeight) /\ C \subseteq Heights(stored')
  <2>1. Heights(bs) \subseteq Nat /\ \A c \in Heights(bs) : c < ShutdownHeight
    BY DEF Heights, Block
  <2>2. ckpt \subseteq Heights(stored)
    BY DEF DbSound
  <2> QED BY <1>3, <2>1, <2>2, HeightsBounded
<1>5. stored' # {} => C # {}
  <2>1. bs # {} => Heights(bs) # {}
    BY DEF Heights
  <2> QED BY <1>1, <2>1 DEF DbSound
<1>6. Retained(C) \subseteq C /\ (C # {} => Retained(C) # {})
  <2> HIDE DEF C
  <2> QED BY <1>4, HeightsBounded, RetainedSome
<1>7. ckpt' \subseteq Heights(stored') /\ (stored' # {} => ckpt' # {})
  BY <1>1, <1>4, <1>5, <1>6
<1>8. bad' \subseteq Heights(stored')
  <2>1. bad \subseteq Heights(stored)
    BY DEF DbSound
  <2>2. bad' = bad \/ \E b \in bs : bad' = bad \cup {Len(b)}
    BY DEF PutBlocks
  <2>3. \A b \in bs : Len(b) \in Heights(bs)
    BY DEF Heights
  <2> QED BY <1>3, <2>1, <2>2, <2>3
<1> QED BY <1>1, <1>2, <1>7, <1>8 DEF DbSound, Heights

\* A rewind lands on a checkpoint.
LEMMA LandsOnCheckpoint ==
  ASSUME DbSound, stored # {}, NEW t
  PROVE  Landing(t) \in ckpt
<1> DEFINE below == {c \in ckpt : c <= t}
<1>1. SetFacts /\ ckpt \in SUBSET Nat /\ ckpt # {} /\ \A c \in ckpt : c <= ShutdownHeight
  BY HeightsBounded, Numbers DEF DbSound
<1>2. PICK lo \in ckpt : \A d \in ckpt : lo <= d
  BY <1>1, Lowest
<1>3. CASE below = {}
  BY <1>2, <1>3 DEF Landing
<1>4. CASE below # {}
  <2>1. below \in SUBSET Nat /\ \A c \in below : c <= ShutdownHeight
    BY <1>1
  <2>2. PICK hi \in below : \A d \in below : d <= hi
    <3> HIDE DEF below
    <3> QED BY <1>1, <1>4, <2>1, Numbers, Uppermost
  <2> QED BY <1>4, <2>2 DEF Landing
<1> QED BY <1>3, <1>4

\* It keeps the database sound, and leaves the block it resumes from.
LEMMA TruncateSound ==
  ASSUME DbSound, stored # {}, NEW t, TruncateTo(Landing(t))
  PROVE  DbSound' /\ stored' # {} /\ \A u : ResumePoint(Landing(t), u) \in Block
<1>1. Landing(t) \in ckpt
  BY LandsOnCheckpoint
<1> DEFINE h == Landing(t)
<1>2. h \in Nat /\ h \in Heights(stored)
  BY <1>1, HeightsBounded DEF DbSound
<1>3. PICK b \in stored : Len(b) = h
  BY <1>2, HeightsBounded
<1>4. /\ stored' = {c \in stored : Len(c) <= h}
      /\ ckpt' = {c \in ckpt : c <= h}
      /\ bad' = {c \in bad : c <= h}
  BY DEF TruncateTo
<1> HIDE DEF h
<1>5. b \in stored' /\ h \in ckpt'
  BY <1>1, <1>2, <1>3, <1>4 DEF h
<1>6. \A u : ResumePoint(h, u) \in Block
  BY <1>3 DEF ResumePoint, BlockAt, DbSound
<1>7. \A c \in Heights(stored) : c <= h => c \in Heights(stored')
  BY <1>4 DEF Heights
<1>8. DbSound'
  BY <1>4, <1>5, <1>7 DEF DbSound, ShutdownRespected, Heights
<1> QED BY <1>5, <1>6, <1>8 DEF h
-----------------------------------------------------------------------------
\* The ranges offered for scanning start above genesis and end within the
\* interval asked for.
LEMMA RunsWithin ==
  ASSUME NEW lo \in Nat, NEW hi \in Nat,
         NEW U \in SUBSET Unscanned(lo, hi), NEW r \in Runs(U)
  PROVE  r[1] \in Nat /\ r[2] \in Nat /\ r[1] >= 1 /\ r[2] <= hi
<1>1. MaxOf(lo, Birthday) \in Nat /\ MaxOf(lo, Birthday) >= 1
  BY Numbers DEF MaxOf
<1>2. \A h \in Unscanned(lo, hi) : h \in Nat /\ h >= 1 /\ h <= hi
  BY <1>1 DEF Unscanned
<1>3. r[1] \in U /\ r[2] \in U
  BY DEF Runs
<1> QED BY <1>2, <1>3

\* The ranges initialize scans lie within its view of the chain.
LEMMA InitRangesWithin ==
  ASSUME SyncInv, NEW r \in InitRanges
  PROVE  r[1] \in Nat /\ r[2] \in Nat /\ r[1] >= 1 /\ r[2] <= Len(view)
<1>1. VerifyStart \in Nat
  <2>1. ASSUME stored # {} PROVE Len(Highest(stored)) \in Nat
    <3>1. SetFacts /\ Heights(stored) \in SUBSET Nat /\ Heights(stored) # {}
          /\ \A c \in Heights(stored) : c <= ShutdownHeight
      BY <2>1, HeightsBounded, Numbers DEF SyncInv
    <3>2. PICK m \in Heights(stored) : \A d \in Heights(stored) : d <= m
      BY <3>1, Uppermost, Numbers
    <3>3. \E b \in stored : \A c \in stored : Len(c) <= Len(b)
      BY <3>2, HeightsBounded DEF SyncInv
    <3>4. Highest(stored) \in stored
      BY <3>3 DEF Highest
    <3> QED BY <3>4 DEF SyncInv, DbSound, Block
  <2> QED BY <2>1 DEF VerifyStart, SyncInv
<1>2. Len(view) \in Nat
  BY DEF SyncInv, Block
<1>3. PICK lo \in {boundary, VerifyStart} : r \in Runs(Unscanned(lo, Len(view)))
  BY DEF InitRanges
<1>4. lo \in Nat
  BY <1>1, <1>3 DEF SyncInv
<1> QED BY <1>2, <1>3, <1>4, RunsWithin

\* What a scan clamped to the divergence height stores is below it.
LEMMA ScannedBelow ==
  ASSUME NEW v \in Block, NEW lo \in Nat, lo >= 1, NEW top1 \in Nat,
         NEW hi \in Nat, hi <= Clamp(top1), hi <= Len(v),
         NEW end \in StreamEnds(v, lo, hi)
  PROVE  /\ Blocks(v, lo, end) \in SUBSET Block
         /\ \A b \in Blocks(v, lo, end) : Len(b) < ShutdownHeight
<1>1. end \in Int /\ end <= hi
  BY DEF StreamEnds
<1>2. Clamp(top1) \in Nat /\ (Clamp(top1) < ShutdownHeight \/ Clamp(top1) = 0)
  BY Numbers DEF Clamp, SatSub
<1>3. Len(v) \in Nat
  BY DEF Block
<1>4. ASSUME NEW h \in lo..end
      PROVE  Anc(v, h) \in Block /\ Len(Anc(v, h)) < ShutdownHeight
  <2>1. h \in Nat /\ h <= Len(v) /\ h < ShutdownHeight
    BY <1>1, <1>2, <1>3, Numbers
  <2> QED BY <2>1, AncLength
<1> QED BY <1>4 DEF Blocks

\* A task that ends takes the others down and leaves the database alone.
LEMMA ExitSound ==
  ASSUME SyncInv, NEW w, Exit(w), DbSound'
  PROVE  SyncInv'
<1>1. Genesis \in Block
  BY DEF Genesis, Block
<1> QED BY <1>1 DEF SyncInv, Exit, chainVars

\* Steps that leave the database alone leave it sound.
LEMMA DbKept ==
  ASSUME DbSound, UNCHANGED dbVars
  PROVE  DbSound'
BY DEF DbSound, dbVars, Heights, ShutdownRespected

\* The boundary is a height.
LEMMA BoundaryNat ==
  ASSUME NEW b \in Nat, NEW t \in Nat
  PROVE  UpdateBoundary(b, t) \in Nat
BY Numbers DEF UpdateBoundary, MaxOf, SatSub

\* Only a wallet with blocks is told of a fork point other than the block it
\* searched from.
LEMMA ForkMeansStored ==
  ASSUME NEW S, NEW p, NEW v, NEW l, NEW f \in LocateForkPoint(S, p, v, l), f # p
  PROVE  S # {}
<1>1. Locator(S, Len(p)) # {}
  BY DEF LocateForkPoint
<1> QED BY <1>1 DEF Locator
-----------------------------------------------------------------------------
USE DEF chainVars, procVars, steadyVars, histVars

\* The chain, a crash and a restart.
LEMMA OutsideSound ==
  ASSUME SyncInv, ChainMoves \/ Crash \/ Restart
  PROVE  SyncInv'
<1>0. DbSound
  BY DEF SyncInv
<1>1. CASE ChainMoves
  <2>1. DbSound' /\ stored' = stored
    BY <1>0, <1>1, DbKept DEF ChainMoves, dbVars
  <2>2. best' \in Block
    BY <1>1, ChainsAreBlocks DEF ChainMoves
  <2> QED BY <1>1, <2>1, <2>2 DEF ChainMoves, SyncInv
<1>2. CASE Crash
  <2>1. DbSound'
    BY <1>0, <1>2, DbKept DEF Crash
  <2> QED BY <1>2, <2>1, ExitSound DEF Crash
<1>3. CASE Restart
  <2>1. DbSound'
    BY <1>0, <1>3, DbKept DEF Restart
  <2> QED BY <1>3, <2>1 DEF Restart, SyncInv
<1> QED BY <1>1, <1>2, <1>3

\* initialize.
LEMMA InitializeSound ==
  ASSUME SyncInv, Initialize
  PROVE  SyncInv'
<1>0. DbSound /\ Len(best) \in Nat /\ Len(view) \in Nat /\ Genesis \in Block
  BY DEF SyncInv, Block, Genesis
<1>1. CASE InitPin
  <2>1. DbSound'
    BY <1>0, <1>1 DEF InitPin, DbSound, Heights, ShutdownRespected
  <2>2. boundary' \in Nat
    BY <1>0, <1>1, BoundaryNat DEF InitPin
  <2> QED BY <1>1, <2>1, <2>2 DEF InitPin, SyncInv
<1>2. CASE InitScan
  <2>1. PICK r \in InitRanges :
          \/ r[1] > Clamp(r[2]) /\ StartTasks /\ UNCHANGED dbVars
          \/ /\ r[1] <= Clamp(r[2])
             /\ \E end \in StreamEnds(view, r[1], Clamp(r[2])) : PutBlocks(Blocks(view, r[1], end))
             /\ \/ StartTasks
                \/ pc' = "pin" /\ UNCHANGED <<procVars, view, prev, fork, tree, histVars, pub>>
    BY <1>2 DEF InitScan
  <2>2. DbSound'
    <3>1. CASE UNCHANGED dbVars
      BY <1>0, <3>1, DbKept
    <3>2. CASE \E end \in StreamEnds(view, r[1], Clamp(r[2])) : PutBlocks(Blocks(view, r[1], end))
      <4>1. PICK end \in StreamEnds(view, r[1], Clamp(r[2])) : PutBlocks(Blocks(view, r[1], end))
        BY <3>2
      <4>2. r[1] \in Nat /\ r[2] \in Nat /\ r[1] >= 1 /\ r[2] <= Len(view)
        BY InitRangesWithin
      <4>3. Clamp(r[2]) \in Nat /\ Clamp(r[2]) <= Clamp(r[2]) /\ Clamp(r[2]) <= Len(view)
        BY <1>0, <4>2, Numbers DEF Clamp, SatSub
      <4>4. /\ Blocks(view, r[1], end) \in SUBSET Block
            /\ \A b \in Blocks(view, r[1], end) : Len(b) < ShutdownHeight
        BY <4>1, <4>2, <4>3, ScannedBelow DEF SyncInv
      <4> QED BY <1>0, <4>1, <4>4, PutSound
    <3> QED BY <2>1, <3>1, <3>2
  <2>3. UNCHANGED <<best, top, moves, boundary>>
    BY <1>2 DEF InitScan
  <2>4. CASE StartTasks
    BY <1>0, <2>2, <2>3, <2>4 DEF StartTasks, SyncInv
  <2>5. CASE pc' = "pin" /\ UNCHANGED <<procVars, view, prev, fork, tree, histVars, pub>>
    BY <2>2, <2>3, <2>5 DEF SyncInv
  <2> QED BY <2>1, <2>4, <2>5
<1>3. CASE InitScanStale
  <2>1. DbSound'
    BY <1>0, <1>3, DbKept DEF InitScanStale
  <2> QED BY <1>3, <2>1 DEF InitScanStale, SyncInv
<1>4. CASE InitFails
  <2>1. DbSound'
    BY <1>0, <1>4, DbKept DEF InitFails
  <2>2. \E w : Exit(w)
    BY <1>4 DEF InitFails
  <2> QED BY <2>1, <2>2, ExitSound
<1>5. CASE InitTip
  <2>1. DbSound'
    <3>1. CASE UNCHANGED dbVars
      BY <1>0, <3>1, DbKept
    <3>2. CASE Len(view) < ShutdownHeight /\ PutBlocks({view})
      BY <1>0, <3>2, PutSound DEF SyncInv
    <3> QED BY <1>5, <3>1, <3>2 DEF InitTip
  <2> QED BY <1>0, <1>5, <2>1 DEF InitTip, StartTasks, SyncInv
<1> QED BY <1>1, <1>2, <1>3, <1>4, <1>5 DEF Initialize

\* steady_state.
LEMMA SteadySound ==
  ASSUME SyncInv, SteadyState
  PROVE  SyncInv'
<1>0. DbSound /\ Len(best) \in Nat /\ Len(view) \in Nat /\ next \in Nat /\ next >= 1
  BY DEF SyncInv, Block, next
<1>1. CASE Pin
  <2>1. DbSound'
    BY <1>0, <1>1, DbKept DEF Pin
  <2>2. boundary' \in Nat
    BY <1>0, <1>1, BoundaryNat DEF Pin, SyncInv
  <2> QED BY <1>1, <2>1, <2>2 DEF Pin, SyncInv
<1>2. CASE Locate
  <2>1. DbSound'
    BY <1>0, <1>2, DbKept DEF Locate
  <2>2. pc' \in {"rewind", "rewind-retry", "relocate"} => stored # {}
    <3>1. PICK f \in LocateForkPoint(stored, prev, view, best) :
            pc' = IF f = prev THEN "apply" ELSE "rewind"
      BY <1>2 DEF Locate
    <3>2. f # prev => stored # {}
      BY <3>1, ForkMeansStored
    <3> QED BY <3>1, <3>2
  <2> QED BY <1>2, <2>1, <2>2 DEF Locate, SyncInv, dbVars
<1>3. CASE LocateFails
  <2>1. DbSound'
    BY <1>0, <1>3, DbKept DEF LocateFails
  <2>2. \E w : Exit(w)
    BY <1>3 DEF LocateFails
  <2> QED BY <2>1, <2>2, ExitSound
<1>4. CASE LocateStale \/ ApplyStale \/ ApplyDone \/ Mark \/ CaughtUp \/ MempoolEnds
  <2>1. UNCHANGED dbVars
    BY <1>4 DEF LocateStale, ApplyStale, ApplyDone, Mark, CaughtUp, MempoolEnds
  <2>2. DbSound'
    BY <1>0, <2>1, DbKept
  <2>3. pc' \notin {"rewind", "rewind-retry", "relocate"}
    BY <1>4 DEF LocateStale, ApplyStale, ApplyDone, Mark, CaughtUp, MempoolEnds
  <2>4. UNCHANGED <<best, view, prev, boundary, histVars>>
    BY <1>4 DEF LocateStale, ApplyStale, ApplyDone, Mark, CaughtUp, MempoolEnds
  <2> QED BY <2>2, <2>3, <2>4 DEF SyncInv
<1>5. CASE Rewind
  <2>1. stored # {} /\ TruncateTo(Landing(Len(fork)))
        /\ prev' = ResumePoint(Landing(Len(fork)), Len(fork))
    BY <1>5 DEF Rewind, SyncInv
  <2>2. DbSound' /\ stored' # {} /\ prev' \in Block
    BY <1>0, <2>1, TruncateSound
  <2> QED BY <1>5, <2>2 DEF Rewind, SyncInv
<1>6. CASE Apply
  <2>1. next <= Len(view) /\ next < ShutdownHeight
    BY <1>0, <1>6, Numbers DEF Apply, ScanBlockRefuses
  <2>2. Anc(view, next) \in Block /\ Len(Anc(view, next)) = next
    BY <1>0, <2>1, AncLength DEF SyncInv
  <2>3. PutBlocks({Anc(view, next)}) /\ prev' = Anc(view, next)
    BY <1>6 DEF Apply
  <2>4. {Anc(view, next)} \in SUBSET Block /\ \A b \in {Anc(view, next)} : Len(b) < ShutdownHeight
    BY <2>1, <2>2
  <2>5. DbSound'
    BY <1>0, <2>3, <2>4, PutSound
  <2> QED BY <1>6, <2>2, <2>3, <2>5 DEF Apply, SyncInv
<1>7. CASE ShutDown
  <2>1. DbSound'
    BY <1>0, <1>7, DbKept DEF ShutDown
  <2> QED BY <1>7, <2>1, ExitSound DEF ShutDown
<1>8. CASE ApplyConflict
  <2>1. DbSound' /\ stored' = stored
    BY <1>0, <1>8, DbKept DEF ApplyConflict, dbVars
  <2>2. stored # {}
    BY <1>8 DEF ApplyConflict, BlockConflict
  <2>3. CASE Exit("diverged")
    BY <2>1, <2>3, ExitSound
  <2>4. CASE view' = best /\ UNCHANGED <<chainVars, procVars, prev, tree, boundary, histVars, pub>>
    BY <2>1, <2>2, <2>4 DEF SyncInv
  <2> QED BY <1>8, <2>3, <2>4 DEF ApplyConflict
<1>9. CASE Relocate
  <2>1. DbSound' /\ stored' = stored
    BY <1>0, <1>9, DbKept DEF Relocate, dbVars
  <2>2. stored # {}
    BY <1>9 DEF Relocate, SyncInv
  <2>3. CASE \E w : Exit(w)
    BY <2>1, <2>3, ExitSound
  <2>4. CASE UNCHANGED <<chainVars, procVars, view, prev, tree, boundary, histVars, pub>>
    BY <2>1, <2>2, <2>4 DEF SyncInv
  <2> QED BY <1>9, <2>3, <2>4 DEF Relocate
<1>10. CASE RecoverTree
  <2> DEFINE t == Target(tree, Len(prev), Birthday)
  <2>1. stored # {}
    <3>1. bad # {} \/ \E s \in stored : TRUE
      BY <1>10 DEF RecoverTree, TreeMayConflict
    <3> QED BY <1>0, <3>1, HeightsBounded DEF DbSound
  <2>2. \/ UNCHANGED dbVars /\ Exit("tree")
        \/ TruncateTo(Landing(t)) /\ Exit("tree")
        \/ /\ TruncateTo(Landing(t)) /\ prev' = ResumePoint(Landing(t), t) /\ pc' = "mark-retry"
           /\ UNCHANGED <<chainVars, procVars, view, fork, boundary, histVars, pub>>
    BY <1>10 DEF RecoverTree
  <2> HIDE DEF t
  <2>3. CASE UNCHANGED dbVars /\ Exit("tree")
    BY <1>0, <2>3, DbKept, ExitSound
  <2>4. CASE TruncateTo(Landing(t)) /\ Exit("tree")
    BY <1>0, <2>1, <2>4, TruncateSound, ExitSound
  <2>5. CASE /\ TruncateTo(Landing(t)) /\ prev' = ResumePoint(Landing(t), t) /\ pc' = "mark-retry"
             /\ UNCHANGED <<chainVars, procVars, view, fork, boundary, histVars, pub>>
    <3>1. DbSound' /\ prev' \in Block
      BY <1>0, <2>1, <2>5, TruncateSound
    <3> QED BY <2>5, <3>1 DEF SyncInv
  <2> QED BY <2>2, <2>3, <2>4, <2>5
<1> QED BY <1>1, <1>2, <1>3, <1>4, <1>5, <1>6, <1>7, <1>8, <1>9, <1>10 DEF SteadyState

\* recover_history.
LEMMA HistorySound ==
  ASSUME SyncInv, RecoverHistory
  PROVE  SyncInv'
<1>0. DbSound /\ Len(hview) \in Nat /\ batchEnd \in Nat
  <2>1. batchEnd \in Nat
    BY Numbers DEF SyncInv, batchEnd, MinOf
  <2> QED BY <2>1 DEF SyncInv, Block
<1>1. CASE HistChoose
  <2>1. DbSound' /\ stored' = stored
    BY <1>0, <1>1, DbKept DEF HistChoose, dbVars
  <2>2. PICK r \in Runs(Suggested(SatSub(boundary, 1))) : hlo' = r[1] /\ hend' = r[2]
    BY <1>1 DEF HistChoose
  <2>3. SatSub(boundary, 1) \in Nat /\ Birthday \in Nat
    BY Numbers DEF SyncInv, SatSub
  <2>4. hlo' \in Nat /\ hend' \in Nat /\ hlo' >= 1
    <3>1. Suggested(SatSub(boundary, 1)) \in SUBSET Unscanned(Birthday, SatSub(boundary, 1))
      BY DEF Suggested
    <3> QED BY <2>2, <2>3, <3>1, RunsWithin
  <2> QED BY <1>1, <2>1, <2>4 DEF HistChoose, SyncInv
<1>2. CASE HistPin
  <2>1. DbSound' /\ stored' = stored
    BY <1>0, <1>2, DbKept DEF HistPin, dbVars
  <2> QED BY <1>2, <2>1 DEF HistPin, SyncInv
<1>3. CASE HistScan
  <2>1. hlo \in Nat /\ hlo >= 1
    BY <1>3 DEF HistScan, SyncInv
  <2>2. UNCHANGED <<best, view, prev, pc, boundary, hview, hlo, hend>>
    BY <1>3 DEF HistScan
  <2>3. \/ UNCHANGED dbVars
        \/ \E end \in StreamEnds(hview, hlo, MinOf(Clamp(batchEnd), Len(hview))) :
              PutBlocks(Blocks(hview, hlo, end))
    BY <1>3 DEF HistScan
  <2>4. DbSound' /\ (stored # {} => stored' # {})
    <3>1. CASE UNCHANGED dbVars
      BY <1>0, <3>1, DbKept DEF dbVars
    <3>2. CASE \E end \in StreamEnds(hview, hlo, MinOf(Clamp(batchEnd), Len(hview))) :
                 PutBlocks(Blocks(hview, hlo, end))
      <4> DEFINE hi == MinOf(Clamp(batchEnd), Len(hview))
      <4>1. PICK end \in StreamEnds(hview, hlo, hi) : PutBlocks(Blocks(hview, hlo, end))
        BY <3>2
      <4>2. hi \in Nat /\ hi <= Clamp(batchEnd) /\ hi <= Len(hview)
        BY <1>0, Numbers DEF Clamp, SatSub, MinOf
      <4> HIDE DEF hi
      <4>3. /\ Blocks(hview, hlo, end) \in SUBSET Block
            /\ \A b \in Blocks(hview, hlo, end) : Len(b) < ShutdownHeight
        BY <1>0, <2>1, <4>1, <4>2, ScannedBelow DEF SyncInv
      <4> QED BY <1>0, <4>1, <4>3, PutSound
    <3> QED BY <2>3, <3>1, <3>2
  <2> QED BY <2>1, <2>2, <2>4 DEF SyncInv
<1>4. CASE HistTreeConflict
  <2>1. DbSound' /\ stored' = stored
    BY <1>0, <1>4, DbKept DEF HistTreeConflict, dbVars
  <2>2. CASE Exit("tree")
    BY <2>1, <2>2, ExitSound
  <2>3. CASE hpc' = "pin"
             /\ UNCHANGED <<chainVars, procVars, steadyVars, boundary, hview, hlo, hend, hfs, pub>>
    BY <1>4, <2>1, <2>3 DEF HistTreeConflict, SyncInv
  <2> QED BY <1>4, <2>2, <2>3 DEF HistTreeConflict
<1>5. CASE HistFails
  <2>1. DbSound'
    BY <1>0, <1>5, DbKept DEF HistFails
  <2>2. \E w : Exit(w)
    BY <1>5 DEF HistFails
  <2> QED BY <2>1, <2>2, ExitSound
<1>6. CASE HistRead
  <2>1. DbSound' /\ stored' = stored
    BY <1>0, <1>6, DbKept DEF HistRead, dbVars
  <2> QED BY <1>6, <2>1 DEF HistRead, SyncInv
<1>7. CASE HistWrite
  <2>1. DbSound' /\ stored' = stored
    BY <1>0, <1>7, DbKept DEF HistWrite, dbVars
  <2>2. UNCHANGED <<best, view, prev, pc, boundary, hview>>
    BY <1>7 DEF HistWrite
  <2>3. \/ hlo' = batchEnd + 1 /\ hend' = hend
        \/ hpc' = "choose" /\ hlo' = 0 /\ hend' = 0
    BY <1>7 DEF HistWrite
  <2> QED BY <1>0, <2>1, <2>2, <2>3 DEF SyncInv
<1> QED BY <1>1, <1>2, <1>3, <1>4, <1>5, <1>6, <1>7 DEF RecoverHistory
-----------------------------------------------------------------------------
\* SyncInv holds at the start and is kept by every step of every task.
LEMMA SyncInductive ==
  /\ SetFacts /\ Init => SyncInv
  /\ SyncInv /\ [Next]_vars => SyncInv'
<1>1. ASSUME SetFacts, Init PROVE SyncInv
  <2>1. Genesis \in Block /\ Chain0 \in Block
    BY Numbers DEF Genesis, Block
  <2>2. DbSound
    BY <1>1 DEF Init, DbSound, ShutdownRespected
  <2> QED BY <1>1, <2>1, <2>2 DEF Init, SyncInv
<1>2. ASSUME SyncInv, [Next]_vars PROVE SyncInv'
  <2>1. CASE UNCHANGED vars
    <3>1. DbSound' /\ stored' = stored
      BY <1>2, <2>1, DbKept DEF vars, SyncInv, dbVars
    <3> QED BY <1>2, <2>1, <3>1 DEF vars, SyncInv
  <2>2. CASE Next
    BY <1>2, <2>2, OutsideSound, InitializeSound, SteadySound, HistorySound DEF Next
  <2> QED BY <1>2, <2>1, <2>2
<1> QED BY <1>1, <1>2
-----------------------------------------------------------------------------
\* A block is on a chain when it agrees with it, step by step, up to its height.
LEMMA AncSteps ==
  ASSUME NEW a \in Block, NEW b \in Block
  PROVE  /\ Len(a) \in Nat /\ Len(b) \in Nat
         /\ IsAnc(a, b) <=> Len(a) <= Len(b) /\ \A i \in 1..Len(a) : a[i] = b[i]
<1>1. Len(a) \in Nat /\ Len(b) \in Nat
  BY DEF Block
<1>2. ASSUME Len(a) <= Len(b)
      PROVE  a = SubSeq(b, 1, Len(a)) <=> \A i \in 1..Len(a) : a[i] = b[i]
  <2> DEFINE c == SubSeq(b, 1, Len(a))
  <2>1. c \in Seq(Branches) /\ Len(c) = Len(a) /\ \A i \in 1..Len(a) : c[i] = b[i]
    BY <1>1, <1>2 DEF Block
  <2> HIDE DEF c
  <2>2. (\A i \in 1..Len(a) : a[i] = c[i]) => a = c
    BY <2>1 DEF Block
  <2> QED BY <2>1, <2>2 DEF c
<1> QED BY <1>1, <1>2 DEF IsAnc

\* Every block is on its own chain, and the genesis block is on every chain.
LEMMA AncReflexive ==
  ASSUME NEW a \in Block
  PROVE  IsAnc(a, a) /\ IsAnc(Genesis, a) /\ Genesis \in Block
<1>1. Genesis \in Block /\ Len(Genesis) = 0
  BY DEF Genesis, Block
<1> QED BY <1>1, AncSteps

\* A chain holds the chains of its blocks.
LEMMA AncTransitive ==
  ASSUME NEW a \in Block, NEW b \in Block, NEW c \in Block, IsAnc(a, b), IsAnc(b, c)
  PROVE  IsAnc(a, c)
BY AncSteps

\* Two blocks of one chain are on the chain of the higher one.
LEMMA AncOrdered ==
  ASSUME NEW a \in Block, NEW b \in Block, NEW c \in Block,
         IsAnc(a, c), IsAnc(b, c), Len(a) <= Len(b)
  PROVE  IsAnc(a, b)
BY AncSteps

\* A chain has one block at each height.
LEMMA AncSameHeight ==
  ASSUME NEW a \in Block, NEW b \in Block, IsAnc(a, b), Len(a) = Len(b)
  PROVE  a = b
BY AncSteps DEF Block

\* The block at height h of a chain is on it.
LEMMA AncAt ==
  ASSUME NEW b \in Block, NEW h \in Nat, h <= Len(b)
  PROVE  Anc(b, h) \in Block /\ Len(Anc(b, h)) = h /\ IsAnc(Anc(b, h), b)
<1>1. Anc(b, h) \in Block /\ Len(Anc(b, h)) = h /\ Len(b) \in Nat
  BY AncLength
<1> QED BY <1>1 DEF IsAnc, Anc

\* Chains that share a block share all below it.
LEMMA AncShared ==
  ASSUME NEW a \in Block, NEW b \in Block, NEW h \in Nat, h <= Len(a), IsAnc(a, b)
  PROVE  Anc(a, h) = Anc(b, h)
<1>1. Len(a) \in Nat /\ Len(b) \in Nat /\ Len(a) <= Len(b)
  BY AncSteps
<1>2. /\ Anc(a, h) \in Block /\ Len(Anc(a, h)) = h /\ IsAnc(Anc(a, h), a)
      /\ Anc(b, h) \in Block /\ Len(Anc(b, h)) = h /\ IsAnc(Anc(b, h), b)
  BY <1>1, AncAt
<1>3. IsAnc(Anc(a, h), b)
  BY <1>2, AncTransitive
<1>4. IsAnc(Anc(a, h), Anc(b, h))
  BY <1>2, <1>3, AncOrdered
<1> QED BY <1>2, <1>4, AncSameHeight

\* Comparable blocks: the lower one is on the chain of the higher one, and
\* what is below one of them is comparable with the other.
LEMMA ComparableLower ==
  ASSUME NEW a \in Block, NEW b \in Block, Comparable(a, b), Len(a) <= Len(b)
  PROVE  IsAnc(a, b)
<1>1. Len(a) \in Nat /\ Len(b) \in Nat
  BY AncSteps
<1>2. CASE IsAnc(b, a)
  <2>1. Len(b) <= Len(a)
    BY <1>2 DEF IsAnc
  <2>2. b = a
    BY <1>1, <1>2, <2>1, AncSameHeight
  <2> QED BY <2>2, AncReflexive
<1> QED BY <1>2 DEF Comparable

\* What is below a block of one chain is of the same chain.
LEMMA ComparableBelow ==
  ASSUME NEW a \in Block, NEW b \in Block, NEW c \in Block, Comparable(a, b), IsAnc(c, a)
  PROVE  Comparable(c, b) /\ Comparable(b, c)
<1>1. Len(a) \in Nat /\ Len(b) \in Nat /\ Len(c) \in Nat
  BY AncSteps
<1>2. CASE IsAnc(a, b)
  BY <1>2, AncTransitive DEF Comparable
<1>3. CASE IsAnc(b, a)
  <2>1. Len(b) <= Len(c) => IsAnc(b, c)
    BY <1>3, AncOrdered
  <2>2. Len(c) <= Len(b) => IsAnc(c, b)
    BY <1>3, AncOrdered
  <2> QED BY <1>1, <2>1, <2>2 DEF Comparable
<1> QED BY <1>2, <1>3 DEF Comparable
-----------------------------------------------------------------------------
\* Of blocks up to some height, one is the highest.
LEMMA HighestFound ==
  ASSUME SetFacts, NEW S \in SUBSET Block, S # {}, NEW B \in Nat, \A b \in S : Len(b) <= B
  PROVE  Highest(S) \in S /\ \A c \in S : Len(c) <= Len(Highest(S))
<1> DEFINE H == {Len(b) : b \in S}
<1>1. H \in SUBSET Nat /\ \A h \in H : h <= B
  BY DEF Block
<1>2. H # {}
  OBVIOUS
<1>3. PICK m \in H : \A d \in H : d <= m
  <2> HIDE DEF H
  <2> QED BY <1>1, <1>2, Uppermost
<1>4. \E b \in S : \A c \in S : Len(c) <= Len(b)
  BY <1>3
<1> QED BY <1>4 DEF Highest

\* Where two chains part is on both.
LEMMA CommonAncOnBoth ==
  ASSUME SetFacts, NEW a \in Block, NEW b \in Block
  PROVE  /\ CommonAnc(a, b) \in Block
         /\ IsAnc(CommonAnc(a, b), a) /\ IsAnc(CommonAnc(a, b), b)
<1> DEFINE S == {c \in {Anc(a, h) : h \in 0..Len(a)} : IsAnc(c, b)}
<1>1. Len(a) \in Nat
  BY AncSteps
<1>2. \A c \in S : c \in Block /\ Len(c) <= Len(a) /\ IsAnc(c, a) /\ IsAnc(c, b)
  BY <1>1, AncAt
<1>3. S # {}
  <2>1. Anc(a, 0) = Genesis
    BY DEF Anc, Genesis, Block
  <2>2. Anc(a, 0) \in S
    BY <1>1, <2>1, AncReflexive
  <2> QED BY <2>2
<1>4. CommonAnc(a, b) = Highest(S)
  BY DEF CommonAnc
<1> HIDE DEF S
<1>5. S \in SUBSET Block /\ \A c \in S : Len(c) <= Len(a)
  BY <1>2
<1>6. Highest(S) \in S
  BY <1>1, <1>3, <1>5, HighestFound
<1> QED BY <1>2, <1>4, <1>6

\* A pinned search from a stored block: the fork point is on the view's chain
\* and on the wallet's, and below the block searched from unless it is that
\* block.
LEMMA ForkFound ==
  ASSUME SetFacts, PinnedSearch = TRUE,
         NEW S \in SUBSET Block, \A a, b \in S : Comparable(a, b),
         NEW p \in S, NEW v \in Block, NEW live,
         NEW f \in LocateForkPoint(S, p, v, live), f # NoBlock
  PROVE  /\ f \in Block /\ IsAnc(f, v)
         /\ f = p \/ Len(f) < Len(p)
         /\ \A s \in S : Comparable(s, f)
<1> DEFINE loc == Locator(S, Len(p))
           on == {b \in loc : IsAnc(b, v)}
<1>1. Len(p) \in Nat /\ Len(v) \in Nat
  BY AncSteps
<1>2. \A e \in loc : e \in S /\ Len(e) \in Nat /\ Len(e) <= Len(p)
  BY <1>1 DEF Locator, LocatorHeights, Block
<1>3. p \in loc
  <2>1. SatSub(Len(p), MaxLocatorDepth) \in Nat /\ SatSub(Len(p), MaxLocatorDepth) <= Len(p)
    BY <1>1, ForkPointAssumption DEF SatSub
  <2>2. Len(p) \in LocatorHeights(Len(p))
    BY <1>1, <2>1 DEF LocatorHeights
  <2> QED BY <2>2 DEF Locator
<1>4. PICK g \in FindForkPoint(loc, v, live) :
        f = IF g = NoBlock THEN StepBack(S, v, Len(p)) ELSE g
  BY <1>3 DEF LocateForkPoint
<1>5. (\E e \in loc : g = CommonAnc(e, v)) \/ (g = NoBlock /\ on = {})
  BY <1>4 DEF FindForkPoint
<1> HIDE DEF loc
<1>6. CASE \E e \in loc : g = CommonAnc(e, v)
  <2>1. PICK e \in loc : g = CommonAnc(e, v)
    BY <1>6
  <2>2. e \in S /\ e \in Block /\ Len(e) \in Nat /\ Len(e) <= Len(p)
    BY <1>2
  <2>3. g \in Block /\ IsAnc(g, e) /\ IsAnc(g, v)
    BY <2>1, <2>2, CommonAncOnBoth
  <2>4. f = g
    BY <1>4, <2>3, Numbers
  <2>5. f = p \/ Len(f) < Len(p)
    <3>1. Len(f) \in Nat /\ Len(f) <= Len(e)
      BY <2>2, <2>3, <2>4, AncSteps
    <3>2. ASSUME Len(f) = Len(p) PROVE f = p
      <4>1. Len(e) = Len(p) /\ Len(f) = Len(e)
        BY <1>1, <2>2, <3>1, <3>2
      <4>2. f = e
        BY <2>2, <2>3, <2>4, <4>1, AncSameHeight
      <4>3. IsAnc(e, p)
        BY <2>2, <4>1, ComparableLower
      <4>4. e = p
        BY <2>2, <4>1, <4>3, AncSameHeight
      <4> QED BY <4>2, <4>4
    <3> QED BY <1>1, <2>2, <3>1, <3>2
  <2>6. \A s \in S : Comparable(s, f)
    BY <2>2, <2>3, <2>4, ComparableBelow
  <2> QED BY <2>3, <2>4, <2>5, <2>6
<1>7. CASE g = NoBlock /\ on = {}
  <2> DEFINE found == {b \in S : Len(b) \in ProbeHeights(Len(p)) /\ IsAnc(b, v)}
  <2>1. found # {} /\ f = Highest(found)
    BY <1>4, <1>7 DEF StepBack
  <2>2. \A b \in found : b \in S /\ IsAnc(b, v) /\ Len(b) <= Len(v)
    BY DEF IsAnc
  <2> HIDE DEF found
  <2>3. f \in found
    BY <1>1, <2>1, <2>2, HighestFound
  <2>4. f \in S /\ f \in Block /\ IsAnc(f, v) /\ Len(f) \in Nat
    BY <2>2, <2>3, AncSteps
  <2>5. ~IsAnc(p, v)
    BY <1>3, <1>7
  <2>6. Len(f) < Len(p)
    <3>1. ASSUME Len(p) <= Len(f) PROVE FALSE
      <4>1. IsAnc(p, f)
        BY <2>4, <3>1, ComparableLower
      <4> QED BY <2>4, <2>5, <4>1, AncTransitive
    <3> QED BY <1>1, <2>4, <3>1
  <2> QED BY <2>4, <2>6
<1> QED BY <1>5, <1>6, <1>7
-----------------------------------------------------------------------------
(***************************************************************************)
(* The setting of the theorems below: pinned views; no reorg or rollback   *)
(* while steady_state is not running; neither update_boundary's depth nor  *)
(* the checkpoints kept fall short of the depth of reorgs; no divergence   *)
(* height in reach; and a birthday that is final when the wallet first     *)
(* starts.                                                                 *)
(***************************************************************************)
Regular ==
  /\ PinnedSearch = TRUE /\ OfflineReorgs = FALSE
  /\ ReorgDepth <= BoundaryDepth /\ ReorgDepth < CheckpointDepth
  /\ MaxHeight < ShutdownHeight
  /\ Birthday + ReorgDepth <= Len(Chain0) /\ Len(Chain0) <= MaxHeight

\* steady_state is working on a view.
Active == proc = "run" /\ pc # "pin"

\* The chain can only change above the final height, which lies on it.
ChainSound ==
  /\ top \in Nat /\ top <= MaxHeight /\ Len(best) <= top
  /\ Final \in Nat /\ Final <= Len(best) /\ Birthday <= Final

\* Once a block has been on the best chain, all but its last ReorgDepth
\* ancestors stay on it.
Rooted(x) == Len(x) <= top /\ IsAnc(Anc(x, SatSub(Len(x), ReorgDepth)), best)

\* Height g is out of every reorg's reach, and the wallet knows no block, nor
\* works on a view, that disagrees with the best chain there.
Settled(g) ==
  /\ g \in Nat /\ g <= Final
  /\ \A x \in stored : Comparable(Anc(best, g), x)
  /\ Active => IsAnc(Anc(best, g), view)

\* Height h was left out below a stored block.
Gap(h) == h \in Nat /\ h \notin Heights(stored) /\ \E s \in stored : h < Len(s)

\* The database: its blocks are of one chain; only settled heights are missing
\* below the highest; and a rewind can always reach a settled height, since
\* retention prunes no more than it may.
WalletSound ==
  /\ OneChain
  /\ \A x \in stored : Rooted(x)
  /\ \A h : Gap(h) => Settled(h)
  /\ ckpt \subseteq Retained(ckpt)
  /\ stored # {} => \E c \in ckpt : Settled(c)

\* Where the process is: while steady_state is not running the best chain grows
\* on top of the view and of what is stored; when it is, it stands on a stored
\* block; and the database was told of no height beyond them.
PlaceSound ==
  /\ Rooted(view)
  /\ proc \in {"init", "run", "down"}
  /\ proc = "down" => pc = "off" /\ view = Genesis
  /\ proc = "init" => /\ pc \in {"pin", "scan"} /\ IsAnc(view, best)
                      /\ \A s \in stored : Comparable(s, best)
  /\ proc = "run" => pc \notin {"off", "scan"} /\ prev \in stored
  /\ pc = "scan" => /\ Birthday <= Len(view) /\ boundary <= Len(view) /\ boundary <= Final
                    /\ told <= Len(view) \/ \E s \in stored : told <= Len(s)
  /\ told \in Nat
  /\ (proc # "run" /\ told <= Len(best)) \/ \E s \in stored : told <= Len(s)

\* recover_history only ever holds settled heights, and a view that has them.
HistSettled ==
  hpc \in {"pin", "scan", "publish", "write"} =>
    /\ proc = "run" /\ Settled(hend)
    /\ hpc = "scan" => IsAnc(Anc(best, hend), hview)

\* A round of steady_state: blocks go on top of the view's chain, a rewind is
\* to a block of the view and of the wallet, and the tip is reached.
RoundInv ==
  /\ why # "panic"
  /\ pc \in {"apply", "mark"} => IsAnc(prev, view)
  /\ pc = "rewind" => fork \in Block /\ IsAnc(fork, view) /\ \A s \in stored : Comparable(s, fork)
  /\ pc = "relocate" => fork \in stored
  /\ pc = "rewind-retry" => fork \in Block
  /\ pc \in {"caught", "mempool"} => prev = view

\* The inductive invariant.
ChainInv == SyncInv /\ ChainSound /\ WalletSound /\ PlaceSound /\ HistSettled /\ RoundInv

\* What SyncInv says of the variables the lemmas below read.
LEMMA Shapes ==
  ASSUME SyncInv
  PROVE  /\ SetFacts
         /\ best \in Block /\ view \in Block /\ prev \in Block /\ hview \in Block
         /\ Len(best) \in Nat /\ Len(view) \in Nat /\ Len(prev) \in Nat /\ Len(hview) \in Nat
         /\ stored \in SUBSET Block
         /\ \A s \in stored : Len(s) \in Nat /\ Len(s) \in Heights(stored) /\ Len(s) < ShutdownHeight
         /\ \A h \in Heights(stored) : h \in Nat /\ \E s \in stored : Len(s) = h
         /\ ckpt \subseteq Heights(stored)
         /\ boundary \in Nat /\ hlo \in Nat /\ hend \in Nat
<1>1. DbSound
  BY DEF SyncInv
<1> QED BY <1>1, HeightsBounded DEF SyncInv, DbSound, Block

\* What is settled is settled all the way down.
LEMMA SettledBelow ==
  ASSUME SyncInv, ChainSound, NEW g, Settled(g), NEW h \in Nat, h <= g
  PROVE  Settled(h)
<1>1. g \in Nat /\ g <= Final /\ Final \in Nat /\ Final <= Len(best)
  BY DEF Settled, ChainSound
<1>2. /\ best \in Block /\ Len(best) \in Nat /\ view \in Block /\ stored \in SUBSET Block
      /\ h <= Final /\ g <= Len(best) /\ h <= Len(best)
  BY <1>1, Shapes
<1>3. /\ Anc(best, g) \in Block /\ Len(Anc(best, g)) = g /\ IsAnc(Anc(best, g), best)
      /\ Anc(best, h) \in Block /\ Len(Anc(best, h)) = h /\ IsAnc(Anc(best, h), best)
  BY <1>1, <1>2, AncAt
<1>4. IsAnc(Anc(best, h), Anc(best, g))
  BY <1>2, <1>3, AncOrdered
<1>5. ASSUME NEW x \in stored PROVE Comparable(Anc(best, h), x)
  <2>1. Comparable(Anc(best, g), x)
    BY DEF Settled
  <2> QED BY <1>2, <1>3, <1>4, <2>1, ComparableBelow
<1>6. ASSUME Active PROVE IsAnc(Anc(best, h), view)
  <2>1. IsAnc(Anc(best, g), view)
    BY <1>6 DEF Settled
  <2> QED BY <1>2, <1>3, <1>4, <2>1, AncTransitive
<1> QED BY <1>2, <1>5, <1>6 DEF Settled

USE DEF chainVars, procVars, dbVars, steadyVars, histVars

\* The chains the node can move to are blocks within the height bound.
LEMMA ChainsBounded ==
  ASSUME NEW b \in Chains
  PROVE  b \in Block /\ Len(b) \in Nat /\ Len(b) <= MaxHeight
<1>1. PICK h \in 0..MaxHeight : b \in [1..h -> Branches]
  BY DEF Chains
<1>2. h \in Nat /\ b \in Seq(Branches)
  BY <1>1, Numbers
<1>3. Len(b) = h
  BY <1>1, <1>2
<1> QED BY <1>1, <1>2, <1>3, Numbers DEF Block

\* A chain move leaves the chain alone up to the final height, which does not
\* come down; so what is rooted or settled stays so.
LEMMA MoveKeeps ==
  ASSUME SyncInv, ChainSound, ChainMoves
  PROVE  /\ ChainSound' /\ Final <= Final'
         /\ \A x \in Block : Rooted(x) => Rooted(x)'
         /\ \A g : Settled(g) => Settled(g)' /\ Anc(best', g) = Anc(best, g)
         /\ best' \in Block
<1>1. PICK b \in Chains : /\ IsAnc(Anc(best, Final), b)
                          /\ best' = b /\ top' = MaxOf(top, Len(b))
  BY DEF ChainMoves
<1>2. b \in Block /\ Len(b) \in Nat /\ Len(b) <= MaxHeight
  BY ChainsBounded
<1>3. /\ best \in Block /\ Len(best) \in Nat /\ Final \in Nat /\ Final <= Len(best)
      /\ top \in Nat /\ top <= MaxHeight /\ Len(best) <= top /\ Birthday <= Final
      /\ ReorgDepth \in Nat /\ Birthday \in Nat
  BY Shapes, Numbers DEF ChainSound
<1>4. Anc(best, Final) \in Block /\ Len(Anc(best, Final)) = Final /\ IsAnc(Anc(best, Final), best)
  BY <1>3, AncAt
<1>5. Final <= Len(b)
  BY <1>1, <1>2, <1>4, AncSteps
<1>6. ASSUME NEW g \in Nat, g <= Final
      PROVE  Anc(best', g) = Anc(best, g)
  BY <1>1, <1>2, <1>3, <1>4, <1>6, AncShared
<1>7. /\ top' \in Nat /\ top' <= MaxHeight /\ Len(b) <= top' /\ top <= top'
      /\ Final' \in Nat /\ Final' <= Len(b) /\ Final <= Final'
  BY <1>1, <1>2, <1>3, <1>5 DEF Final, SatSub, MaxOf
<1>8. ChainSound'
  BY <1>1, <1>2, <1>3, <1>7 DEF ChainSound
<1>9. ASSUME NEW x \in Block, Rooted(x) PROVE Rooted(x)'
  <2> DEFINE k == SatSub(Len(x), ReorgDepth)
  <2>1. Len(x) \in Nat /\ Len(x) <= top /\ IsAnc(Anc(x, k), best)
    BY <1>9, AncSteps DEF Rooted
  <2>2. k \in Nat /\ k <= Len(x) /\ k <= Final
    BY <1>3, <2>1 DEF SatSub, Final
  <2> HIDE DEF k
  <2>3. Anc(x, k) \in Block /\ Len(Anc(x, k)) = k
    BY <2>2, AncAt
  <2>4. Anc(x, k) = Anc(best, k)
    BY <2>1, <2>3 DEF IsAnc, Anc
  <2>5. Anc(x, k) = Anc(b, k)
    BY <1>1, <1>6, <2>2, <2>4
  <2>6. IsAnc(Anc(x, k), b)
    BY <1>2, <1>5, <2>2, <2>5, <1>3, AncAt
  <2> QED BY <1>1, <1>3, <1>7, <2>1, <2>6 DEF Rooted, k
<1>10. ASSUME NEW g, Settled(g) PROVE Settled(g)' /\ Anc(best', g) = Anc(best, g)
  <2>1. g \in Nat /\ g <= Final
    BY <1>10 DEF Settled
  <2>2. Anc(best', g) = Anc(best, g)
    BY <1>6, <2>1
  <2>3. UNCHANGED <<stored, proc, pc, view>>
    BY DEF ChainMoves
  <2>4. g <= Final'
    BY <1>3, <1>7, <2>1
  <2> QED BY <1>10, <2>1, <2>2, <2>3, <2>4 DEF Settled, Active
<1> QED BY <1>1, <1>2, <1>7, <1>8, <1>9, <1>10

\* The chain moving, by growth or by a reorg of at most ReorgDepth blocks,
\* keeps the invariant.
LEMMA MoveSound ==
  ASSUME Regular, ChainInv, SyncInv', ChainMoves
  PROVE  ChainInv'
<1>1. /\ ChainSound' /\ Final <= Final'
      /\ \A x \in Block : Rooted(x) => Rooted(x)'
      /\ \A g : Settled(g) => Settled(g)' /\ Anc(best', g) = Anc(best, g)
      /\ best' \in Block
  BY MoveKeeps DEF ChainInv
<1>2. UNCHANGED <<proc, why, stored, ckpt, told, pc, view, prev, fork, boundary, hpc, hview, hend>>
  BY DEF ChainMoves
<1>3. best \in Block /\ view \in Block /\ stored \in SUBSET Block
      /\ Len(best) \in Nat /\ Len(best') \in Nat
  BY <1>1, Shapes, AncSteps DEF ChainInv
<1>4. WalletSound'
  <2>1. OneChain' /\ \A x \in stored' : Rooted(x)'
    BY <1>1, <1>2, <1>3 DEF ChainInv, WalletSound, OneChain
  <2>2. \A h : Gap(h)' => Gap(h)
    BY <1>2 DEF Gap, Heights
  <2>3. ckpt' \subseteq Retained(ckpt')
    BY <1>2 DEF ChainInv, WalletSound
  <2> QED BY <1>1, <1>2, <2>1, <2>2, <2>3 DEF ChainInv, WalletSound
<1>5. ASSUME proc # "run" PROVE IsAnc(best, best') /\ \A s \in stored : Comparable(s, best')
  BY <1>5 DEF ChainMoves, Regular
<1>6. PlaceSound'
  <2>1. Rooted(view)'
    BY <1>1, <1>2, <1>3 DEF ChainInv, PlaceSound
  <2>2. proc = "init" => IsAnc(view, best')
    BY <1>1, <1>3, <1>5, AncTransitive DEF ChainInv, PlaceSound
  <2>3. proc # "run" /\ told <= Len(best) => told <= Len(best')
    <3>1. proc # "run" => Len(best) <= Len(best')
      BY <1>5 DEF IsAnc
    <3>2. told \in Nat
      BY DEF ChainInv, PlaceSound
    <3> QED BY <1>3, <3>1, <3>2
  <2>4. pc = "scan" => boundary <= Final'
    <3>1. Final \in Nat /\ Final' \in Nat /\ boundary \in Nat
      BY <1>1, Shapes DEF ChainInv, ChainSound
    <3>2. pc = "scan" => boundary <= Final
      BY DEF ChainInv, PlaceSound
    <3> QED BY <1>1, <3>1, <3>2
  <2> QED BY <1>2, <1>5, <2>1, <2>2, <2>3, <2>4 DEF ChainInv, PlaceSound
<1>7. HistSettled'
  BY <1>1, <1>2 DEF ChainInv, HistSettled
<1>8. RoundInv'
  BY <1>2 DEF ChainInv, RoundInv
<1> QED BY <1>1, <1>4, <1>6, <1>7, <1>8 DEF ChainInv
-----------------------------------------------------------------------------
\* Sets of heights that are bounded are finite, and subsets have no more
\* elements.
LEMMA FewHeights ==
  ASSUME SetFacts, NEW B \in Nat, NEW C \in SUBSET Nat, \A c \in C : c <= B, NEW A \in SUBSET C
  PROVE  /\ IsFiniteSet(C) /\ Cardinality(C) \in Nat
         /\ IsFiniteSet(A) /\ Cardinality(A) \in Nat /\ Cardinality(A) <= Cardinality(C)
<1>1. C \in SUBSET (0..B)
  OBVIOUS
<1> QED BY <1>1, Zenon DEF SetFacts

\* A step that leaves the chain and the database alone, and steady_state with
\* the view it had or one of the best chain, leaves what is settled settled.
LEMMA QuietKeeps ==
  ASSUME SyncInv, ChainSound, WalletSound, UNCHANGED <<best, top, stored, ckpt>>,
         Active' => (Active /\ view' = view) \/ view' = best
  PROVE  ChainSound' /\ WalletSound' /\ \A g : Settled(g) => Settled(g)'
<1>1. Final' = Final
  BY DEF Final
<1>2. ASSUME NEW g, Settled(g) PROVE Settled(g)'
  <2>1. g \in Nat /\ g <= Final /\ Final \in Nat /\ Final <= Len(best)
        /\ best \in Block /\ Len(best) \in Nat
    BY <1>2, Shapes DEF Settled, ChainSound
  <2>2. IsAnc(Anc(best, g), best)
    BY <2>1, AncAt
  <2> QED BY <1>1, <1>2, <2>2 DEF Settled
<1>3. ChainSound'
  BY <1>1 DEF ChainSound
<1>4. OneChain' /\ \A x \in stored' : Rooted(x)'
  BY DEF WalletSound, OneChain, Rooted
<1>5. \A h : Gap(h)' => Gap(h)
  BY DEF Gap, Heights
<1>6. ckpt' \subseteq Retained(ckpt')
  BY DEF WalletSound
<1> QED BY <1>2, <1>3, <1>4, <1>5, <1>6 DEF WalletSound

\* A task that ends without a failed assertion, the database being sound.
LEMMA ExitKeeps ==
  ASSUME ChainInv, SyncInv', WalletSound', NEW w, w # "panic", Exit(w),
         told' \in Nat, told' <= Len(best) \/ \E s \in stored' : told' <= Len(s)
  PROVE  ChainInv'
<1>1. UNCHANGED <<best, top>> /\ proc' = "down" /\ pc' = "off" /\ view' = Genesis
      /\ hpc' = "off" /\ why' = w
  BY DEF Exit
<1>2. ChainSound'
  BY <1>1 DEF ChainInv, ChainSound, Final
<1>3. Rooted(Genesis)'
  <2>1. Len(Genesis) = 0 /\ Genesis \in Block
    BY DEF Genesis, Block
  <2>2. SatSub(Len(Genesis), ReorgDepth) = 0
    BY <2>1, Numbers DEF SatSub
  <2>3. Anc(Genesis, 0) \in Block /\ Len(Anc(Genesis, 0)) = 0
    BY <2>1, AncAt
  <2>4. Anc(Genesis, 0) = Genesis
    BY <2>1, <2>3, AncAt, AncSameHeight
  <2>5. IsAnc(Genesis, best) /\ top \in Nat
    BY Shapes, AncReflexive DEF ChainInv, ChainSound
  <2> QED BY <1>1, <2>1, <2>2, <2>4, <2>5 DEF Rooted
<1>4. PlaceSound'
  BY <1>1, <1>3 DEF PlaceSound
<1>5. HistSettled' /\ RoundInv'
  BY <1>1 DEF HistSettled, RoundInv
<1> QED BY <1>2, <1>4, <1>5 DEF ChainInv

\* The same when the database is left alone.
LEMMA QuietExit ==
  ASSUME ChainInv, SyncInv', NEW w, w # "panic", Exit(w), UNCHANGED dbVars
  PROVE  ChainInv'
<1>1. UNCHANGED <<best, top, stored, ckpt, told>> /\ ~Active'
  BY DEF Exit, Active
<1>2. WalletSound'
  BY <1>1, QuietKeeps DEF ChainInv
<1>3. told' \in Nat /\ (told' <= Len(best) \/ \E s \in stored' : told' <= Len(s))
  BY <1>1 DEF ChainInv, PlaceSound
<1> QED BY <1>2, <1>3, ExitKeeps
-----------------------------------------------------------------------------
\* A rewind lands at or below its target, or on the lowest checkpoint.
LEMMA LandsLow ==
  ASSUME DbSound, stored # {}, NEW t \in Nat
  PROVE  Landing(t) \in ckpt /\ Landing(t) \in Nat
         /\ (Landing(t) <= t \/ \A d \in ckpt : Landing(t) <= d)
<1> DEFINE below == {c \in ckpt : c <= t}
<1>1. Landing(t) \in ckpt
  BY LandsOnCheckpoint
<1>2. SetFacts /\ ckpt \in SUBSET Nat /\ ckpt # {} /\ \A c \in ckpt : c <= ShutdownHeight
  BY HeightsBounded, Numbers DEF DbSound
<1>3. CASE below = {}
  <2>1. PICK lo \in ckpt : \A d \in ckpt : lo <= d
    BY <1>2, Lowest
  <2> QED BY <1>1, <1>2, <1>3, <2>1 DEF Landing
<1>4. CASE below # {}
  <2>1. below \in SUBSET Nat /\ \A c \in below : c <= ShutdownHeight
    BY <1>2
  <2>2. PICK hi \in below : \A d \in below : d <= hi
    <3> HIDE DEF below
    <3> QED BY <1>2, <1>4, <2>1, Numbers, Uppermost
  <2>3. Landing(t) \in below
    BY <1>4, <2>2 DEF Landing
  <2> QED BY <1>1, <1>2, <2>3
<1> QED BY <1>3, <1>4

\* A rewind leaves a sound database, what is settled settled, and the block it
\* lands on.
LEMMA TruncateKeeps ==
  ASSUME ChainInv, SyncInv', stored # {}, NEW t, TruncateTo(Landing(t)),
         UNCHANGED <<best, top>>, Active' => Active /\ view' = view
  PROVE  /\ WalletSound' /\ stored' \subseteq stored
         /\ \A g : Settled(g) => Settled(g)'
         /\ \A u : /\ ResumePoint(Landing(t), u) \in stored'
                   /\ Len(ResumePoint(Landing(t), u)) = Landing(t)
         /\ told' \in Nat /\ \E s \in stored' : told' <= Len(s)
<1> DEFINE L == Landing(t)
<1>0. SyncInv /\ ChainSound /\ WalletSound /\ PlaceSound /\ DbSound /\ SetFacts
  BY DEF ChainInv, SyncInv, DbSound
<1>1. L \in ckpt /\ L \in Nat
  <2>1. L \in ckpt
    BY <1>0, LandsOnCheckpoint
  <2> QED BY <1>0, <2>1, Shapes
<1>2. stored' = {b \in stored : Len(b) <= L} /\ ckpt' = {c \in ckpt : c <= L} /\ told' = MinOf(told, L)
  BY DEF TruncateTo
<1>3. \A u : ResumePoint(L, u) = BlockAt(stored, L)
  BY DEF ResumePoint
<1> HIDE DEF L
<1>4. PICK b \in stored : Len(b) = L
  BY <1>0, <1>1, Shapes
<1>5. BlockAt(stored, L) \in stored' /\ Len(BlockAt(stored, L)) = L
  <2>1. BlockAt(stored, L) \in stored /\ Len(BlockAt(stored, L)) = L
    BY <1>4 DEF BlockAt
  <2> QED BY <1>1, <1>2, <2>1
<1>6. ASSUME NEW g, Settled(g) PROVE Settled(g)'
  BY <1>2, <1>6 DEF Settled, Final
<1>7. OneChain' /\ \A x \in stored' : Rooted(x)'
  BY <1>0, <1>2 DEF WalletSound, OneChain, Rooted
<1>8. ASSUME NEW h, Gap(h)' PROVE Settled(h)'
  <2>1. PICK s \in stored' : h < Len(s)
    BY <1>8 DEF Gap
  <2>2. h \in Nat /\ Len(s) \in Nat /\ Len(s) <= L /\ s \in stored
    BY <1>0, <1>2, <1>8, <2>1, Shapes DEF Gap
  <2>3. h \notin Heights(stored)
    <3>1. ASSUME NEW x \in stored, Len(x) = h PROVE FALSE
      <4>1. x \in stored'
        BY <1>1, <1>2, <2>1, <2>2, <3>1
      <4> QED BY <1>8, <3>1, <4>1 DEF Gap, Heights
    <3> QED BY <3>1 DEF Heights
  <2>4. Gap(h)
    BY <1>8, <2>1, <2>2, <2>3 DEF Gap
  <2> QED BY <1>0, <1>6, <2>4 DEF WalletSound
<1>9. ckpt' \subseteq Retained(ckpt')
  <2>1. ASSUME NEW c \in ckpt' PROVE c \in Retained(ckpt')
    <3> DEFINE A == {d \in ckpt : d > c}
               A1 == {d \in ckpt' : d > c}
    <3>1. c \in ckpt /\ c \in Retained(ckpt) /\ ckpt' \subseteq ckpt
      BY <1>0, <1>2 DEF WalletSound
    <3>2. Cardinality(A) < CheckpointDepth \/ c % AnchorInterval = 0
      BY <3>1 DEF Retained
    <3>3. A \in SUBSET Nat /\ (\A d \in A : d <= ShutdownHeight) /\ A1 \in SUBSET A
      <4>1. ckpt \subseteq Nat /\ \A d \in ckpt : d < ShutdownHeight
        BY <1>0, HeightsBounded DEF DbSound
      <4>2. \A d \in ckpt : d \in Nat /\ d <= ShutdownHeight
        BY <4>1, Numbers
      <4>3. A1 \subseteq A
        BY <3>1
      <4>4. \A d \in A : d \in Nat /\ d <= ShutdownHeight
        BY <4>2
      <4> QED BY <4>3, <4>4
    <3> HIDE DEF A, A1
    <3>4. Cardinality(A1) \in Nat /\ Cardinality(A) \in Nat /\ Cardinality(A1) <= Cardinality(A)
      BY <1>0, <3>3, Numbers, FewHeights
    <3>5. Cardinality(A1) < CheckpointDepth \/ c % AnchorInterval = 0
      BY <3>2, <3>4, Numbers
    <3> QED BY <3>5 DEF Retained, A1
  <2> QED BY <2>1
<1>10. \E c \in ckpt' : Settled(c)'
  <2>1. PICK q \in ckpt : Settled(q)
    BY <1>0 DEF WalletSound
  <2>2. CASE q <= L
    BY <1>2, <1>6, <2>1, <2>2
  <2>3. CASE ~(q <= L)
    <3>1. q \in Nat /\ L <= q
      BY <1>1, <2>1, <2>3 DEF Settled
    <3>2. Settled(L)
      BY <1>0, <1>1, <2>1, <3>1, SettledBelow
    <3>3. L \in ckpt'
      BY <1>1, <1>2
    <3> QED BY <1>6, <3>2, <3>3
  <2> QED BY <2>2, <2>3
<1>11. WalletSound'
  BY <1>7, <1>8, <1>9, <1>10 DEF WalletSound
<1>12. told' \in Nat /\ told' <= L
  BY <1>0, <1>1, <1>2 DEF PlaceSound, MinOf
<1> QED BY <1>2, <1>3, <1>5, <1>6, <1>11, <1>12 DEF L
-----------------------------------------------------------------------------
\* Retention drops a checkpoint only for one that lags the highest by at least
\* the depth of reorgs.
LEMMA RetentionLag ==
  ASSUME SetFacts, ReorgDepth < CheckpointDepth,
         NEW B \in Nat, NEW C \in SUBSET Nat, \A c \in C : c <= B,
         NEW c0 \in C, c0 \notin Retained(C)
  PROVE  \E c1 \in Retained(C), m \in C :
           c0 < c1 /\ c1 + ReorgDepth <= m /\ \A d \in C : d <= m
<1> DEFINE A(c) == {d \in C : d > c}
           R == {c \in C : c > c0 /\ Cardinality(A(c)) < CheckpointDepth}
<1>0. /\ \A d \in C : d \in Nat /\ d <= B
      /\ \A c, d : d \in A(c) <=> d \in C /\ d > c
      /\ \A c : c \in R <=> c \in C /\ c > c0 /\ Cardinality(A(c)) < CheckpointDepth
  BY Zenon
<1>1. \A c \in C : /\ IsFiniteSet(A(c)) /\ Cardinality(A(c)) \in Nat
                   /\ Cardinality(A(c)) < CheckpointDepth => c \in Retained(C)
  BY FewHeights DEF Retained
<1> HIDE DEF A, R
<1>2. PICK m \in C : \A d \in C : d <= m
  BY Uppermost
<1>3. Cardinality(A(c0)) >= CheckpointDepth
  BY <1>1, Numbers
<1>4. m \in R
  <2>1. A(m) = {}
    <3>1. \A d \in C : ~(d > m)
      BY <1>0, <1>2
    <3> QED BY <1>0, <3>1, Zenon
  <2>2. Cardinality(A(m)) = 0
    BY <2>1, Zenon DEF SetFacts
  <2>3. A(c0) # {}
    BY <1>3, Numbers DEF SetFacts
  <2>4. m > c0
    <3>1. PICK d \in C : d > c0
      BY <1>0, <2>3, Zenon
    <3> QED BY <1>0, <1>2, <3>1
  <2> QED BY <1>0, <2>2, <2>4, Numbers
<1>5. PICK c1 \in R : \A d \in R : c1 <= d
  <2>1. R \in SUBSET Nat /\ R # {}
    BY <1>0, <1>4
  <2> QED BY <2>1, Lowest
<1>6. c1 \in C /\ c1 \in Nat /\ m \in Nat /\ c0 \in Nat /\ c1 > c0 /\ c1 <= m
      /\ Cardinality(A(c1)) < CheckpointDepth
  BY <1>0, <1>2, <1>5
<1>7. c1 + ReorgDepth > m => \E p \in C : p < c1 /\ c0 <= p /\ \A d \in C : d < c1 => d <= p
  <2> DEFINE below == {d \in C : d < c1}
  <2>1. below \in SUBSET Nat /\ c0 \in below /\ \A d \in below : d <= B
    BY <1>6
  <2>2. \A d : d \in below <=> d \in C /\ d < c1
    BY Zenon
  <2> HIDE DEF below
  <2>3. PICK p \in below : \A d \in below : d <= p
    BY <2>1, Uppermost
  <2> QED BY <2>1, <2>2, <2>3
<1>8. ASSUME c1 + ReorgDepth > m PROVE FALSE
  <2>1. PICK p \in C : p < c1 /\ c0 <= p /\ \A d \in C : d < c1 => d <= p
    BY <1>7, <1>8
  <2>2. A(p) = A(c1) \cup {c1} /\ c1 \notin A(c1)
    <3>1. \A d \in C : d > p <=> d > c1 \/ d = c1
      BY <1>0, <1>6, <2>1
    <3>2. \A d : d \in A(p) <=> d \in A(c1) \cup {c1}
      BY <1>0, <1>6, <3>1, Zenon
    <3>3. c1 \notin A(c1)
      BY <1>0, <1>6
    <3> QED BY <3>2, <3>3
  <2>3. Cardinality(A(p)) = Cardinality(A(c1)) + 1
    BY <1>1, <1>6, <2>2, Zenon DEF SetFacts
  <2>4. Cardinality(A(c1)) <= m - c1
    <3>1. A(c1) \in SUBSET ((c1 + 1)..m)
      <4>1. \A d \in C : d > c1 => d \in (c1 + 1)..m
        BY <1>0, <1>2, <1>6
      <4> QED BY <1>0, <4>1, Zenon
    <3> QED BY <1>6, <3>1, Zenon DEF SetFacts
  <2>5. Cardinality(A(p)) < CheckpointDepth
    <3>1. Cardinality(A(c1)) \in Nat
      BY <1>1, <1>6
    <3> QED BY <1>6, <1>8, <2>3, <2>4, <3>1, Numbers
  <2>6. p # c0
    <3>1. Cardinality(A(c0)) \in Nat
      BY <1>1
    <3> QED BY <1>3, <2>5, <3>1, Numbers
  <2> QED BY <1>0, <1>5, <1>6, <2>1, <2>5, <2>6
<1> QED BY <1>1, <1>2, <1>6, <1>8, Numbers

\* What retention keeps it keeps again.
LEMMA RetainedAgain ==
  ASSUME SetFacts, NEW B \in Nat, NEW C \in SUBSET Nat, \A c \in C : c <= B
  PROVE  Retained(C) \subseteq C /\ Retained(C) \subseteq Retained(Retained(C))
<1>1. Retained(C) \subseteq C
  BY DEF Retained
<1>2. ASSUME NEW c \in Retained(C) PROVE c \in Retained(Retained(C))
  <2> DEFINE A == {d \in C : d > c}
             A1 == {d \in Retained(C) : d > c}
  <2>1. Cardinality(A) < CheckpointDepth \/ c % AnchorInterval = 0
    BY <1>2 DEF Retained
  <2>2. A \in SUBSET Nat /\ (\A d \in A : d <= B) /\ A1 \in SUBSET A
    BY <1>1
  <2> HIDE DEF A, A1
  <2>3. Cardinality(A1) \in Nat /\ Cardinality(A) \in Nat /\ Cardinality(A1) <= Cardinality(A)
    BY <2>2, FewHeights
  <2>4. Cardinality(A1) < CheckpointDepth \/ c % AnchorInterval = 0
    BY <2>1, <2>3, Numbers
  <2>5. Retained(Retained(C)) = {x \in Retained(C) : \/ Cardinality({d \in Retained(C) : d > x}) < CheckpointDepth
                                                       \/ x % AnchorInterval = 0}
    BY DEF Retained
  <2> QED BY <1>2, <2>4, <2>5 DEF A1
<1> QED BY <1>1, <1>2

\* A block of the best chain is rooted.
LEMMA OnBestRooted ==
  ASSUME best \in Block, ChainSound, NEW x \in Block, IsAnc(x, best)
  PROVE  Rooted(x)
<1>1. Len(x) \in Nat /\ Len(best) \in Nat /\ Len(x) <= Len(best) /\ Len(best) <= top /\ top \in Nat
  BY AncSteps DEF ChainSound
<1>2. SatSub(Len(x), ReorgDepth) \in Nat /\ SatSub(Len(x), ReorgDepth) <= Len(x)
  BY <1>1, Numbers DEF SatSub
<1>3. IsAnc(Anc(x, SatSub(Len(x), ReorgDepth)), best)
  BY <1>2, AncAt, AncTransitive
<1> QED BY <1>1, <1>3 DEF Rooted

\* What has to be seen to of a write for the database to stay sound.
LEMMA PutKeeps ==
  ASSUME SyncInv, ChainSound, WalletSound, SyncInv', NEW bs \in SUBSET Block, PutBlocks(bs),
         UNCHANGED <<best, top>>,
         \A x \in bs, y \in stored \cup bs : Comparable(x, y),
         \A x \in bs : Rooted(x),
         \A h : Gap(h)' => Gap(h) \/ Settled(h)',
         \A g : Settled(g) => Settled(g)',
         \E c \in ckpt' : Settled(c)'
  PROVE  WalletSound'
<1>1. stored' = stored \cup bs /\ ckpt' = Retained(ckpt \cup Heights(bs))
  BY DEF PutBlocks
<1>2. OneChain'
  BY <1>1 DEF WalletSound, OneChain, Comparable
<1>3. \A x \in stored' : Rooted(x)'
  BY <1>1 DEF WalletSound, Rooted
<1>4. \A h : Gap(h)' => Settled(h)'
  BY DEF WalletSound
<1>5. ckpt' \subseteq Retained(ckpt')
  <2>1. stored' \in SUBSET Block /\ Heights(stored) \cup Heights(bs) = Heights(stored')
    BY <1>1, Shapes DEF Heights
  <2>2. DbSound' /\ DbSound
    BY DEF SyncInv
  <2>3. Heights(stored') \subseteq Nat /\ \A h \in Heights(stored') : h < ShutdownHeight
    BY <2>2, Numbers DEF DbSound, Heights, ShutdownRespected, Block
  <2>4. ckpt \cup Heights(bs) \subseteq Heights(stored')
    BY <2>1, <2>2 DEF DbSound
  <2>5. ckpt \cup Heights(bs) \in SUBSET Nat /\ \A h \in ckpt \cup Heights(bs) : h <= ShutdownHeight
    BY <2>3, <2>4, Numbers
  <2>6. SetFacts
    BY Shapes
  <2> QED BY <1>1, <2>5, <2>6, Numbers, RetainedAgain
<1> QED BY <1>2, <1>3, <1>4, <1>5 DEF WalletSound
=============================================================================
