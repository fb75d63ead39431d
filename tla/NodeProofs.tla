----------------------------- MODULE NodeProofs -----------------------------
(***************************************************************************)
(* Theorems about the processes of the server, and about the background    *)
(* task that searches for spends.                                          *)
(***************************************************************************)
EXTENDS NodeLifecycle, SpendSearch, WellFoundedInduction, TLAPS

(***************************************************************************)
(* The search for spends passes none over, on a chain of any length, with  *)
(* either backend.                                                         *)
(***************************************************************************)
\* What the search is made of.
SearchTypeOK ==
  /\ backend \in {"zebra", "zaino"}
  /\ tip \in Nat /\ spentAt \in Nat /\ indexed \in Nat /\ mark \in Nat
  /\ task \in [at : {"sleep", "spent?", "spender?", "dead"}, tip : Nat, to : Nat]

\* No view is ahead of the node.
ViewIsOld == task.tip <= tip

\* The inductive invariant.
SearchInv == SearchTypeOK /\ ViewIsOld /\ NoSpendPassedOver

USE DEF Sleeping, Chain

\* The wallet starts with the output checked up to the block that made it.
LEMMA SearchStarts == SearchInit => SearchInv
BY MaxTipAssumption DEF SearchInit, SearchInv, SearchTypeOK, ViewIsOld, NoSpendPassedOver

\* address_request_bounds never takes the mark back, nor past the view's tip or the mark.
LEMMA BoundsClamp ==
  ASSUME SearchTypeOK
  PROVE  /\ Looked.from = mark + 1 /\ Looked.end \in Nat /\ Looked.end >= mark + 1
         /\ Looked.asOf = Looked.end - 1
         /\ Looked.asOf <= mark \/ Looked.asOf <= task.tip
<1>1. mark \in Nat /\ task.tip \in Nat /\ task.to \in Nat
  BY DEF SearchTypeOK
<1> QED BY ONLY <1>1 DEF Looked, Bounds

\* Every step of the node and of the task keeps the invariant.
LEMMA SearchStep == SearchInv /\ [SearchNext]_searchVars => SearchInv'
<1> SUFFICES ASSUME SearchInv, [SearchNext]_searchVars PROVE SearchInv'
  OBVIOUS
<1> USE DEF SearchInv, SearchTypeOK, ViewIsOld, NoSpendPassedOver
<1>1. CASE NewBlock
  BY <1>1 DEF NewBlock
<1>2. CASE Index
  BY <1>2 DEF Index
<1>3. CASE Wake
  <2>1. task' = Sleeping \/ task' = [Sleeping EXCEPT !.at = "dead"]
          \/ \E to \in Nat : task' = [at |-> "spent?", tip |-> tip, to |-> to]
    BY <1>3 DEF Wake
  <2> QED BY <1>3, <2>1 DEF Wake
<1>4. CASE AskUnspent
  <2>1. CASE Spent
    BY <1>4, <2>1 DEF AskUnspent
  <2>2. CASE ~Spent
    <3>1. spentAt > task.tip
      BY <2>2 DEF Spent
    <3>2. mark' = task.tip \/ mark' = Looked.asOf
      BY <1>4, <2>2 DEF AskUnspent
    <3>3. mark' \in Nat /\ (mark' <= mark \/ mark' <= task.tip)
      BY <3>2, BoundsClamp
    <3> QED BY <1>4, <2>2, <3>1, <3>3 DEF AskUnspent
  <2> QED BY <2>1, <2>2
<1>5. CASE AskSpender
  BY <1>5 DEF AskSpender
<1>6. CASE AskAddressTxs
  <2>1. mark' = Looked.end - 1 /\ Looked.end \in Nat /\ Looked.end >= mark + 1
    BY <1>6, BoundsClamp DEF AskAddressTxs
  <2>2. recorded' = (recorded \/ (spentAt >= Looked.from /\ spentAt < Looked.end))
    BY <1>6 DEF AskAddressTxs
  <2>3. recorded \/ (spentAt >= Looked.from /\ spentAt < Looked.end) => recorded'
    BY <2>2, Zenon
  <2>4. spentAt <= mark' => spentAt <= mark \/ (spentAt >= Looked.from /\ spentAt < Looked.end)
    BY <2>1, BoundsClamp
  <2>5. spentAt <= mark' => recorded'
    BY <2>3, <2>4, Zenon
  <2> QED BY <1>6, <2>1, <2>5 DEF AskAddressTxs
<1>7. CASE RequestFails
  BY <1>7 DEF RequestFails
<1>8. CASE UNCHANGED searchVars
  BY <1>8 DEF searchVars
<1> QED BY <1>1, <1>2, <1>3, <1>4, <1>5, <1>6, <1>7, <1>8 DEF SearchNext

\* The height through which the data-requests task has checked an output never reaches a block
\* that spends it unless the spend is recorded, whatever blocks arrive between its questions.
THEOREM SearchSound == SearchSpec => []NoSpendPassedOver
<1>1. SearchInv => NoSpendPassedOver
  BY DEF SearchInv
<1> QED BY SearchStarts, SearchStep, <1>1, PTL DEF SearchSpec

HIDE DEF Sleeping, Chain
-----------------------------------------------------------------------------
(***************************************************************************)
(* Any number of processes over one data directory, of any builds, against *)
(* any node: the data-directory lock, the task owners and the cookie guard *)
(* keep them apart, and the consensus check is exact.                      *)
(***************************************************************************)
\* What the node reports: branches it may know, at heights in range.
Reported ==
  /\ DOMAIN node.reported \subseteq Upgrades
  /\ \A b \in DOMAIN node.reported : node.reported[b].height \in 0..MaxNodeTip
  /\ node.tip \in 0..MaxNodeTip

\* Where a branch activates is None or a height.
LEMMA HeightsOf ==
  ASSUME Reported, NEW b
  PROVE  /\ NodeHeight(b) = None \/ NodeHeight(b) \in 0..MaxNodeTip
         /\ OurHeight(b) = None \/ OurHeight(b) \in 0..MaxNodeTip
         /\ None \notin 0..MaxNodeTip
         /\ OurHeight(b) # None => b \in DOMAIN OurRules /\ b \in Recognized /\ b \in Upgrades
         /\ NodeHeight(b) # None => b \in DOMAIN node.reported /\ b \in Upgrades
BY LifeAssumption DEF Reported, NodeHeight, OurHeight, None

\* branch_incompatibility answers None for a branch both sides agree on, and
\* otherwise the first height at which exactly one of them has activated it.
LEMMA DivergenceOf ==
  ASSUME Reported, NEW b
  PROVE  LET d == Divergence(b)  n == NodeHeight(b)  o == OurHeight(b) IN
         /\ d = None => n = o
         /\ d # None => /\ d \in 0..MaxNodeTip
                        /\ \/ d = n /\ (o = None \/ n < o)
                           \/ d = o /\ (n = None \/ o < n)
<1> DEFINE n == NodeHeight(b)
           o == OurHeight(b)
           both == {o, n} \ {None}
<1>1. /\ n = None \/ n \in 0..MaxNodeTip
      /\ o = None \/ o \in 0..MaxNodeTip
      /\ None \notin 0..MaxNodeTip
      /\ o # None => b \in Recognized
  BY HeightsOf
<1>2. Divergence(b) = IF b \notin Recognized THEN n
                      ELSE IF o = n \/ both = {} THEN None
                      ELSE CHOOSE h \in both : \A g \in both : h <= g
  BY DEF Divergence
<1> HIDE DEF n, o
<1>3. MaxNodeTip \in Nat
  BY LifeAssumption
<1>4. CASE b \notin Recognized
  BY <1>1, <1>2, <1>4 DEF n, o
<1>5. CASE b \in Recognized /\ o = n
  BY <1>1, <1>2, <1>5 DEF n, o
<1>6. CASE b \in Recognized /\ o # n
  <2>1. both # {}
    BY <1>6
  <2>2. \E h \in both : \A g \in both : h <= g
    BY <1>1, <1>3, <1>6, <2>1
  <2>3. PICK d \in both : d = Divergence(b) /\ \A g \in both : d <= g
    BY <1>2, <1>6, <2>1, <2>2
  <2>4. d \in 0..MaxNodeTip /\ (d = n \/ d = o)
    BY <1>1, <2>3
  <2>5. /\ d = n => (o = None \/ n < o)
        /\ d = o => (n = None \/ o < n)
    BY <1>1, <1>3, <1>6, <2>3
  <2> QED BY <1>1, <2>3, <2>4, <2>5 DEF n, o
<1> QED BY <1>4, <1>5, <1>6

\* A set of heights has a lowest one.
LEMMA LowestHeight ==
  ASSUME NEW C \in SUBSET Nat, C # {}
  PROVE  \E m \in C : \A d \in C : m <= d
<1>1. PICK m \in C : \A d \in C : ~(<<d, m>> \in OpToRel(<, Nat))
  <2>1. IsWellFoundedOn(OpToRel(<, Nat), Nat)
    BY NatLessThanWellFounded, Zenon
  <2> QED BY <2>1, WFMin, Zenon
<1>2. ASSUME NEW d \in C PROVE m <= d
  <2>1. <<d, m>> \in OpToRel(<, Nat) <=> d < m
    BY DEF OpToRel
  <2>2. ~(d < m)
    BY <1>1, <2>1, Zenon
  <2>3. d \in Nat /\ m \in Nat
    OBVIOUS
  <2> QED BY ONLY <2>2, <2>3
<1> QED BY <1>2

\* The rules differ at a height exactly when an incompatibility lies at or
\* below it and, of the heights where they do, the lowest is one.
LEMMA AgreementIs ==
  ASSUME Reported
  PROVE  /\ Incompatibilities \subseteq 0..MaxNodeTip
         /\ \A h \in Incompatibilities : ~AgreeAt(h)
         /\ \A h \in 0..MaxNodeTip : ~AgreeAt(h) => \E i \in Incompatibilities : i <= h
<1>0. MaxNodeTip \in Nat /\ Examined \subseteq Upgrades
  BY LifeAssumption DEF Reported, Examined
<1>1. ASSUME NEW i \in Incompatibilities
      PROVE  i \in 0..MaxNodeTip /\ ~AgreeAt(i)
  <2>1. PICK b \in Examined : i = Divergence(b) /\ i # None
    BY DEF Incompatibilities
  <2> DEFINE n == NodeHeight(b)
             o == OurHeight(b)
  <2>2. /\ i \in 0..MaxNodeTip
        /\ \/ i = n /\ (o = None \/ n < o)
           \/ i = o /\ (n = None \/ o < n)
    BY <2>1, DivergenceOf
  <2>3. /\ n = None \/ n \in 0..MaxNodeTip
        /\ o = None \/ o \in 0..MaxNodeTip
        /\ None \notin 0..MaxNodeTip
    BY HeightsOf
  <2> HIDE DEF n, o
  <2>4. ~((n # None /\ n <= i) <=> (o # None /\ o <= i))
    BY <1>0, <2>2, <2>3
  <2> QED BY <1>0, <2>1, <2>2, <2>4 DEF AgreeAt, n, o
<1>2. ASSUME NEW h \in 0..MaxNodeTip, ~AgreeAt(h)
      PROVE  \E i \in Incompatibilities : i <= h
  <2>1. PICK b \in Upgrades : ~((NodeHeight(b) # None /\ NodeHeight(b) <= h)
                                <=> (OurHeight(b) # None /\ OurHeight(b) <= h))
    BY <1>2 DEF AgreeAt
  <2> DEFINE n == NodeHeight(b)
             o == OurHeight(b)
             d == Divergence(b)
  <2>2. /\ n = None \/ n \in 0..MaxNodeTip
        /\ o = None \/ o \in 0..MaxNodeTip
        /\ o # None => b \in DOMAIN OurRules
        /\ n # None => b \in DOMAIN node.reported
    BY HeightsOf
  <2>3. /\ d = None => n = o
        /\ d # None => /\ d \in 0..MaxNodeTip
                       /\ \/ d = n /\ (o = None \/ n < o)
                          \/ d = o /\ (n = None \/ o < n)
    BY DivergenceOf
  <2>4. ~((n # None /\ n <= h) <=> (o # None /\ o <= h))
    BY <2>1
  <2> HIDE DEF n, o
  <2>5. b \in Examined
    BY <2>2, <2>4 DEF Examined
  <2>6. d # None /\ d <= h
    <3> HIDE DEF d
    <3> QED BY <1>0, <2>2, <2>3, <2>4
  <2>7. d \in Incompatibilities
    BY <2>5, <2>6 DEF Incompatibilities
  <2> QED BY <2>6, <2>7
<1> QED BY <1>1, <1>2

\* classify and the shutdown height follow.
LEMMA CheckExact ==
  ASSUME Reported
  PROVE  ConsensusCheckExact
<1> DEFINE I == Incompatibilities
           e == EarliestDivergence
<1>0. /\ MaxNodeTip \in Nat /\ node.tip \in 0..MaxNodeTip
      /\ None \notin 0..MaxNodeTip
  BY LifeAssumption DEF Reported, None
<1>1. /\ I \subseteq 0..MaxNodeTip
      /\ \A h \in I : ~AgreeAt(h)
      /\ \A h \in 0..MaxNodeTip : ~AgreeAt(h) => \E i \in I : i <= h
  BY AgreementIs
<1>2. Diverged <=> \E h \in I : h <= node.tip
  BY DEF Diverged
<1>3. e = IF I = {} THEN None ELSE CHOOSE h \in I : \A g \in I : h <= g
  BY DEF EarliestDivergence
<1> HIDE DEF I, e
<1>4. Diverged <=> \E h \in 0..node.tip : ~AgreeAt(h)
  <2>1. ASSUME Diverged PROVE \E h \in 0..node.tip : ~AgreeAt(h)
    <3>1. PICK h \in I : h <= node.tip
      BY <1>2, <2>1
    <3>2. h \in 0..node.tip
      BY <1>0, <1>1, <3>1
    <3> QED BY <1>1, <3>1, <3>2
  <2>2. ASSUME NEW h \in 0..node.tip, ~AgreeAt(h) PROVE Diverged
    <3>1. h \in 0..MaxNodeTip
      BY <1>0
    <3>2. PICK i \in I : i <= h
      BY <1>1, <2>2, <3>1
    <3>3. i <= node.tip
      BY <1>0, <1>1, <3>2
    <3> QED BY <1>2, <3>2, <3>3
  <2> QED BY <2>1, <2>2
<1>5. I # {} => e \in I /\ \A g \in I : e <= g
  <2> SUFFICES ASSUME I # {} PROVE e \in I /\ \A g \in I : e <= g
    OBVIOUS
  <2>1. I \in SUBSET Nat
    BY <1>0, <1>1
  <2>2. \E m \in I : \A g \in I : m <= g
    BY <2>1, LowestHeight
  <2> QED BY <1>3, <2>2
<1>6. e # None <=> I # {}
  BY <1>0, <1>1, <1>3, <1>5
<1>7. e # None <=> \E h \in 0..MaxNodeTip : ~AgreeAt(h)
  BY <1>1, <1>6
<1>8. ASSUME e # None
      PROVE  ~AgreeAt(e) /\ \A h \in 0..(e - 1) : AgreeAt(h)
  <2>1. e \in 0..MaxNodeTip /\ ~AgreeAt(e) /\ \A g \in I : e <= g
    BY <1>1, <1>5, <1>6, <1>8
  <2>2. ASSUME NEW h \in 0..(e - 1), ~AgreeAt(h) PROVE FALSE
    <3>1. h \in 0..MaxNodeTip
      BY <1>0, <2>1
    <3>2. PICK i \in I : i <= h
      BY <1>1, <2>2, <3>1
    <3>3. e <= i /\ i \in 0..MaxNodeTip
      BY <1>1, <2>1, <3>2
    <3> QED BY <1>0, <2>1, <3>1, <3>2, <3>3
  <2> QED BY <2>1, <2>2
<1> QED BY <1>4, <1>7, <1>8 DEF ConsensusCheckExact, e
-----------------------------------------------------------------------------
\* Where a startup future is once Database::open has returned.
Opened == Startup \ {"build", "compat", "open", "create", "migrate", "record"}

\* What the processes and the data directory are made of.
LifeTypes ==
  /\ pc \in [Procs -> Startup \cup {"off", "ended", "closing", "gone"}]
  /\ alive \in [Procs -> SUBSET Tasks] /\ aborted \in [Procs -> SUBSET Tasks]
  /\ owned \in [Procs -> SUBSET Tasks] /\ pending \in [Procs -> SUBSET Tasks]

\* p's tasks: between them the two owners hold every task of a future that is
\* running, and what outlives the future has been asked to end.
TasksHeld(p) ==
  /\ pc[p] \in Startup => alive[p] \subseteq owned[p] \cup pending[p]
  /\ pending[p] \subseteq SyncTasks
  /\ pc[p] \in {"off", "build", "gone"} => alive[p] = {}
  /\ pc[p] \in {"ended", "closing"} => alive[p] \subseteq aborted[p]

\* p's cookie: a guard is either still with the future or with a live server,
\* and the lock keeps others from writing theirs.
CookieGuarded(p) ==
  p \in guard => /\ pc[p] = "listen" \/ "rpc" \in alive[p]
                 /\ pc[p] \in Startup => cookie \in {p, "none"}

\* p's database: verified before it is migrated, and p's own after that.
DbVerified(p) ==
  /\ pc[p] = "create" => db.ver = 0
  /\ pc[p] \in {"migrate", "record"} =>
       db.exists = TRUE /\ (db.ver # 0 => db.ver >= MinVersion /\ db.net = build[p].net)
  /\ pc[p] = "record" => db.net = build[p].net
  /\ pc[p] \in Opened => db = [exists |-> TRUE, net |-> build[p].net, ver |-> build[p].ver]

\* What is true of a process, by where it is.
ProcInv(p) ==
  /\ pc[p] \in Startup => holder = p
  /\ TasksHeld(p) /\ CookieGuarded(p) /\ DbVerified(p)

\* What is shared: unless a process was killed, the cookie in the file has a
\* guard; a database without a file has no version.
Shared ==
  /\ (killed = {} /\ cookie # "none") => cookie \in guard
  /\ guard \subseteq Procs
  /\ db = [exists |-> db.exists, net |-> db.net, ver |-> db.ver]
  /\ db.exists = TRUE \/ (db.exists = FALSE /\ db.ver = 0)
  /\ Reported

\* The inductive invariant.
LifeInv == LifeTypes /\ Shared /\ \A p \in Procs : ProcInv(p)

\* What a step of p leaves alone: the other processes and, while another one
\* has the lock, the database and its cookie.
Frame(p) ==
  /\ UNCHANGED <<build, node>>
  /\ \A q \in Procs \ {p} :
       /\ pc'[q] = pc[q] /\ alive'[q] = alive[q] /\ aborted'[q] = aborted[q]
       /\ owned'[q] = owned[q] /\ pending'[q] = pending[q]
       /\ q \in guard' => q \in guard
       /\ pc[q] \in Startup => /\ holder' = holder /\ db' = db
                               /\ cookie' = cookie \/ cookie' = "none"

\* A step of p that keeps its own part of the invariant keeps all of it.
LEMMA Assemble ==
  ASSUME LifeInv, NEW p \in Procs, LifeTypes', Shared', Frame(p), ProcInv(p)'
  PROVE  LifeInv'
<1>1. ASSUME NEW q \in Procs \ {p} PROVE ProcInv(q)'
  <2>1. ProcInv(q)
    BY DEF LifeInv
  <2>2. /\ pc'[q] = pc[q] /\ alive'[q] = alive[q] /\ aborted'[q] = aborted[q]
        /\ owned'[q] = owned[q] /\ pending'[q] = pending[q] /\ build' = build
        /\ q \in guard' => q \in guard
        /\ pc[q] \in Startup => /\ holder' = holder /\ db' = db
                                /\ cookie' = cookie \/ cookie' = "none"
    BY DEF Frame
  <2>3. TasksHeld(q)'
    BY <2>1, <2>2 DEF ProcInv, TasksHeld
  <2>4. CookieGuarded(q)'
    BY <2>1, <2>2 DEF ProcInv, CookieGuarded
  <2>5. DbVerified(q)'
    <3>1. pc[q] \in Startup => db' = db
      BY <2>2
    <3>2. CASE pc[q] \in Startup
      BY <2>1, <2>2, <3>1, <3>2 DEF ProcInv, DbVerified
    <3>3. CASE pc[q] \notin Startup
      BY <2>2, <3>3 DEF DbVerified, Opened, Startup, Starting
    <3> QED BY <3>2, <3>3
  <2> QED BY <2>1, <2>2, <2>3, <2>4, <2>5 DEF ProcInv
<1> QED BY <1>1 DEF LifeInv

\* Only one process is between taking the lock and the end of its future.
LEMMA OneHolder ==
  ASSUME LifeInv, NEW p \in Procs, pc[p] \in Startup \/ holder = "none"
  PROVE  \A q \in Procs \ {p} : pc[q] \notin Startup
BY LifeAssumption DEF LifeInv, ProcInv

USE DEF Fixed, Disk, Owners, Goto, Spawn

\* lock_datadir.
LEMMA LockKeeps ==
  ASSUME LifeInv, NEW p \in Procs, Lock(p)
  PROVE  LifeInv'
<1>0. LifeTypes /\ Shared /\ ProcInv(p)
  BY DEF LifeInv
<1>1. LifeTypes'
  BY <1>0 DEF Lock, LifeTypes, Startup, Starting, Tasks, SyncTasks
<1>2. Frame(p)
  <2>1. CASE holder = "none"
    <3>1. \A q \in Procs \ {p} : pc[q] \notin Startup
      BY <2>1, OneHolder
    <3> QED BY <1>0, <2>1, <3>1 DEF Lock, LifeTypes, Frame
  <2>2. CASE holder # "none"
    BY <1>0, <2>2 DEF Lock, LifeTypes, Frame
  <2> QED BY <2>1, <2>2
<1>3. TasksHeld(p)'
  BY <1>0 DEF Lock, LifeTypes, ProcInv, TasksHeld, Startup, Starting, Tasks, SyncTasks
<1>4. CookieGuarded(p)'
  BY <1>0 DEF Lock, LifeTypes, ProcInv, TasksHeld, CookieGuarded, Startup, Starting
<1>5. DbVerified(p)'
  BY <1>0 DEF Lock, LifeTypes, ProcInv, DbVerified, Opened, Startup, Starting
<1>6. (pc[p] \in Startup => holder = p)'
  BY <1>0 DEF Lock, LifeTypes, ProcInv, Startup, Starting
<1>7. Shared'
  BY <1>0 DEF Lock, LifeTypes, Shared, Reported
<1> QED BY <1>1, <1>2, <1>3, <1>4, <1>5, <1>6, <1>7, Assemble DEF ProcInv

\* The backend is built.
LEMMA BuildKeeps ==
  ASSUME LifeInv, NEW p \in Procs, BuildChain(p)
  PROVE  LifeInv'
<1>0. LifeTypes /\ Shared /\ ProcInv(p)
  BY DEF LifeInv
<1>1. LifeTypes'
  BY <1>0 DEF BuildChain, LifeTypes, Startup, Starting, Tasks, SyncTasks
<1>2. Frame(p)
  BY <1>0 DEF BuildChain, LifeTypes, Frame
<1>3. TasksHeld(p)'
  BY <1>0 DEF BuildChain, LifeTypes, ProcInv, TasksHeld, Startup, Starting, Tasks, SyncTasks
<1>4. CookieGuarded(p)'
  BY <1>0 DEF BuildChain, LifeTypes, ProcInv, TasksHeld, CookieGuarded, Startup, Starting
<1>5. DbVerified(p)'
  BY <1>0 DEF BuildChain, LifeTypes, ProcInv, DbVerified, Opened, Startup, Starting
<1>6. (pc[p] \in Startup => holder = p)'
  BY <1>0 DEF BuildChain, LifeTypes, ProcInv, Startup, Starting
<1>7. Shared'
  BY <1>0 DEF BuildChain, LifeTypes, Shared, Reported
<1> QED BY <1>1, <1>2, <1>3, <1>4, <1>5, <1>6, <1>7, Assemble DEF ProcInv

\* The consensus check.
LEMMA CheckKeeps ==
  ASSUME LifeInv, NEW p \in Procs, CheckConsensus(p)
  PROVE  LifeInv'
<1>0. LifeTypes /\ Shared /\ ProcInv(p)
  BY DEF LifeInv
<1>1. LifeTypes'
  BY <1>0 DEF CheckConsensus, LifeTypes, Startup, Starting, Tasks, SyncTasks
<1>2. Frame(p)
  BY <1>0 DEF CheckConsensus, LifeTypes, Frame
<1>3. TasksHeld(p)'
  BY <1>0 DEF CheckConsensus, LifeTypes, ProcInv, TasksHeld, Startup, Starting, Tasks, SyncTasks
<1>4. CookieGuarded(p)'
  BY <1>0 DEF CheckConsensus, LifeTypes, ProcInv, TasksHeld, CookieGuarded, Startup, Starting
<1>5. DbVerified(p)'
  BY <1>0 DEF CheckConsensus, LifeTypes, ProcInv, DbVerified, Opened, Startup, Starting
<1>6. (pc[p] \in Startup => holder = p)'
  BY <1>0 DEF CheckConsensus, LifeTypes, ProcInv, Startup, Starting
<1>7. Shared'
  BY <1>0 DEF CheckConsensus, LifeTypes, Shared, Reported
<1> QED BY <1>1, <1>2, <1>3, <1>4, <1>5, <1>6, <1>7, Assemble DEF ProcInv

\* Database::open verifies.
LEMMA OpenKeeps ==
  ASSUME LifeInv, NEW p \in Procs, OpenDb(p)
  PROVE  LifeInv'
<1>0. LifeTypes /\ Shared /\ ProcInv(p)
  BY DEF LifeInv
<1>1. LifeTypes'
  BY <1>0 DEF OpenDb, Admits, LifeTypes, Startup, Starting, Tasks, SyncTasks
<1>2. Frame(p)
  BY <1>0 DEF OpenDb, Admits, LifeTypes, Frame
<1>3. TasksHeld(p)'
  BY <1>0 DEF OpenDb, Admits, LifeTypes, ProcInv, TasksHeld, Startup, Starting, Tasks, SyncTasks
<1>4. CookieGuarded(p)'
  BY <1>0 DEF OpenDb, Admits, LifeTypes, ProcInv, TasksHeld, CookieGuarded, Startup, Starting
<1>5. DbVerified(p)'
  <2>1. CASE db.exists = TRUE
    BY <1>0, <2>1 DEF OpenDb, Admits, LifeTypes, DbVerified, Opened, Startup, Starting
  <2>2. CASE db.exists = FALSE /\ db.ver = 0
    BY <1>0, <2>2 DEF OpenDb, LifeTypes, DbVerified, Opened, Startup, Starting
  <2> QED BY <1>0, <2>1, <2>2 DEF Shared
<1>6. (pc[p] \in Startup => holder = p)'
  BY <1>0 DEF OpenDb, Admits, LifeTypes, ProcInv, Startup, Starting
<1>7. Shared'
  BY <1>0 DEF OpenDb, Admits, LifeTypes, Shared, Reported
<1> QED BY <1>1, <1>2, <1>3, <1>4, <1>5, <1>6, <1>7, Assemble DEF ProcInv

\* The first migrations.
LEMMA CreateKeeps ==
  ASSUME LifeInv, NEW p \in Procs, CreateDb(p)
  PROVE  LifeInv'
<1>0. LifeTypes /\ Shared /\ ProcInv(p)
  BY DEF LifeInv
<1>1. LifeTypes'
  BY <1>0 DEF CreateDb, LifeTypes, Startup, Starting, Tasks, SyncTasks
<1>2. Frame(p)
  <2>1. \A q \in Procs \ {p} : pc[q] \notin Startup
    BY OneHolder DEF CreateDb, Startup, Starting
  <2> QED BY <1>0, <2>1 DEF CreateDb, LifeTypes, Frame
<1>3. TasksHeld(p)'
  BY <1>0 DEF CreateDb, LifeTypes, ProcInv, TasksHeld, Startup, Starting, Tasks, SyncTasks
<1>4. CookieGuarded(p)'
  BY <1>0 DEF CreateDb, LifeTypes, ProcInv, TasksHeld, CookieGuarded, Startup, Starting
<1>5. DbVerified(p)'
  BY <1>0 DEF CreateDb, LifeTypes, ProcInv, DbVerified, Opened, Startup, Starting
<1>6. (pc[p] \in Startup => holder = p)'
  BY <1>0 DEF CreateDb, LifeTypes, ProcInv, Startup, Starting
<1>7. Shared'
  BY <1>0 DEF CreateDb, LifeTypes, Shared, Reported
<1> QED BY <1>1, <1>2, <1>3, <1>4, <1>5, <1>6, <1>7, Assemble DEF ProcInv

\* The later ones.
LEMMA MigrateKeeps ==
  ASSUME LifeInv, NEW p \in Procs, Migrate(p)
  PROVE  LifeInv'
<1>0. LifeTypes /\ Shared /\ ProcInv(p)
  BY DEF LifeInv
<1>1. LifeTypes'
  BY <1>0 DEF Migrate, LifeTypes, Startup, Starting, Tasks, SyncTasks
<1>2. Frame(p)
  <2>1. \A q \in Procs \ {p} : pc[q] \notin Startup
    BY OneHolder DEF Migrate, Startup, Starting
  <2> QED BY <1>0, <2>1 DEF Migrate, LifeTypes, Frame
<1>3. TasksHeld(p)'
  BY <1>0 DEF Migrate, LifeTypes, ProcInv, TasksHeld, Startup, Starting, Tasks, SyncTasks
<1>4. CookieGuarded(p)'
  BY <1>0 DEF Migrate, LifeTypes, ProcInv, TasksHeld, CookieGuarded, Startup, Starting
<1>5. DbVerified(p)'
  BY <1>0 DEF Migrate, LifeTypes, ProcInv, DbVerified, Opened, Startup, Starting
<1>6. (pc[p] \in Startup => holder = p)'
  BY <1>0 DEF Migrate, LifeTypes, ProcInv, Startup, Starting
<1>7. Shared'
  BY <1>0 DEF Migrate, LifeTypes, Shared, Reported
<1> QED BY <1>1, <1>2, <1>3, <1>4, <1>5, <1>6, <1>7, Assemble DEF ProcInv

\* The version is recorded.
LEMMA RecordKeeps ==
  ASSUME LifeInv, NEW p \in Procs, RecordVersion(p)
  PROVE  LifeInv'
<1>0. LifeTypes /\ Shared /\ ProcInv(p)
  BY DEF LifeInv
<1>db. db' = [exists |-> TRUE, net |-> build[p].net, ver |-> build[p].ver] /\ build' = build
  <2>1. db.exists = TRUE /\ db.net = build[p].net
        /\ db = [exists |-> db.exists, net |-> db.net, ver |-> db.ver]
    BY <1>0 DEF RecordVersion, ProcInv, DbVerified, Shared
  <2> QED BY <2>1 DEF RecordVersion
<1>1. LifeTypes'
  BY <1>0 DEF RecordVersion, LifeTypes, Startup, Starting, Tasks, SyncTasks
<1>2. Frame(p)
  <2>1. \A q \in Procs \ {p} : pc[q] \notin Startup
    BY OneHolder DEF RecordVersion, Startup, Starting
  <2> QED BY <1>0, <2>1 DEF RecordVersion, LifeTypes, Frame
<1>3. TasksHeld(p)'
  BY <1>0 DEF RecordVersion, LifeTypes, ProcInv, TasksHeld, Startup, Starting, Tasks, SyncTasks
<1>4. CookieGuarded(p)'
  BY <1>0 DEF RecordVersion, LifeTypes, ProcInv, TasksHeld, CookieGuarded, Startup, Starting
<1>5. DbVerified(p)'
  <2>1. pc'[p] = "pir"
    BY <1>0 DEF RecordVersion, LifeTypes
  <2> QED BY <1>db, <2>1 DEF DbVerified
<1>6. (pc[p] \in Startup => holder = p)'
  BY <1>0 DEF RecordVersion, LifeTypes, ProcInv, Startup, Starting
<1>7. Shared'
  BY <1>0, <1>db DEF RecordVersion, Shared, Reported
<1> QED BY <1>1, <1>2, <1>3, <1>4, <1>5, <1>6, <1>7, Assemble DEF ProcInv

\* Witnesses and keystore.
LEMMA PrepareKeeps ==
  ASSUME LifeInv, NEW p \in Procs, Prepare(p)
  PROVE  LifeInv'
<1>0. LifeTypes /\ Shared /\ ProcInv(p)
  BY DEF LifeInv
<1>1. LifeTypes'
  BY <1>0 DEF Prepare, LifeTypes, Startup, Starting, Tasks, SyncTasks
<1>2. Frame(p)
  BY <1>0 DEF Prepare, LifeTypes, Frame
<1>3. TasksHeld(p)'
  BY <1>0 DEF Prepare, LifeTypes, ProcInv, TasksHeld, Startup, Starting, Tasks, SyncTasks
<1>4. CookieGuarded(p)'
  BY <1>0 DEF Prepare, LifeTypes, ProcInv, TasksHeld, CookieGuarded, Startup, Starting
<1>5. DbVerified(p)'
  BY <1>0 DEF Prepare, LifeTypes, ProcInv, DbVerified, Opened, Startup, Starting
<1>6. (pc[p] \in Startup => holder = p)'
  BY <1>0 DEF Prepare, LifeTypes, ProcInv, Startup, Starting
<1>7. Shared'
  BY <1>0 DEF Prepare, LifeTypes, Shared, Reported
<1> QED BY <1>1, <1>2, <1>3, <1>4, <1>5, <1>6, <1>7, Assemble DEF ProcInv

\* The cookie is written, or there is no server.
LEMMA RpcKeeps ==
  ASSUME LifeInv, NEW p \in Procs, SpawnRpc(p)
  PROVE  LifeInv'
<1>0. LifeTypes /\ Shared /\ ProcInv(p)
  BY DEF LifeInv
<1>1. LifeTypes'
  BY <1>0 DEF SpawnRpc, GeneratedCookie, LifeTypes, Startup, Starting, Tasks, SyncTasks
<1>2. Frame(p)
  <2>1. \A q \in Procs \ {p} : pc[q] \notin Startup
    BY OneHolder DEF SpawnRpc, GeneratedCookie, Startup, Starting
  <2> QED BY <1>0, <2>1 DEF SpawnRpc, GeneratedCookie, LifeTypes, Frame
<1>3. TasksHeld(p)'
  BY <1>0 DEF SpawnRpc, GeneratedCookie, LifeTypes, ProcInv, TasksHeld, Startup, Starting, Tasks, SyncTasks
<1>4. CookieGuarded(p)'
  BY <1>0 DEF SpawnRpc, GeneratedCookie, LifeTypes, ProcInv, TasksHeld, CookieGuarded, Startup, Starting
<1>5. DbVerified(p)'
  BY <1>0 DEF SpawnRpc, GeneratedCookie, LifeTypes, ProcInv, DbVerified, Opened, Startup, Starting
<1>6. (pc[p] \in Startup => holder = p)'
  BY <1>0 DEF SpawnRpc, GeneratedCookie, LifeTypes, ProcInv, Startup, Starting
<1>7. Shared'
  BY <1>0 DEF SpawnRpc, GeneratedCookie, LifeTypes, Shared, Reported
<1> QED BY <1>1, <1>2, <1>3, <1>4, <1>5, <1>6, <1>7, Assemble DEF ProcInv

\* The server takes the guard over.
LEMMA ListenKeeps ==
  ASSUME LifeInv, NEW p \in Procs, Listen(p)
  PROVE  LifeInv'
<1>0. LifeTypes /\ Shared /\ ProcInv(p)
  BY DEF LifeInv
<1>1. LifeTypes'
  BY <1>0 DEF Listen, LifeTypes, Startup, Starting, Tasks, SyncTasks
<1>2. Frame(p)
  BY <1>0 DEF Listen, LifeTypes, Frame
<1>3. TasksHeld(p)'
  BY <1>0 DEF Listen, LifeTypes, ProcInv, TasksHeld, Startup, Starting, Tasks, SyncTasks
<1>4. CookieGuarded(p)'
  BY <1>0 DEF Listen, LifeTypes, ProcInv, TasksHeld, CookieGuarded, Startup, Starting
<1>5. DbVerified(p)'
  BY <1>0 DEF Listen, LifeTypes, ProcInv, DbVerified, Opened, Startup, Starting
<1>6. (pc[p] \in Startup => holder = p)'
  BY <1>0 DEF Listen, LifeTypes, ProcInv, Startup, Starting
<1>7. Shared'
  BY <1>0 DEF Listen, LifeTypes, Shared, Reported
<1> QED BY <1>1, <1>2, <1>3, <1>4, <1>5, <1>6, <1>7, Assemble DEF ProcInv

\* WalletSync::spawn, up to its last task.
LEMMA SyncKeeps ==
  ASSUME LifeInv, NEW p \in Procs,
         \/ SpawnSync(p, "decryptor", "decryptor", "init")
         \/ SpawnSync(p, "init", "steady", "history")
         \/ SpawnSync(p, "history", "history", "requests")
  PROVE  LifeInv'
<1>0. LifeTypes /\ Shared /\ ProcInv(p)
  BY DEF LifeInv
<1>1. LifeTypes'
  BY <1>0 DEF SpawnSync, LifeTypes, Startup, Starting, Tasks, SyncTasks
<1>2. Frame(p)
  BY <1>0 DEF SpawnSync, LifeTypes, Frame
<1>3. TasksHeld(p)'
  BY <1>0 DEF SpawnSync, LifeTypes, ProcInv, TasksHeld, Startup, Starting, Tasks, SyncTasks
<1>4. CookieGuarded(p)'
  BY <1>0 DEF SpawnSync, LifeTypes, ProcInv, TasksHeld, CookieGuarded, Startup, Starting
<1>5. DbVerified(p)'
  BY <1>0 DEF SpawnSync, LifeTypes, ProcInv, DbVerified, Opened, Startup, Starting
<1>6. (pc[p] \in Startup => holder = p)'
  BY <1>0 DEF SpawnSync, LifeTypes, ProcInv, Startup, Starting
<1>7. Shared'
  BY <1>0 DEF SpawnSync, LifeTypes, Shared, Reported
<1> QED BY <1>1, <1>2, <1>3, <1>4, <1>5, <1>6, <1>7, Assemble DEF ProcInv

\* Its last task, and the handover.
LEMMA LastKeeps ==
  ASSUME LifeInv, NEW p \in Procs, SpawnLast(p)
  PROVE  LifeInv'
<1>0. LifeTypes /\ Shared /\ ProcInv(p)
  BY DEF LifeInv
<1>1. LifeTypes'
  BY <1>0 DEF SpawnLast, LifeTypes, Startup, Starting, Tasks, SyncTasks
<1>2. Frame(p)
  BY <1>0 DEF SpawnLast, LifeTypes, Frame
<1>3. TasksHeld(p)'
  BY <1>0 DEF SpawnLast, LifeTypes, ProcInv, TasksHeld, Startup, Starting, Tasks, SyncTasks
<1>4. CookieGuarded(p)'
  BY <1>0 DEF SpawnLast, LifeTypes, ProcInv, TasksHeld, CookieGuarded, Startup, Starting
<1>5. DbVerified(p)'
  BY <1>0 DEF SpawnLast, LifeTypes, ProcInv, DbVerified, Opened, Startup, Starting
<1>6. (pc[p] \in Startup => holder = p)'
  BY <1>0 DEF SpawnLast, LifeTypes, ProcInv, Startup, Starting
<1>7. Shared'
  BY <1>0 DEF SpawnLast, LifeTypes, Shared, Reported
<1> QED BY <1>1, <1>2, <1>3, <1>4, <1>5, <1>6, <1>7, Assemble DEF ProcInv

\* A future that fails, is cancelled or sees a task end.
LEMMA DropKeeps ==
  ASSUME LifeInv, NEW p \in Procs, pc[p] \in Startup, DropFuture(p)
  PROVE  LifeInv'
<1>0. LifeTypes /\ Shared /\ ProcInv(p)
  BY DEF LifeInv
<1>1. LifeTypes'
  BY <1>0 DEF DropFuture, HasGuard, LifeTypes, Startup, Starting, Tasks, SyncTasks
<1>2. Frame(p)
  <2>1. \A q \in Procs \ {p} : pc[q] \notin Startup
    BY OneHolder DEF DropFuture, HasGuard, Startup, Starting
  <2> QED BY <1>0, <2>1 DEF DropFuture, HasGuard, LifeTypes, Frame
<1>3. TasksHeld(p)'
  BY <1>0 DEF DropFuture, HasGuard, LifeTypes, ProcInv, TasksHeld, Startup, Starting, Tasks, SyncTasks
<1>4. CookieGuarded(p)'
  BY <1>0 DEF DropFuture, HasGuard, LifeTypes, ProcInv, TasksHeld, CookieGuarded, Startup, Starting
<1>5. DbVerified(p)'
  BY <1>0 DEF DropFuture, HasGuard, LifeTypes, ProcInv, DbVerified, Opened, Startup, Starting
<1>6. (pc[p] \in Startup => holder = p)'
  BY <1>0 DEF DropFuture, HasGuard, LifeTypes, ProcInv, Startup, Starting
<1>7. Shared'
  BY <1>0 DEF DropFuture, HasGuard, LifeTypes, Shared, Reported
<1> QED BY <1>1, <1>2, <1>3, <1>4, <1>5, <1>6, <1>7, Assemble DEF ProcInv

\* Main goes on.
LEMMA MainKeeps ==
  ASSUME LifeInv, NEW p \in Procs, Shutdown(p) \/ Exit(p)
  PROVE  LifeInv'
<1>0. LifeTypes /\ Shared /\ ProcInv(p)
  BY DEF LifeInv
<1>1. LifeTypes'
  BY <1>0 DEF Shutdown, Exit, LifeTypes, Startup, Starting, Tasks, SyncTasks
<1>2. Frame(p)
  BY <1>0 DEF Shutdown, Exit, LifeTypes, Frame
<1>3. TasksHeld(p)'
  BY <1>0 DEF Shutdown, Exit, LifeTypes, ProcInv, TasksHeld, Startup, Starting, Tasks, SyncTasks
<1>4. CookieGuarded(p)'
  BY <1>0 DEF Shutdown, Exit, LifeTypes, ProcInv, TasksHeld, CookieGuarded, Startup, Starting
<1>5. DbVerified(p)'
  BY <1>0 DEF Shutdown, Exit, LifeTypes, ProcInv, DbVerified, Opened, Startup, Starting
<1>6. (pc[p] \in Startup => holder = p)'
  BY <1>0 DEF Shutdown, Exit, LifeTypes, ProcInv, Startup, Starting
<1>7. Shared'
  BY <1>0 DEF Shutdown, Exit, LifeTypes, Shared, Reported
<1> QED BY <1>1, <1>2, <1>3, <1>4, <1>5, <1>6, <1>7, Assemble DEF ProcInv

\* A kill.
LEMMA KillKeeps ==
  ASSUME LifeInv, NEW p \in Procs, Kill(p)
  PROVE  LifeInv'
<1>0. LifeTypes /\ Shared /\ ProcInv(p)
  BY DEF LifeInv
<1>1. LifeTypes'
  BY <1>0 DEF Kill, LifeTypes, Startup, Starting, Tasks, SyncTasks
<1>2. Frame(p)
  <2>1. CASE pc[p] \in Startup
    <3>1. \A q \in Procs \ {p} : pc[q] \notin Startup
      BY <2>1, OneHolder
    <3> QED BY <1>0, <3>1 DEF Kill, LifeTypes, Frame
  <2>2. CASE pc[p] \notin Startup
    <3>1. \A q \in Procs \ {p} : pc[q] \in Startup => holder # p
      BY DEF LifeInv, ProcInv
    <3> QED BY <1>0, <3>1 DEF Kill, LifeTypes, Frame
  <2> QED BY <2>1, <2>2
<1>3. TasksHeld(p)'
  BY <1>0 DEF Kill, LifeTypes, ProcInv, TasksHeld, Startup, Starting, Tasks, SyncTasks
<1>4. CookieGuarded(p)'
  BY <1>0 DEF Kill, LifeTypes, ProcInv, TasksHeld, CookieGuarded, Startup, Starting
<1>5. DbVerified(p)'
  BY <1>0 DEF Kill, LifeTypes, ProcInv, DbVerified, Opened, Startup, Starting
<1>6. (pc[p] \in Startup => holder = p)'
  BY <1>0 DEF Kill, LifeTypes, ProcInv, Startup, Starting
<1>7. Shared'
  BY <1>0 DEF Kill, LifeTypes, Shared, Reported
<1> QED BY <1>1, <1>2, <1>3, <1>4, <1>5, <1>6, <1>7, Assemble DEF ProcInv

\* Tasks that end.
LEMMA EndKeeps ==
  ASSUME LifeInv, NEW p \in Procs, NEW ts, EndOf(p, ts),
         UNCHANGED <<pc, owned, pending, stopAt, holder, db>>, UNCHANGED <<build, node, killed>>
  PROVE  LifeInv'
<1>0. LifeTypes /\ Shared /\ ProcInv(p)
  BY DEF LifeInv
<1>1. LifeTypes'
  BY <1>0 DEF EndOf, LifeTypes
<1>2. Frame(p)
  BY <1>0 DEF EndOf, LifeTypes, Frame
<1>3. TasksHeld(p)'
  BY <1>0 DEF EndOf, LifeTypes, ProcInv, TasksHeld
<1>4. CookieGuarded(p)'
  BY <1>0 DEF EndOf, LifeTypes, ProcInv, CookieGuarded
<1>5. DbVerified(p)'
  BY <1>0 DEF ProcInv, DbVerified
<1>6. Shared'
  BY <1>0 DEF EndOf, Shared, Reported
<1> QED BY <1>0, <1>1, <1>2, <1>3, <1>4, <1>5, <1>6, Assemble DEF ProcInv
-----------------------------------------------------------------------------
\* One step of one process.
LEMMA StepKeeps ==
  ASSUME LifeInv, NEW p \in Procs,
         \/ Lock(p) \/ StartStep(p) \/ Signal(p) \/ TaskExits(p) \/ Supervise(p) \/ Shutdown(p)
         \/ WindDown(p) \/ Exit(p) \/ Kill(p)
  PROVE  LifeInv'
<1>1. CASE Lock(p) \/ Shutdown(p) \/ Exit(p) \/ Kill(p)
  BY <1>1, LockKeeps, MainKeeps, KillKeeps
<1>2. CASE StartStep(p)
  <2>1. CASE Fail(p)
    BY <2>1, DropKeeps DEF Fail, Startup
  <2>2. CASE ~Fail(p)
    BY <1>2, <2>2, BuildKeeps, CheckKeeps, OpenKeeps, CreateKeeps, MigrateKeeps, RecordKeeps,
       PrepareKeeps, RpcKeeps, ListenKeeps, SyncKeeps, LastKeeps DEF StartStep
  <2> QED BY <2>1, <2>2
<1>3. CASE Signal(p) \/ Supervise(p)
  BY <1>3, DropKeeps DEF Signal, Supervise, Startup
<1>4. CASE TaskExits(p) \/ WindDown(p)
  <2>1. \E ts : EndOf(p, ts)
    BY <1>4 DEF TaskExits, WindDown
  <2>2. UNCHANGED <<pc, owned, pending, stopAt, holder, db>> /\ UNCHANGED <<build, node, killed>>
    BY <1>4 DEF TaskExits, WindDown
  <2> QED BY <2>1, <2>2, EndKeeps
<1> QED BY <1>1, <1>2, <1>3, <1>4

\* LifeInv holds at the start and is kept by every step.
LEMMA LifeInductive ==
  /\ LifeInit => LifeInv
  /\ LifeInv /\ [LifeNext]_lifeVars => LifeInv'
<1>1. ASSUME LifeInit PROVE LifeInv
  <2>1. LifeTypes
    BY <1>1 DEF LifeInit, LifeTypes
  <2>2. Reported
    <3>1. PICK known \in SUBSET Upgrades :
            node \in [reported : [known -> Reports], tip : 0..MaxNodeTip]
      BY <1>1 DEF LifeInit
    <3>2. node.reported \in [known -> Reports] /\ node.tip \in 0..MaxNodeTip
      BY <3>1
    <3>3. \A r \in Reports : r.height \in 0..MaxNodeTip
      BY LifeAssumption DEF Reports
    <3> QED BY <3>2, <3>3 DEF Reported
  <2>3. /\ db = [exists |-> db.exists, net |-> db.net, ver |-> db.ver]
        /\ db.exists = TRUE \/ (db.exists = FALSE /\ db.ver = 0)
    <3>1. CASE db = NoDb
      BY <3>1 DEF NoDb
    <3>2. CASE \E n, v : db = [exists |-> TRUE, net |-> n, ver |-> v]
      BY <3>2
    <3> QED BY <1>1, <3>1, <3>2 DEF LifeInit
  <2>4. Shared
    BY <1>1, <2>2, <2>3 DEF LifeInit, Shared
  <2>5. ASSUME NEW p \in Procs PROVE ProcInv(p)
    <3>1. pc[p] = "off" /\ alive[p] = {} /\ pending[p] = {} /\ guard = {}
      BY <1>1 DEF LifeInit
    <3> QED BY <3>1 DEF ProcInv, TasksHeld, CookieGuarded, DbVerified, Opened, Startup, Starting
  <2> QED BY <2>1, <2>4, <2>5 DEF LifeInv
<1>2. ASSUME LifeInv, [LifeNext]_lifeVars PROVE LifeInv'
  <2>1. CASE UNCHANGED lifeVars
    BY <1>2, <2>1 DEF lifeVars, LifeInv, LifeTypes, Shared, Reported, ProcInv, TasksHeld,
                      CookieGuarded, DbVerified
  <2>2. CASE LifeNext
    BY <1>2, <2>2, StepKeeps DEF LifeNext
  <2> QED BY <1>2, <2>1, <2>2
<1> QED BY <1>1, <1>2

\* The properties of the run, from the invariant.
LEMMA InvariantSuffices ==
  ASSUME LifeInv
  PROVE  LifeSafe
<1>1. NoOrphanTask
  BY DEF LifeInv, ProcInv, TasksHeld, NoOrphanTask
<1>2. DatabaseIsOurs
  BY DEF LifeInv, ProcInv, DbVerified, Opened, DatabaseIsOurs
<1>3. CookieNeverForeign
  BY DEF LifeInv, Shared, ProcInv, CookieGuarded, CookieNeverForeign
<1>4. NoCookieLeft
  <2> SUFFICES ASSUME killed = {}, \A p \in Procs : pc[p] \in {"off", "gone"}, cookie # "none"
               PROVE  FALSE
    BY DEF NoCookieLeft
  <2>1. cookie \in guard /\ cookie \in Procs
    BY DEF LifeInv, Shared
  <2>2. pc[cookie] = "listen" \/ "rpc" \in alive[cookie]
    BY <2>1 DEF LifeInv, ProcInv, CookieGuarded
  <2>3. alive[cookie] = {}
    BY <2>1 DEF LifeInv, ProcInv, TasksHeld
  <2> QED BY <2>1, <2>2, <2>3
<1>5. ConsensusCheckExact
  BY CheckExact DEF LifeInv, Shared
<1> QED BY <1>1, <1>2, <1>3, <1>4, <1>5 DEF LifeSafe

\* Whatever starts, fails, is signalled or is killed, in any order and for any
\* builds: no task outlives its future uncancelled, every process works on a
\* database of its own, cookies are neither foreign nor left behind, and
\* check_consensus_compatibility refuses exactly the nodes it must.
THEOREM LifecycleSafe == LifeSpec => []LifeSafe
BY LifeInductive, InvariantSuffices, PTL DEF LifeSpec

\* No step of Database::open changes a database that a version too old for
\* this build or another network wrote.
THEOREM DatabaseUntouched == LifeSpec => UntouchedUnlessVerified
<1>1. ASSUME LifeInv, [LifeNext]_lifeVars
      PROVE  [(db.ver # 0 /\ db' # db) => db.ver >= MinVersion /\ db'.net = db.net]_lifeVars
  <2> SUFFICES ASSUME LifeNext, db.ver # 0, db' # db
               PROVE  db.ver >= MinVersion /\ db'.net = db.net
    BY <1>1
  <2>1. PICK p \in Procs : CreateDb(p) \/ Migrate(p) \/ RecordVersion(p)
    BY DEF LifeNext, StartStep, Lock, BuildChain, CheckConsensus, OpenDb, Prepare, SpawnRpc, Listen,
           SpawnSync, SpawnLast, Fail, Signal, DropFuture, TaskExits, Supervise, Shutdown, WindDown,
           Exit, Kill
  <2>2. DbVerified(p) /\ db = [exists |-> db.exists, net |-> db.net, ver |-> db.ver]
    BY <1>1 DEF LifeInv, ProcInv, Shared
  <2>3. ~CreateDb(p)
    BY <2>2 DEF CreateDb, DbVerified
  <2>4. CASE Migrate(p)
    <3>1. db.ver >= MinVersion /\ db.net = build[p].net
      BY <2>2, <2>4 DEF Migrate, DbVerified
    <3>2. db'.net = build[p].net
      BY <2>2, <2>4 DEF Migrate
    <3> QED BY <3>1, <3>2
  <2>5. CASE RecordVersion(p)
    <3>1. db.ver >= MinVersion
      BY <2>2, <2>5 DEF RecordVersion, DbVerified
    <3>2. db'.net = db.net
      BY <2>2, <2>5 DEF RecordVersion
    <3> QED BY <3>1, <3>2
  <2> QED BY <2>1, <2>3, <2>4, <2>5
<1> QED BY <1>1, LifeInductive, PTL DEF LifeSpec, UntouchedUnlessVerified
=============================================================================
