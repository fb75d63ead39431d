------------------------- MODULE QueueAndLockProofs -------------------------
(***************************************************************************)
(* Theorems about the operation queue of the spend calls and about the     *)
(* lock of the keystore.                                                   *)
(***************************************************************************)
EXTENDS AsyncOps, KeystoreLock, FiniteSetTheorems, TLAPS

(***************************************************************************)
(* For every set of spend calls and every queue limit: the operation queue *)
(* keeps to its limit, never loses an operation in flight, launches one    *)
(* operation per accepted call, and hands no result out twice.             *)
(***************************************************************************)
\* What a call remembers of its snapshot, or a collection has gathered, is
\* finished; a collection gathers queued operations only.
Seen ==
  /\ \A r \in Requests : \A o \in finished[r] : IsFinished(o)
  /\ \A o \in taken : IsFinished(o)
  /\ taken \subseteq ops /\ wanted \subseteq ops
  /\ ~collecting => taken = {} /\ wanted = {}

\* Only launched operations are queued, or have had a result handed out.
Known ==
  /\ ops \subseteq Launched
  /\ \A o \in Requests : returned[o] # 0 => o \in Launched

\* The inductive invariant.
QueueInv == /\ QueueTypeOK /\ Bounded /\ InFlightTracked /\ CollectedAtMostOnce
       /\ LaunchedIffAccepted /\ Seen /\ Known

\* Dropping operations keeps the queue within its limit.
LEMMA SubsetFits ==
  ASSUME NEW S \in SUBSET Requests, NEW T \in SUBSET S, Cardinality(S) <= Limit
  PROVE  Cardinality(T) <= Limit /\ Cardinality(T) \in Nat /\ IsFiniteSet(T)
<1>1. IsFiniteSet(S) /\ IsFiniteSet(T)
  BY RequestsAssumption, FS_Subset
<1>2. Cardinality(T) <= Cardinality(S) /\ Cardinality(S) \in Nat /\ Cardinality(T) \in Nat
  BY <1>1, FS_Subset, FS_CardinalityType
<1> QED BY <1>1, <1>2, LimitAssumption

\* Once the length check has passed there is room for one more.
LEMMA PushFits ==
  ASSUME NEW T \in SUBSET Requests, NEW r \in Requests, IsFiniteSet(T),
         Cardinality(T) \in Nat, Cardinality(T) < Limit
  PROVE  Cardinality(T \cup {r}) <= Limit
<1>1. Cardinality(T \cup {r}) = IF r \in T THEN Cardinality(T) ELSE Cardinality(T) + 1
  BY FS_AddElement
<1> QED BY <1>1, LimitAssumption

\* An eviction only drops operations that were found finished.
LEMMA EvictedFinished ==
  ASSUME NEW fin \in SUBSET Requests
  PROVE  Evicted(fin) \subseteq ops \cap fin
BY DEF Evicted

\* The empty queue satisfies the invariant.
LEMMA QueueStarts == QueueInit => QueueInv
<1> SUFFICES ASSUME QueueInit PROVE QueueInv
  OBVIOUS
<1>1. Launched = {}
  BY DEF QueueInit, Launched
<1>2. QueueTypeOK
  BY DEF QueueInit, QueueTypeOK, States, FinishedStates
<1>3. Bounded
  BY FS_EmptySet, LimitAssumption DEF QueueInit, Bounded
<1> QED BY <1>1, <1>2, <1>3 DEF QueueInit, QueueInv, InFlightTracked, CollectedAtMostOnce,
             LaunchedIffAccepted, Seen, Known

\* Steps of a call that touch neither the queue nor an operation.
LEMMA CallStepInv ==
  ASSUME QueueInv, NEW r \in Requests,
         \/ CheckCapacity(r) \/ ProbeSnapshot(r) \/ Probe(r) \/ BuildFails(r)
         \/ Snapshot(r) \/ ScanState(r) \/ CallTimesOut(r)
  PROVE  QueueInv'
<1>1. UNCHANGED <<ops, ticket, state, collecting, wanted, taken, returned>>
  BY DEF CheckCapacity, ProbeSnapshot, Probe, BuildFails, Snapshot, ScanState, CallTimesOut, collectVars
<1>2. /\ pc' \in [Requests -> {"idle", "full", "probe", "build", "scan", "accepted", "rejected", "timedout"}]
      /\ \A q \in Requests : pc'[q] = "accepted" <=> pc[q] = "accepted"
  BY DEF QueueInv, QueueTypeOK, CheckCapacity, ProbeSnapshot, Probe, BuildFails, Snapshot, ScanState, CallTimesOut
<1>3. unread' \in [Requests -> SUBSET Requests]
  BY DEF QueueInv, QueueTypeOK, CheckCapacity, ProbeSnapshot, Probe, BuildFails, Snapshot, ScanState, CallTimesOut
<1>4. /\ finished' \in [Requests -> SUBSET Requests]
      /\ \A q \in Requests : \A o \in finished'[q] : IsFinished(o)
  <2>1. CASE ScanState(r)
    <3>1. PICK o \in unread[r] :
            finished' = [finished EXCEPT ![r] = IF IsFinished(o) THEN @ \cup {o} ELSE @]
      BY <2>1 DEF ScanState
    <3> QED BY <3>1 DEF QueueInv, QueueTypeOK, Seen
  <2>2. CASE ~ScanState(r)
    <3>1. finished' = finished
      BY <2>2 DEF CheckCapacity, ProbeSnapshot, Probe, BuildFails, Snapshot, CallTimesOut
    <3> QED BY <3>1 DEF QueueInv, QueueTypeOK, Seen
  <2> QED BY <2>1, <2>2
<1>5. Launched' = Launched /\ \A o \in Requests : IsFinished(o)' = IsFinished(o)
  BY <1>1 DEF Launched, IsFinished
<1>6. QueueTypeOK'
  BY <1>1, <1>2, <1>3, <1>4 DEF QueueInv, QueueTypeOK
<1>7. LaunchedIffAccepted'
  BY <1>2, <1>5 DEF QueueInv, LaunchedIffAccepted
<1>8. Seen'
  BY <1>1, <1>4, <1>5 DEF QueueInv, Seen, QueueTypeOK, IsFinished
<1>9. Bounded' /\ InFlightTracked' /\ CollectedAtMostOnce' /\ Known'
  BY <1>1, <1>5 DEF QueueInv, Bounded, InFlightTracked, CollectedAtMostOnce, Known, IsFinished, Launched
<1> QED BY <1>6, <1>7, <1>8, <1>9 DEF QueueInv

\* The critical section of `insert`.
LEMMA InsertInv ==
  ASSUME QueueInv, NEW r \in Requests, Insert(r)
  PROVE  QueueInv'
<1> DEFINE kept == ops \ Evicted(finished[r])
<1>1. finished[r] \in SUBSET Requests /\ ops \in SUBSET Requests /\ kept \in SUBSET ops
  BY DEF QueueInv, QueueTypeOK
<1>2. \A o \in ops \ kept : IsFinished(o)
  BY <1>1, EvictedFinished DEF QueueInv, Seen
<1>3. Cardinality(kept) <= Limit /\ Cardinality(kept) \in Nat /\ IsFiniteSet(kept)
  <2> HIDE DEF kept
  <2> QED BY <1>1, SubsetFits DEF QueueInv, Bounded
<1>4. r \notin Launched /\ state[r] = "None"
  BY DEF Insert, QueueInv, LaunchedIffAccepted, Launched
<1>5. UNCHANGED <<unread, finished, collecting, wanted, taken, returned>> /\ ~collecting
  BY DEF Insert, collectVars
<1>5a. taken = {} /\ wanted = {}
  BY <1>5 DEF QueueInv, Seen
<1>6. CASE Cardinality(kept) >= Limit
  <2>1. ops' = kept /\ pc' = [pc EXCEPT ![r] = "rejected"] /\ UNCHANGED <<ticket, state>>
    BY <1>6 DEF Insert
  <2>2. Launched' = Launched /\ \A o \in Requests : IsFinished(o)' = IsFinished(o)
    BY <2>1 DEF Launched, IsFinished
  <2>3. QueueTypeOK'
    BY <2>1, <1>1, <1>5 DEF QueueInv, QueueTypeOK
  <2>4. Bounded'
    BY <2>1, <1>3 DEF Bounded
  <2>5. InFlightTracked'
    BY <2>1, <2>2, <1>1, <1>2 DEF QueueInv, InFlightTracked, Launched, IsFinished
  <2>6. LaunchedIffAccepted'
    BY <2>1, <2>2, <1>4 DEF QueueInv, LaunchedIffAccepted, QueueTypeOK
  <2>7. CollectedAtMostOnce' /\ Known'
    BY <2>1, <2>2, <1>1, <1>5 DEF QueueInv, CollectedAtMostOnce, Known
  <2>8. Seen'
    BY <2>1, <1>5, <1>5a DEF QueueInv, Seen, IsFinished
  <2> QED BY <2>3, <2>4, <2>5, <2>6, <2>7, <2>8 DEF QueueInv
<1>7. CASE ~(Cardinality(kept) >= Limit)
  <2>1. Push(r, kept)
    BY <1>7 DEF Insert
  <2>2. /\ ops' = kept \cup {r}
        /\ pc' = [pc EXCEPT ![r] = "accepted"]
        /\ ticket' = [ticket EXCEPT ![r] = Cardinality(Launched) + 1]
        /\ state' = [state EXCEPT ![r] = "Ready"]
    BY <2>1 DEF Push
  <2>3. Launched' = Launched \cup {r}
    BY <2>2 DEF QueueInv, QueueTypeOK, Launched
  <2>4. \A o \in Requests : IsFinished(o)' = IsFinished(o)
    BY <2>2, <1>4 DEF QueueInv, QueueTypeOK, IsFinished, FinishedStates
  <2>5. Cardinality(Launched) \in Nat
    BY RequestsAssumption, FS_Subset, FS_CardinalityType DEF Launched
  <2>6. QueueTypeOK'
    BY <2>2, <2>5, <1>1, <1>5 DEF QueueInv, QueueTypeOK, States
  <2>7. Bounded'
    <3> HIDE DEF kept
    <3>1. Cardinality(kept) < Limit /\ kept \in SUBSET Requests
      BY <1>1, <1>3, <1>7, LimitAssumption
    <3> QED BY <3>1, <2>2, <1>3, PushFits DEF Bounded
  <2>8. InFlightTracked'
    BY <2>2, <2>3, <2>4, <1>1, <1>2 DEF QueueInv, InFlightTracked, Launched
  <2>9. LaunchedIffAccepted'
    BY <2>2, <2>3 DEF QueueInv, LaunchedIffAccepted, QueueTypeOK
  <2>10. CollectedAtMostOnce' /\ Known'
    BY <2>2, <2>3, <1>1, <1>4, <1>5 DEF QueueInv, CollectedAtMostOnce, Known
  <2>11. Seen'
    BY <2>2, <2>4, <1>5, <1>5a DEF QueueInv, Seen, QueueTypeOK, IsFinished
  <2> QED BY <2>6, <2>7, <2>8, <2>9, <2>10, <2>11 DEF QueueInv
<1> QED BY <1>6, <1>7

\* The operation's own task only moves its state forward.
LEMMA TaskInv ==
  ASSUME QueueInv, NEW o \in Requests, Task(o)
  PROVE  QueueInv'
<1>1. PICK s \in {"Executing", "Success", "Failed"} : state' = [state EXCEPT ![o] = s]
  BY DEF Task, Start, Finish
<1>2. UNCHANGED <<pc, unread, finished, ops, ticket, collecting, wanted, taken, returned>>
  BY DEF Task, Start, Finish, collectVars
<1>3. state[o] \in {"Ready", "Executing"}
  BY DEF Task, Start, Finish
<1>4. Launched' = Launched
  BY <1>1, <1>3 DEF QueueInv, QueueTypeOK, Launched
<1>5. \A p \in Requests : IsFinished(p) => IsFinished(p)'
  BY <1>1, <1>3 DEF QueueInv, QueueTypeOK, IsFinished, FinishedStates
<1>6. QueueTypeOK'
  BY <1>1, <1>2 DEF QueueInv, QueueTypeOK, States, FinishedStates
<1>7. Bounded' /\ LaunchedIffAccepted' /\ CollectedAtMostOnce' /\ Known'
  BY <1>2, <1>4 DEF QueueInv, Bounded, LaunchedIffAccepted, CollectedAtMostOnce, Known
<1>8. InFlightTracked'
  BY <1>2, <1>4, <1>5 DEF QueueInv, InFlightTracked, Launched
<1>9. Seen'
  BY <1>2, <1>5 DEF QueueInv, Seen, QueueTypeOK
<1> QED BY <1>6, <1>7, <1>8, <1>9 DEF QueueInv

\* z_getoperationresult
LEMMA CollectInv ==
  ASSUME QueueInv, Collect
  PROVE  QueueInv'
<1>1. UNCHANGED <<pc, unread, finished, ticket, state>>
  BY DEF Collect, CollectBegin, CollectLook, CollectEnd, CollectTimesOut
<1>2. Launched' = Launched /\ \A o \in Requests : IsFinished(o)' = IsFinished(o)
  BY <1>1 DEF Launched, IsFinished
<1>3. CASE CollectBegin \/ CollectLook \/ CollectTimesOut
  <2>1. ops' = ops /\ returned' = returned /\ collecting' \in BOOLEAN
    BY <1>3 DEF CollectBegin, CollectLook, CollectTimesOut, QueueInv, QueueTypeOK
  <2>2. wanted' \subseteq ops /\ taken' \subseteq ops /\ \A o \in taken' : IsFinished(o)
    BY <1>3 DEF CollectBegin, CollectLook, CollectTimesOut, QueueInv, Seen
  <2>3. ~collecting' => taken' = {} /\ wanted' = {}
    BY <1>3 DEF CollectBegin, CollectLook, CollectTimesOut
  <2>4. QueueTypeOK'
    BY <1>1, <2>1, <2>2 DEF QueueInv, QueueTypeOK
  <2>5. Seen'
    BY <1>1, <2>1, <2>2, <2>3 DEF QueueInv, Seen, IsFinished
  <2>6. Bounded' /\ LaunchedIffAccepted' /\ CollectedAtMostOnce' /\ Known' /\ InFlightTracked'
    BY <1>1, <1>2, <2>1 DEF QueueInv, Bounded, LaunchedIffAccepted, CollectedAtMostOnce, Known,
         InFlightTracked, IsFinished, Launched
  <2> QED BY <2>4, <2>5, <2>6 DEF QueueInv
<1>4. CASE CollectEnd
  <2>1. /\ ops' = ops \ taken /\ collecting' = FALSE /\ taken' = {} /\ wanted' = {} /\ wanted = {}
        /\ returned' = [o \in Requests |-> IF o \in taken THEN returned[o] + 1 ELSE returned[o]]
    BY <1>4 DEF CollectEnd
  <2>2. ops' \in SUBSET ops /\ ops \in SUBSET Requests
    BY <2>1 DEF QueueInv, QueueTypeOK
  <2>3. \A o \in taken : returned[o] = 0
    BY DEF QueueInv, Seen, CollectedAtMostOnce, QueueTypeOK
  <2>4. QueueTypeOK'
    <3>1. returned' \in [Requests -> Nat]
      BY <2>1 DEF QueueInv, QueueTypeOK
    <3>2. ops' \subseteq Requests /\ wanted' \subseteq Requests /\ taken' \subseteq Requests
      BY <2>1, <2>2
    <3> QED BY <1>1, <2>1, <3>1, <3>2 DEF QueueInv, QueueTypeOK
  <2>5. Bounded'
    BY <2>2, SubsetFits DEF QueueInv, Bounded
  <2>6. InFlightTracked'
    BY <1>1, <1>2, <2>1 DEF QueueInv, InFlightTracked, Seen, IsFinished, Launched
  <2>7. CollectedAtMostOnce'
    BY <2>1, <2>3 DEF QueueInv, CollectedAtMostOnce, QueueTypeOK
  <2>8. Known'
    BY <1>2, <2>1, <2>2 DEF QueueInv, Known, Seen
  <2>9. LaunchedIffAccepted'
    BY <1>1, <1>2 DEF QueueInv, LaunchedIffAccepted
  <2>10. Seen'
    BY <1>1, <2>1 DEF QueueInv, Seen, IsFinished
  <2> QED BY <2>4, <2>5, <2>6, <2>7, <2>8, <2>9, <2>10 DEF QueueInv
<1> QED BY <1>3, <1>4 DEF Collect

\* Every step preserves the invariant.
LEMMA QueueStep == QueueInv /\ [QueueNext]_queueVars => QueueInv'
<1> SUFFICES ASSUME QueueInv, [QueueNext]_queueVars PROVE QueueInv'
  OBVIOUS
<1>1. CASE UNCHANGED queueVars
  BY <1>1 DEF queueVars, QueueInv, QueueTypeOK, Bounded, InFlightTracked, CollectedAtMostOnce,
     LaunchedIffAccepted, Seen, Known, Launched, IsFinished
<1>2. ASSUME NEW r \in Requests, Request(r) PROVE QueueInv'
  BY <1>2, CallStepInv, InsertInv DEF Request
<1>3. ASSUME NEW r \in Requests, Task(r) PROVE QueueInv'
  BY <1>3, TaskInv
<1>4. CASE Collect
  BY <1>4, CollectInv
<1> QED BY <1>1, <1>2, <1>3, <1>4 DEF QueueNext

\* The operation queue is correct for any number of concurrent spend calls
\* and any limit: it stays within its limit, never loses an operation in
\* flight, and hands each result out at most once, whatever OperationQueue's
\* insert, collect_finished and the operations' tasks interleave to.
THEOREM QueueCorrect ==
  QueueSpec => [](QueueTypeOK /\ Bounded /\ InFlightTracked /\ CollectedAtMostOnce /\ LaunchedIffAccepted)
<1>1. QueueInv => QueueTypeOK /\ Bounded /\ InFlightTracked /\ CollectedAtMostOnce /\ LaunchedIffAccepted
  BY DEF QueueInv
<1> QED BY <1>1, QueueStarts, QueueStep, PTL DEF QueueSpec

-----------------------------------------------------------------------------
\* Tickets number the launched operations in order.
Tickets ==
  /\ \A o \in Launched : ticket[o] <= Cardinality(Launched)
  /\ \A o, p \in Launched : ticket[o] = ticket[p] => o = p

\* Finitely many operations are ever launched.
LEMMA LaunchedFinite == IsFiniteSet(Launched) /\ Cardinality(Launched) \in Nat
BY RequestsAssumption, FS_Subset, FS_CardinalityType DEF Launched

\* Only an insertion hands out a ticket, the next one.
LEMMA TicketsStep == QueueInv /\ Tickets /\ [QueueNext]_queueVars => Tickets'
<1> SUFFICES ASSUME QueueInv, Tickets, [QueueNext]_queueVars PROVE Tickets'
  OBVIOUS
<1>1. CASE ticket' = ticket /\ Launched' = Launched
  BY <1>1 DEF Tickets
<1>2. ASSUME NEW r \in Requests, Insert(r) PROVE Tickets'
  <2> DEFINE kept == ops \ Evicted(finished[r])
  <2>1. CASE Cardinality(kept) >= Limit
    BY <1>2, <2>1, <1>1 DEF Insert, Launched
  <2>2. CASE ~(Cardinality(kept) >= Limit)
    <3>1. /\ ticket' = [ticket EXCEPT ![r] = Cardinality(Launched) + 1]
          /\ state' = [state EXCEPT ![r] = "Ready"]
      BY <1>2, <2>2 DEF Insert, Push
    <3>2. r \notin Launched
      BY <1>2 DEF Insert, QueueInv, LaunchedIffAccepted
    <3>3. Launched' = Launched \cup {r}
      BY <3>1 DEF QueueInv, QueueTypeOK, Launched
    <3>4. Cardinality(Launched') = Cardinality(Launched) + 1
      BY <3>2, <3>3, LaunchedFinite, FS_AddElement
    <3>5. /\ ticket'[r] = Cardinality(Launched) + 1
          /\ \A o \in Launched : ticket'[o] = ticket[o] /\ ticket[o] \in Nat
      BY <3>1, <3>2 DEF QueueInv, QueueTypeOK, Launched
    <3> QED BY <3>3, <3>4, <3>5, LaunchedFinite DEF Tickets
  <2> QED BY <2>1, <2>2
<1>3. ASSUME NEW r \in Requests, Request(r), ~Insert(r) PROVE Tickets'
  BY <1>3, <1>1 DEF Request, CheckCapacity, ProbeSnapshot, Probe, BuildFails, Snapshot, ScanState, CallTimesOut, Launched
<1>4. ASSUME NEW o \in Requests, Task(o) PROVE Tickets'
  <2>1. Launched' = Launched /\ ticket' = ticket
    BY <1>4 DEF Task, Start, Finish, Launched, QueueInv, QueueTypeOK
  <2> QED BY <2>1, <1>1
<1>5. CASE Collect \/ UNCHANGED queueVars
  BY <1>5, <1>1 DEF Collect, CollectBegin, CollectLook, CollectEnd, CollectTimesOut, Launched, queueVars
<1> QED BY <1>2, <1>3, <1>4, <1>5 DEF QueueNext

\* A full queue evicts at most the oldest operation found finished, and no
\* other queue evicts anything.
LEMMA EvictsOldest ==
  ASSUME QueueInv, Tickets, NEW fin \in SUBSET Requests, NEW o \in Evicted(fin)
  PROVE  /\ o \in ops \cap fin
         /\ \A p \in (ops \cap fin) \ {o} : ticket[o] < ticket[p] /\ p \notin Evicted(fin)
         /\ Cardinality(ops \ Evicted(fin)) < Limit
         /\ Cardinality(ops) = Limit /\ Evicted(fin) = {o}
<1> DEFINE settled == ops \cap fin
           older(q) == {p \in settled : ticket[p] < ticket[q]}
<1>1. IsFiniteSet(ops) /\ Cardinality(ops) \in Nat /\ Cardinality(ops) <= Limit
  BY RequestsAssumption, FS_Subset, FS_CardinalityType DEF QueueInv, QueueTypeOK, Bounded
<1>2. \A q \in settled : IsFiniteSet(older(q)) /\ Cardinality(older(q)) \in Nat
  BY <1>1, FS_Subset, FS_CardinalityType
<1>3. Cardinality(ops) = Limit
  <2>1. CASE Cardinality(ops) < Limit
    <3>1. Cardinality(older(o)) < 0
      BY <2>1, <1>1, LimitAssumption DEF Evicted
    <3> QED BY <3>1, <1>2 DEF Evicted
  <2> QED BY <2>1, <1>1, LimitAssumption
<1>4. \A q \in settled : q \in Evicted(fin) <=> Cardinality(older(q)) < 1
  BY <1>1, <1>3, LimitAssumption DEF Evicted
<1>5. \A q \in Evicted(fin) : q \in settled /\ older(q) = {}
  <2> SUFFICES ASSUME NEW q \in Evicted(fin) PROVE q \in settled /\ older(q) = {}
    OBVIOUS
  <2>1. q \in settled
    BY DEF Evicted
  <2>2. Cardinality(older(q)) = 0
    BY <2>1, <1>2, <1>4
  <2> QED BY <2>1, <2>2, <1>2, FS_EmptySet
<1>6. \A q \in settled : ticket[q] \in Nat /\ q \in Launched
  BY DEF QueueInv, QueueTypeOK, Known
<1>7. \A p \in settled \ {o} : ticket[o] < ticket[p]
  <2> SUFFICES ASSUME NEW p \in settled \ {o} PROVE ticket[o] < ticket[p]
    OBVIOUS
  <2>1. ~(ticket[p] < ticket[o])
    BY <1>5
  <2>2. ticket[p] # ticket[o]
    BY <1>5, <1>6 DEF Tickets
  <2> QED BY <2>1, <2>2, <1>5, <1>6
<1>8. \A p \in settled \ {o} : p \notin Evicted(fin)
  BY <1>5, <1>7
<1>9. Cardinality(ops \ Evicted(fin)) < Limit
  <2>1. ops \ Evicted(fin) = ops \ {o}
    BY <1>5, <1>8 DEF Evicted
  <2>2. Cardinality(ops \ {o}) = Cardinality(ops) - 1
    BY <1>1, <1>5, FS_RemoveElement
  <2>3. Limit > 0
    BY <1>3, <1>1, <1>5, FS_EmptySet, LimitAssumption
  <2>4. Cardinality(ops \ Evicted(fin)) = Cardinality(ops) - 1
    BY <2>1, <2>2, Zenon
  <2> HIDE DEF settled
  <2> QED BY <2>3, <2>4, <1>3, LimitAssumption
<1>10. Evicted(fin) = {o}
  BY <1>5, <1>8
<1> QED BY <1>3, <1>5, <1>7, <1>8, <1>9, <1>10

\* What a step may do to the queue, in the words of EvictionBuysASlot.
FairEviction ==
  \A o \in ops \ ops' :
    \/ o \in taken
    \/ \E r \in ops' \ ops :
         /\ state'[r] = "Ready"
         /\ o \in finished[r]
         /\ \A p \in (ops \cap finished[r]) \ {o} : p \in ops' /\ ticket[o] < ticket[p]

\* Every step treats the finished operations fairly.
LEMMA EvictionStep == QueueInv /\ Tickets /\ [QueueNext]_queueVars => FairEviction
<1> SUFFICES ASSUME QueueInv, Tickets, [QueueNext]_queueVars, NEW o \in ops, o \notin ops', o \notin taken
             PROVE  \E r \in ops' \ ops :
                      /\ state'[r] = "Ready"
                      /\ o \in finished[r]
                      /\ \A p \in (ops \cap finished[r]) \ {o} : p \in ops' /\ ticket[o] < ticket[p]
  BY DEF FairEviction
<1>1. PICK r \in Requests : Insert(r)
  BY DEF QueueNext, Request, Task, Collect, CheckCapacity, ProbeSnapshot, Probe, BuildFails, Snapshot, ScanState,
     CallTimesOut, Start, Finish, CollectBegin, CollectLook, CollectEnd, CollectTimesOut, queueVars
<1> DEFINE kept == ops \ Evicted(finished[r])
<1>2. finished[r] \in SUBSET Requests
  BY DEF QueueInv, QueueTypeOK
<1>3. ops' = kept \/ Push(r, kept)
  BY <1>1 DEF Insert
<1>4. o \in Evicted(finished[r])
  BY <1>3 DEF Push
<1>5. Cardinality(kept) < Limit
  BY <1>2, <1>4, EvictsOldest
<1>6. Push(r, kept)
  <2>1. Cardinality(kept) \in Nat
    BY RequestsAssumption, FS_Subset, FS_CardinalityType DEF QueueInv, QueueTypeOK
  <2>2. ~(Cardinality(kept) >= Limit)
    BY <2>1, <1>5, LimitAssumption
  <2> QED BY <1>1, <2>2 DEF Insert
<1>7. ops' = kept \cup {r} /\ state'[r] = "Ready"
  BY <1>6 DEF Push, QueueInv, QueueTypeOK
<1>8. r \notin ops
  BY <1>1 DEF Insert, QueueInv, LaunchedIffAccepted, Known
<1>9. o \in finished[r] /\ \A p \in (ops \cap finished[r]) \ {o} : p \in ops' /\ ticket[o] < ticket[p]
  BY <1>2, <1>4, <1>7, EvictsOldest
<1> QED BY <1>7, <1>8, <1>9

\* An uncollected result is thrown away by OperationQueue::insert only to
\* make room for an operation launched in the same step, and is the oldest
\* finished one that call had seen: for every number of calls and limit.
THEOREM EvictionFair == QueueSpec => EvictionBuysASlot
<1>1. QueueInit => Tickets
  BY DEF QueueInit, Tickets, Launched
<1>2. QueueInv /\ Tickets /\ [QueueNext]_queueVars => [FairEviction]_queueVars
  BY EvictionStep
<1> QED BY <1>1, <1>2, QueueStarts, QueueStep, TicketsStep, PTL DEF QueueSpec, EvictionBuysASlot, FairEviction

-----------------------------------------------------------------------------
\* What a caller sees is a function of the operations' states and the count of results.
LEMMA SeenUnchanged ==
  ASSUME UNCHANGED <<ops, state, returned>>
  PROVE  UNCHANGED Store!storeVars
BY DEF Store!storeVars, StatusSeen, HandedOut

\* The critical section of `insert` launches one operation, or changes nothing a caller sees.
LEMMA InsertLaunches ==
  ASSUME QueueInv, Tickets, NEW r \in Requests, Insert(r)
  PROVE  Store!Launch(r) \/ UNCHANGED Store!storeVars
<1> DEFINE fin == finished[r]
           kept == ops \ Evicted(fin)
<1>1. fin \in SUBSET Requests /\ ops \in SUBSET Requests /\ returned' = returned
  BY DEF QueueInv, QueueTypeOK, Insert, collectVars
<1>2. IsFiniteSet(ops) /\ Cardinality(ops) \in Nat
  BY <1>1, RequestsAssumption, FS_Subset, FS_CardinalityType
<1>3. Evicted(fin) = {} \/ \E o \in Evicted(fin) : TRUE
  OBVIOUS
<1>4. CASE Cardinality(kept) >= Limit
  <2>1. Cardinality(kept) \in Nat
    BY <1>2, FS_Subset, FS_CardinalityType
  <2>2. Evicted(fin) = {}
    <3>1. ASSUME NEW o \in Evicted(fin) PROVE FALSE
      <4>1. Cardinality(kept) < Limit
        BY <1>1, EvictsOldest
      <4> HIDE DEF kept
      <4> QED BY <4>1, <1>4, <2>1, LimitAssumption
    <3> QED BY <3>1
  <2>3. UNCHANGED <<ops, state, returned>>
    BY <1>1, <1>4, <2>2 DEF Insert
  <2> QED BY <2>3, SeenUnchanged
<1>5. CASE ~(Cardinality(kept) >= Limit)
  <2>1. ops' = kept \cup {r} /\ state' = [state EXCEPT ![r] = "Ready"]
    BY <1>5 DEF Insert, Push
  <2>2. state[r] = "None"
    BY DEF Insert, QueueInv, LaunchedIffAccepted, Launched
  <2>3. StatusSeen[r] = "none" /\ StatusSeen' = [StatusSeen EXCEPT ![r] = "running"]
    BY <2>1, <2>2 DEF StatusSeen, QueueInv, QueueTypeOK
  <2>4. HandedOut' = HandedOut
    BY <1>1 DEF HandedOut
  <2>5. \/ Cardinality(ops) < Limit /\ ops' = ops \cup {r}
        \/ \E settled \in ops : /\ Cardinality(ops) = Limit /\ StatusSeen[settled] = "done"
                             /\ ops' = (ops \ {settled}) \cup {r}
    <3>1. CASE Evicted(fin) = {}
      <4>1. kept = ops
        BY <3>1
      <4> QED BY <4>1, <1>2, <1>5, <2>1, LimitAssumption
    <3>2. ASSUME NEW o \in Evicted(fin)
          PROVE  \E settled \in ops : /\ Cardinality(ops) = Limit /\ StatusSeen[settled] = "done"
                                  /\ ops' = (ops \ {settled}) \cup {r}
      <4>1. o \in ops \cap fin /\ Cardinality(ops) = Limit /\ Evicted(fin) = {o}
        BY <1>1, EvictsOldest
      <4>2. IsFinished(o) /\ o \in Requests
        BY <4>1, <1>1 DEF QueueInv, Seen
      <4>3. StatusSeen[o] = "done"
        BY <4>2 DEF StatusSeen, IsFinished, FinishedStates
      <4> QED BY <4>1, <4>3, <2>1
    <3> QED BY <3>1, <3>2
  <2>6. \A S : Store!Cardinality(S) = Cardinality(S)
    BY Zenon DEF Store!Cardinality, Cardinality
  <2> QED BY <2>3, <2>4, <2>5, <2>6 DEF Store!Launch
<1> QED BY <1>4, <1>5

\* An operation's task completes it, or only starts it.
LEMMA TaskCompletes ==
  ASSUME QueueInv, NEW o \in Requests, Task(o)
  PROVE  Store!Complete(o) \/ UNCHANGED Store!storeVars
<1>1. UNCHANGED <<ops, returned>>
  BY DEF Task, Start, Finish, collectVars
<1>2. HandedOut' = HandedOut
  BY <1>1 DEF HandedOut
<1>3. CASE Start(o)
  <2>1. state[o] = "Ready" /\ state' = [state EXCEPT ![o] = "Executing"]
    BY <1>3 DEF Start
  <2>2. StatusSeen' = StatusSeen
    BY <2>1 DEF StatusSeen, QueueInv, QueueTypeOK
  <2> QED BY <1>1, <1>2, <2>2 DEF Store!storeVars
<1>4. CASE Finish(o)
  <2>1. PICK s \in {"Success", "Failed"} : state' = [state EXCEPT ![o] = s]
    BY <1>4 DEF Finish
  <2>2. state[o] = "Executing"
    BY <1>4 DEF Finish
  <2>3. StatusSeen[o] = "running" /\ StatusSeen' = [StatusSeen EXCEPT ![o] = "done"]
    BY <2>1, <2>2 DEF StatusSeen, QueueInv, QueueTypeOK
  <2> QED BY <1>1, <1>2, <2>3 DEF Store!Complete
<1> QED BY <1>3, <1>4 DEF Task

\* The end of a collection hands out what was gathered; the rest of it shows nothing.
LEMMA CollectHandsOut ==
  ASSUME QueueInv, Collect
  PROVE  (\E os \in SUBSET Requests : Store!HandOut(os)) \/ UNCHANGED Store!storeVars
<1>1. CASE CollectBegin \/ CollectLook \/ CollectTimesOut
  BY <1>1, SeenUnchanged DEF CollectBegin, CollectLook, CollectTimesOut
<1>2. CASE CollectEnd
  <2>1. /\ ops' = ops \ taken /\ state' = state
        /\ returned' = [o \in Requests |-> IF o \in taken THEN returned[o] + 1 ELSE returned[o]]
    BY <1>2 DEF CollectEnd
  <2>2. taken \in SUBSET Requests
    BY DEF QueueInv, QueueTypeOK
  <2>3. StatusSeen' = StatusSeen
    BY <2>1 DEF StatusSeen
  <2>4. HandedOut' = HandedOut \cup taken
    BY <2>1, <2>2 DEF HandedOut, QueueInv, QueueTypeOK
  <2>5. \A o \in taken : o \in ops /\ StatusSeen[o] = "done" /\ o \notin HandedOut
    BY <2>2 DEF QueueInv, Seen, CollectedAtMostOnce, QueueTypeOK, HandedOut, StatusSeen, IsFinished,
         FinishedStates
  <2>6. Store!HandOut(taken)
    BY <2>1, <2>3, <2>4, <2>5 DEF Store!HandOut
  <2> QED BY <2>2, <2>6
<1> QED BY <1>1, <1>2 DEF Collect

\* OperationQueue implements OperationStore: for any number of calls and any limit, every step of
\* insert, collect_finished and the operations' tasks is a step of the store, or is not seen.
THEOREM QueueImplementsStore == QueueSpec => ImplementsStore
<1>1. QueueInit => Store!StoreInit
  BY DEF QueueInit, Store!StoreInit, StatusSeen, HandedOut
<1>2. QueueInit => Tickets
  BY DEF QueueInit, Tickets, Launched
<1>3. QueueInv /\ Tickets /\ [QueueNext]_queueVars => [Store!StoreNext]_(Store!storeVars)
  <2> SUFFICES ASSUME QueueInv, Tickets, [QueueNext]_queueVars
               PROVE  Store!StoreNext \/ UNCHANGED Store!storeVars
    OBVIOUS
  <2>1. CASE UNCHANGED queueVars
    BY <2>1, SeenUnchanged DEF queueVars
  <2>2. ASSUME NEW r \in Requests, Insert(r) PROVE Store!StoreNext \/ UNCHANGED Store!storeVars
    BY <2>2, InsertLaunches DEF Store!StoreNext
  <2>3. ASSUME NEW r \in Requests, Request(r), ~Insert(r) PROVE UNCHANGED Store!storeVars
    BY <2>3, SeenUnchanged DEF Request, CheckCapacity, ProbeSnapshot, Probe, BuildFails, Snapshot,
         ScanState, CallTimesOut, collectVars
  <2>4. ASSUME NEW o \in Requests, Task(o) PROVE Store!StoreNext \/ UNCHANGED Store!storeVars
    BY <2>4, TaskCompletes DEF Store!StoreNext
  <2>5. CASE Collect
    BY <2>5, CollectHandsOut DEF Store!StoreNext
  <2> QED BY <2>1, <2>2, <2>3, <2>4, <2>5 DEF QueueNext
<1> QED BY <1>1, <1>2, <1>3, QueueStarts, QueueStep, TicketsStep, PTL
        DEF QueueSpec, ImplementsStore, Store!StoreSpec
-----------------------------------------------------------------------------
(***************************************************************************)
(* The locking discipline of the keystore, for any number of calls, as     *)
(* long as the RPC timeout drops no request that holds the mutex.          *)
(***************************************************************************)
\* The critical section of KeyStore::unlock and KeyStore::lock.
Holder == \A c \in Calls : at[c] \in {"join", "write"} => mutex = c

\* Who may still have a re-lock task running.
Owner ==
  /\ \A c \in Calls : at[c] # "done" => task[c] = "none"
  /\ \A c \in killed : task[c] # "none"
  /\ slot # NoCall => task[slot] # "none"
  /\ mutex = NoCall => slot \notin killed
  /\ mutex # NoCall => slot = NoCall
  /\ \A c \in Calls : Running(c) =>
       \/ mutex = NoCall /\ slot = c
       \/ mutex # NoCall /\ at[mutex] = "join" /\ old[mutex] = c

\* Whose key material is in memory.
Material ==
  /\ mutex = NoCall /\ identities # NoCall => slot = identities /\ Running(slot)
  /\ mutex # NoCall /\ at[mutex] = "join" => identities \in {old[mutex], NoCall}

\* The inductive invariant.
LockInv == LockTypeOK /\ Holder /\ Owner /\ Material

\* What holds until a request is dropped with the mutex held; that some request
\* was dropped stays true for good.
IInv == LockTypeOK /\ Holder /\ (NoneDropped => Owner /\ Material)

USE DEF Running, IsLocked, taskVars

\* The locked keystore satisfies the invariant.
LEMMA LockStarts == Encrypted /\ LockInit => LockInv
BY CallsAssumption DEF LockInit, LockInv, LockTypeOK, Holder, Owner, Material

\* Every step keeps the state well formed and the critical section exclusive.
LEMMA NextType == LockTypeOK /\ Holder /\ [LockNext]_lockVars => LockTypeOK' /\ Holder'
<1> SUFFICES ASSUME LockTypeOK, Holder, [LockNext]_lockVars PROVE LockTypeOK' /\ Holder'
  OBVIOUS
<1>1. ASSUME NEW c \in Calls, Refuse(c) \/ Begin(c) \/ TakeSlot(c) \/ Join(c) PROVE LockTypeOK' /\ Holder'
  BY <1>1, CallsAssumption DEF Refuse, Begin, TakeSlot, Join, LockTypeOK, Holder
<1>2. ASSUME NEW c \in Calls, UnlockWrite(c) \/ LockWrite(c) PROVE LockTypeOK' /\ Holder'
  BY <1>2, CallsAssumption DEF UnlockWrite, LockWrite, LockTypeOK, Holder
<1>3. ASSUME NEW c \in Calls, CallDropped(c) PROVE LockTypeOK' /\ Holder'
  BY <1>3, CallsAssumption DEF CallDropped, LockTypeOK, Holder
<1>4. ASSUME NEW c \in Calls, Wake(c) \/ Relock(c) \/ Cancelled(c) PROVE LockTypeOK' /\ Holder'
  BY <1>4 DEF Wake, Relock, Cancelled, LockTypeOK, Holder
<1>5. ASSUME NEW r \in Readers, ReadBegin(r) \/ ReadEnd(r) PROVE LockTypeOK' /\ Holder'
  BY <1>5 DEF ReadBegin, ReadEnd, LockTypeOK, Holder
<1>6. CASE UNCHANGED lockVars
  BY <1>6 DEF lockVars, LockTypeOK, Holder
<1> QED BY <1>1, <1>2, <1>3, <1>4, <1>5, <1>6 DEF LockNext, Call, Timer

\* A request that times out without ending the era of NoneDropped was still
\* waiting for the mutex.
LEMMA HarmlessTimeout ==
  ASSUME LockInv, NoneDropped', NEW c \in Calls, CallDropped(c)
  PROVE  /\ at[c] = "mutex" /\ at' = [at EXCEPT ![c] = "timedout"] /\ mutex # c
         /\ UNCHANGED <<kind, identities, mutex, slot, task, killed, old, reading>>
<1>1. at[c] = "mutex"
  BY DEF CallDropped, NoneDropped, LockInv, LockTypeOK
<1>2. mutex # c
  BY <1>1, CallsAssumption DEF LockInv, LockTypeOK
<1>3. at' = [at EXCEPT ![c] = "timedout"]
  BY <1>1 DEF CallDropped, LockInv, LockTypeOK
<1> QED BY <1>1, <1>2, <1>3 DEF CallDropped

\* Every step keeps at most one re-lock task alive, in the slot or awaited.
LEMMA NextOwner == NoneDropped' /\ LockInv /\ [LockNext]_lockVars => Owner'
<1> SUFFICES ASSUME NoneDropped', LockInv, [LockNext]_lockVars PROVE Owner'
  OBVIOUS
<1>1. ASSUME NEW c \in Calls, Refuse(c) \/ Begin(c) PROVE Owner'
  BY <1>1, CallsAssumption DEF Refuse, Begin, LockInv, LockTypeOK, Holder, Owner
<1>2. ASSUME NEW c \in Calls, TakeSlot(c) PROVE Owner'
  BY <1>2, CallsAssumption DEF TakeSlot, LockInv, LockTypeOK, Holder, Owner
<1>3. ASSUME NEW c \in Calls, Join(c) PROVE Owner'
  BY <1>3, CallsAssumption DEF Join, LockInv, LockTypeOK, Holder, Owner
<1>4. ASSUME NEW c \in Calls, UnlockWrite(c) PROVE Owner'
  <2>1. mutex = c /\ c # NoCall /\ task[c] = "none" /\ c \notin killed
    BY <1>4, CallsAssumption DEF UnlockWrite, LockInv, LockTypeOK, Holder, Owner
  <2>2. \A d \in Calls : ~Running(d)
    BY <1>4, <2>1 DEF UnlockWrite, LockInv, Holder, Owner
  <2>3. /\ mutex' = NoCall /\ slot' = c /\ killed' = killed
        /\ task' = [task EXCEPT ![c] = "sleeping"] /\ at' = [at EXCEPT ![c] = "done"]
    BY <1>4 DEF UnlockWrite
  <2>4. \A d \in Calls : d # c => at'[d] \notin {"join", "write"} /\ task'[d] = task[d] /\ at'[d] = at[d]
    BY <2>1, <2>3 DEF LockInv, LockTypeOK, Holder, Owner
  <2>5. task'[c] = "sleeping" /\ at'[c] = "done"
    BY <2>3 DEF LockInv, LockTypeOK
  <2> QED BY <2>1, <2>2, <2>3, <2>4, <2>5 DEF LockInv, LockTypeOK, Holder, Owner
<1>5. ASSUME NEW c \in Calls, LockWrite(c) PROVE Owner'
  <2>1. mutex = c /\ c # NoCall
    BY <1>5, CallsAssumption DEF LockWrite, LockInv, LockTypeOK, Holder, Owner
  <2>2. \A d \in Calls : ~Running(d)
    BY <1>5, <2>1 DEF LockWrite, LockInv, Holder, Owner
  <2>3. /\ mutex' = NoCall /\ slot' = NoCall /\ UNCHANGED <<killed, task>>
        /\ at' = [at EXCEPT ![c] = "done"]
    BY <1>5, <2>1 DEF LockWrite, LockInv, Holder, Owner
  <2> QED BY <2>1, <2>2, <2>3, CallsAssumption DEF LockInv, LockTypeOK, Holder, Owner
<1>6. ASSUME NEW c \in Calls, Wake(c) \/ Relock(c) \/ Cancelled(c) PROVE Owner'
  BY <1>6, CallsAssumption DEF Wake, Relock, Cancelled, LockInv, LockTypeOK, Holder, Owner
<1>7. ASSUME NEW r \in Readers, ReadBegin(r) \/ ReadEnd(r) PROVE Owner'
  BY <1>7 DEF ReadBegin, ReadEnd, LockInv, Owner
<1>8. ASSUME NEW c \in Calls, CallDropped(c) PROVE Owner'
  BY <1>8, HarmlessTimeout DEF LockInv, LockTypeOK, Owner
<1>9. CASE UNCHANGED lockVars
  BY <1>9 DEF lockVars, LockInv, Owner
<1> QED BY <1>1, <1>2, <1>3, <1>4, <1>5, <1>6, <1>7, <1>8, <1>9 DEF LockNext, Call, Timer

\* Every step keeps the key material tied to the task that will clear it.
LEMMA NextMaterial == NoneDropped' /\ LockInv /\ [LockNext]_lockVars => Material'
<1> SUFFICES ASSUME NoneDropped', LockInv, [LockNext]_lockVars PROVE Material'
  OBVIOUS
<1>1. ASSUME NEW c \in Calls, Refuse(c) \/ Begin(c) PROVE Material'
  BY <1>1, CallsAssumption DEF Refuse, Begin, LockInv, LockTypeOK, Holder, Owner, Material
<1>2. ASSUME NEW c \in Calls, TakeSlot(c) PROVE Material'
  BY <1>2, CallsAssumption DEF TakeSlot, LockInv, LockTypeOK, Holder, Owner, Material
<1>3. ASSUME NEW c \in Calls, Join(c) PROVE Material'
  BY <1>3, CallsAssumption DEF Join, LockInv, LockTypeOK, Holder, Owner, Material
<1>4. ASSUME NEW c \in Calls, UnlockWrite(c) \/ LockWrite(c) PROVE Material'
  BY <1>4, CallsAssumption DEF UnlockWrite, LockWrite, LockInv, LockTypeOK, Holder, Owner, Material
<1>5. ASSUME NEW c \in Calls, Wake(c) \/ Relock(c) \/ Cancelled(c) PROVE Material'
  BY <1>5, CallsAssumption DEF Wake, Relock, Cancelled, LockInv, LockTypeOK, Holder, Owner, Material
<1>6. ASSUME NEW r \in Readers, ReadBegin(r) \/ ReadEnd(r) PROVE Material'
  BY <1>6 DEF ReadBegin, ReadEnd, LockInv, Material
<1>7. ASSUME NEW c \in Calls, CallDropped(c) PROVE Material'
  BY <1>7, HarmlessTimeout DEF LockInv, LockTypeOK, Material
<1>8. CASE UNCHANGED lockVars
  BY <1>8 DEF lockVars, LockInv, Material
<1> QED BY <1>1, <1>2, <1>3, <1>4, <1>5, <1>6, <1>7, <1>8 DEF LockNext, Call, Timer

\* The only steps that clear the identities are the timer of the unlock that
\* loaded them and an explicit lock.
ClearedRightly ==
  (NoneDropped /\ ~IsLocked /\ IsLocked') =>
    \/ task[identities] = "waking" /\ task'[identities] = "finished"
    \/ \E c \in Calls : kind[c] = "lock" /\ at[c] = "write" /\ at'[c] = "done"

\* Every step clears the identities rightly, if at all.
LEMMA NextClears == IInv /\ [LockNext]_lockVars => ClearedRightly
<1> SUFFICES ASSUME LockInv, [LockNext]_lockVars, ~IsLocked, IsLocked'
             PROVE  \/ task[identities] = "waking" /\ task'[identities] = "finished"
                    \/ \E c \in Calls : kind[c] = "lock" /\ at[c] = "write" /\ at'[c] = "done"
  BY DEF ClearedRightly, IInv, LockInv
<1>1. ASSUME NEW c \in Calls, LockWrite(c)
      PROVE  kind[c] = "lock" /\ at[c] = "write" /\ at'[c] = "done"
  BY <1>1 DEF LockWrite, LockInv, LockTypeOK
<1>2. ASSUME NEW c \in Calls, Relock(c)
      PROVE  task[identities] = "waking" /\ task'[identities] = "finished"
  <2>1. c = identities
    BY <1>2, CallsAssumption DEF Relock, LockInv, LockTypeOK, Holder, Owner, Material
  <2> QED BY <1>2, <2>1 DEF Relock, LockInv, LockTypeOK
<1>3. \E c \in Calls : LockWrite(c) \/ Relock(c)
  BY CallsAssumption DEF LockNext, Call, Timer, Refuse, Begin, TakeSlot, Join, UnlockWrite, CallDropped,
     Wake, Cancelled, ReadBegin, ReadEnd, lockVars, LockInv, LockTypeOK
<1> QED BY <1>1, <1>2, <1>3

\* With encrypted identities, for any number of calls, readers and timeouts:
\* until a request is dropped with the mutex held, unlocked key material has a
\* live re-lock task whenever unlocked_until can answer, and no task clears
\* what a later unlock has loaded.
THEOREM RelockDiscipline ==
  Encrypted => (LockSpec => [](LockTypeOK /\ UnlockedHasDeadline) /\ OnlyOwnTimeoutLocks)
<1> SUFFICES ASSUME Encrypted PROVE LockSpec => [](LockTypeOK /\ UnlockedHasDeadline) /\ OnlyOwnTimeoutLocks
  OBVIOUS
<1>1. LockInit => IInv
  BY LockStarts DEF IInv, LockInv
<1>2. IInv /\ [LockNext]_lockVars => IInv'
  <2>1. LockTypeOK /\ [LockNext]_lockVars /\ NoneDropped' => NoneDropped
    BY DEF LockTypeOK, NoneDropped, LockNext, Call, Timer, Refuse, Begin, TakeSlot, Join, UnlockWrite,
       LockWrite, CallDropped, Wake, Relock, Cancelled, ReadBegin, ReadEnd, lockVars
  <2> QED BY <2>1, NextType, NextOwner, NextMaterial DEF IInv, LockInv
<1>3. IInv => LockTypeOK /\ UnlockedHasDeadline
  BY DEF IInv, Material, UnlockedHasDeadline, HasDeadline
<1>4. IInv /\ [LockNext]_lockVars => [ClearedRightly]_lockVars
  BY NextClears
<1> QED BY <1>1, <1>2, <1>3, <1>4, PTL DEF LockSpec, OnlyOwnTimeoutLocks, ClearedRightly
=============================================================================
