------------------------------ MODULE AsyncOps ------------------------------
(***************************************************************************)
(* The asynchronous-operation queue behind `z_sendmany`,                   *)
(* `z_shieldcoinbase`, `z_getoperationresult` (json_rpc/asyncop.rs).       *)
(*                                                                         *)
(* Each element of Requests is one spend RPC call together with the        *)
(* operation it may launch: the two are identified by the same name, since *)
(* a call launches at most one operation.  `OperationQueue::ops` is a      *)
(* vector that is only pushed to and filtered, so its order is insertion   *)
(* order: the model keeps the set of queued operations and each one's      *)
(* insertion ticket.  `OperationQueue::insert` reads operation states      *)
(* before it takes the write lock, one at a time and without the queue     *)
(* lock: those reads are separate steps here.                              *)
(***************************************************************************)
EXTENDS Naturals, FiniteSets

CONSTANTS Requests,   \* the spend RPC calls
          Limit       \* OperationQueue::limit

ASSUME LimitAssumption == Limit \in Nat
ASSUME RequestsAssumption == IsFiniteSet(Requests)

VARIABLES
  pc,          \* where each RPC call is
  unread,      \* operations of a call's snapshot whose state it has not read yet
  finished,    \* operations the call's `finished_ids` found finished
  ops,         \* the operations in the queue
  ticket,      \* insertion order of the operations launched so far
  state,       \* OperationData::state, "None" before the operation exists
  collecting,  \* a `collect_finished` holds the queue's write lock
  wanted,      \* operations that collection has still to look at
  taken,       \* statuses it has gathered
  returned     \* how often each operation's result was handed out

queueVars == <<pc, unread, finished, ops, ticket, state, collecting, wanted, taken,
          returned>>
collectVars == <<collecting, wanted, taken, returned>>

\* OperationState and is_finished.
FinishedStates == {"Cancelled", "Failed", "Success"}
States == {"None", "Ready", "Executing"} \cup FinishedStates
IsFinished(o) == state[o] \in FinishedStates

Launched == {o \in Requests : state[o] # "None"}

QueueInit ==
  /\ pc = [r \in Requests |-> "idle"]
  /\ unread = [r \in Requests |-> {}]
  /\ finished = [r \in Requests |-> {}]
  /\ ops = {}
  /\ ticket = [r \in Requests |-> 0]
  /\ state = [r \in Requests |-> "None"]
  /\ collecting = FALSE
  /\ wanted = {}
  /\ taken = {}
  /\ returned = [r \in Requests |-> 0]

-----------------------------------------------------------------------------
(* The RPC call: check_capacity, build the proposal, insert.               *)

\* `check_capacity`: with room in the queue the call goes on to build its
\* proposal, otherwise it asks `any_finished`.
CheckCapacity(r) ==
  /\ pc[r] = "idle"
  /\ ~collecting
  /\ pc' = [pc EXCEPT ![r] = IF Cardinality(ops) < Limit THEN "build" ELSE "full"]
  /\ UNCHANGED <<unread, finished, ops, ticket, state, collectVars>>

\* `any_finished` takes the queue lock anew, for a snapshot in which to look
\* for an evictable operation.
ProbeSnapshot(r) ==
  /\ pc[r] = "full"
  /\ ~collecting
  /\ pc' = [pc EXCEPT ![r] = "probe"]
  /\ unread' = [unread EXCEPT ![r] = ops]
  /\ UNCHANGED <<finished, ops, ticket, state, collectVars>>

\* `any_finished`, one state at a time, the queue lock released.
Probe(r) ==
  /\ pc[r] = "probe"
  /\ IF unread[r] = {}
       THEN /\ pc' = [pc EXCEPT ![r] = "rejected"]
            /\ UNCHANGED unread
       ELSE \E o \in unread[r] :
              IF IsFinished(o)
                THEN /\ pc' = [pc EXCEPT ![r] = "build"]
                     /\ unread' = [unread EXCEPT ![r] = {}]
                ELSE /\ unread' = [unread EXCEPT ![r] = @ \ {o}]
                     /\ UNCHANGED pc
  /\ UNCHANGED <<finished, ops, ticket, state, collectVars>>

\* `z_send_many::call` returns an error: nothing reaches the queue.
BuildFails(r) ==
  /\ pc[r] = "build"
  /\ pc' = [pc EXCEPT ![r] = "rejected"]
  /\ UNCHANGED <<unread, finished, ops, ticket, state, collectVars>>

\* The call succeeded; `insert` starts `finished_ids` with a snapshot of the
\* queue.
Snapshot(r) ==
  /\ pc[r] = "build"
  /\ ~collecting
  /\ pc' = [pc EXCEPT ![r] = "scan"]
  /\ unread' = [unread EXCEPT ![r] = ops]
  /\ UNCHANGED <<finished, ops, ticket, state, collectVars>>

\* `finished_ids` reads one operation's state.
ScanState(r) ==
  /\ pc[r] = "scan"
  /\ \E o \in unread[r] :
       /\ unread' = [unread EXCEPT ![r] = @ \ {o}]
       /\ finished' = [finished EXCEPT ![r] =
                         IF IsFinished(o) THEN @ \cup {o} ELSE @]
  /\ UNCHANGED <<pc, ops, ticket, state, collectVars>>

\* Variants of the eviction below that ignore the snapshot, or the count.
EvictedOldest(fin) ==
  {o \in ops : Cardinality(ops) >= Limit /\ \A p \in ops : ticket[o] <= ticket[p]}
EvictedAll(fin) == IF Cardinality(ops) >= Limit THEN ops \cap fin ELSE {}

\* The operations `ops.retain` drops: the `excess` oldest of those found
\* finished, where `excess` is what would put the queue over its limit.
Evicted(fin) ==
  LET excess == IF Cardinality(ops) >= Limit
                  THEN (Cardinality(ops) + 1) - Limit ELSE 0
      old    == ops \cap fin
  IN  {o \in old : Cardinality({p \in old : ticket[p] < ticket[o]}) < excess}

\* `AsyncOperation::new` spawns the task and the operation is pushed.
Push(r, kept) ==
  /\ ops' = kept \cup {r}
  /\ pc' = [pc EXCEPT ![r] = "accepted"]
  /\ ticket' = [ticket EXCEPT ![r] = Cardinality(Launched) + 1]
  /\ state' = [state EXCEPT ![r] = "Ready"]

\* Variants of the critical section below: no second length check, the
\* operation launched before its slot is certain, and no rejection at all.
InsertNoRecheck(r) ==
  /\ pc[r] = "scan" /\ unread[r] = {} /\ ~collecting
  /\ Push(r, ops \ Evicted(finished[r]))
  /\ UNCHANGED <<unread, finished, collectVars>>

InsertLaunchFirst(r) ==
  /\ pc[r] = "scan" /\ unread[r] = {} /\ ~collecting
  /\ LET kept == ops \ Evicted(finished[r]) IN
       IF Cardinality(kept) >= Limit
         THEN /\ ops' = kept
              /\ pc' = [pc EXCEPT ![r] = "rejected"]
              /\ state' = [state EXCEPT ![r] = "Ready"]
              /\ UNCHANGED ticket
         ELSE Push(r, kept)
  /\ UNCHANGED <<unread, finished, collectVars>>

InsertWaits(r) ==
  /\ pc[r] = "scan" /\ unread[r] = {} /\ ~collecting
  /\ LET kept == ops \ Evicted(finished[r]) IN
       Cardinality(kept) < Limit /\ Push(r, kept)
  /\ UNCHANGED <<unread, finished, collectVars>>

\* The critical section of `insert`: evict, reject if still full, otherwise
\* launch the operation and push it.
Insert(r) ==
  /\ pc[r] = "scan"
  /\ unread[r] = {}
  /\ ~collecting
  /\ LET kept == ops \ Evicted(finished[r]) IN
       IF Cardinality(kept) >= Limit
         THEN /\ ops' = kept
              /\ pc' = [pc EXCEPT ![r] = "rejected"]
              /\ UNCHANGED <<ticket, state>>
         ELSE Push(r, kept)
  /\ UNCHANGED <<unread, finished, collectVars>>

\* The HTTP middleware's `timeout` drops the handler's future at the await
\* it is suspended in; what it had gathered is forgotten.
CallTimesOut(r) ==
  /\ pc[r] \in {"full", "probe", "build", "scan"}
  /\ pc' = [pc EXCEPT ![r] = "timedout"]
  /\ UNCHANGED <<unread, finished, ops, ticket, state, collectVars>>

-----------------------------------------------------------------------------
(* The operation's own task (AsyncOperation::new).                         *)

Start(o) ==
  /\ state[o] = "Ready"
  /\ state' = [state EXCEPT ![o] = "Executing"]
  /\ UNCHANGED <<pc, unread, finished, ops, ticket, collectVars>>

\* A variant of Finish that lets a panic kill the task before it records
\* anything.
FinishNoCatch(o) ==
  /\ state[o] = "Executing"
  /\ \E s \in {"Success", "Failed", "Panicked"} :
       state' = [state EXCEPT ![o] = s]
  /\ UNCHANGED <<pc, unread, finished, ops, ticket, collectVars>>

\* The future resolved; an error, a serialization failure and a caught panic
\* are all recorded as "Failed".
Finish(o) ==
  /\ state[o] = "Executing"
  /\ \E s \in {"Success", "Failed"} : state' = [state EXCEPT ![o] = s]
  /\ UNCHANGED <<pc, unread, finished, ops, ticket, collectVars>>

-----------------------------------------------------------------------------
(* z_getoperationresult: collect_finished, holding the write lock.         *)

\* An empty `operationid` list selects every operation, any other list the
\* operations it names.
CollectBegin ==
  /\ ~collecting
  /\ \E ids \in SUBSET Requests :
       wanted' = IF ids = {} THEN ops ELSE ops \cap ids
  /\ collecting' = TRUE
  /\ taken' = {}
  /\ UNCHANGED <<pc, unread, finished, ops, ticket, state, returned>>

\* One turn of the loop: the operation's state is read, and read again by
\* `to_status`; the operation may finish between two turns.
CollectLook ==
  /\ collecting
  /\ \E o \in wanted :
       /\ wanted' = wanted \ {o}
       /\ taken' = IF IsFinished(o) THEN taken \cup {o} ELSE taken
  /\ UNCHANGED <<pc, unread, finished, ops, ticket, state, collecting, returned>>

\* A variant of CollectEnd that returns the results and keeps the operations.
CollectEndKeeps ==
  /\ collecting
  /\ wanted = {}
  /\ returned' = [o \in Requests |-> IF o \in taken THEN returned[o] + 1
                                                    ELSE returned[o]]
  /\ collecting' = FALSE
  /\ taken' = {}
  /\ UNCHANGED <<pc, unread, finished, ops, ticket, state, wanted>>

\* The queue drops what was gathered, and the lock is released.
CollectEnd ==
  /\ collecting
  /\ wanted = {}
  /\ ops' = ops \ taken
  /\ returned' = [o \in Requests |-> IF o \in taken THEN returned[o] + 1
                                                    ELSE returned[o]]
  /\ collecting' = FALSE
  /\ taken' = {}
  /\ UNCHANGED <<pc, unread, finished, ticket, state, wanted>>

\* The middleware drops a collection while it waits for an operation's state:
\* the lock is released, the gathered statuses are lost with the response, and
\* nothing has left the queue.
CollectTimesOut ==
  /\ collecting
  /\ wanted # {}
  /\ collecting' = FALSE
  /\ wanted' = {}
  /\ taken' = {}
  /\ UNCHANGED <<pc, unread, finished, ops, ticket, state, returned>>

-----------------------------------------------------------------------------
Request(r) == \/ CheckCapacity(r) \/ ProbeSnapshot(r) \/ Probe(r) \/ BuildFails(r)
              \/ Snapshot(r) \/ ScanState(r) \/ Insert(r)
              \/ CallTimesOut(r)
Task(o) == Start(o) \/ Finish(o)
Collect == CollectBegin \/ CollectLook \/ CollectEnd \/ CollectTimesOut

QueueNext == \/ \E r \in Requests : Request(r) \/ Task(r)
        \/ Collect

QueueSpec == QueueInit /\ [][QueueNext]_queueVars

\* The runtime keeps polling spawned tasks and RPC handlers, and tokio's
\* RwLock is granted in FIFO order, so a call that waits for the queue lock
\* gets it between two collections.  Nothing obliges a client to collect.
QueueFairness ==
  /\ \A r \in Requests :
       /\ SF_queueVars(CheckCapacity(r) \/ ProbeSnapshot(r) \/ Snapshot(r) \/ Insert(r))
       /\ WF_queueVars(Probe(r) \/ ScanState(r))
       /\ WF_queueVars(Task(r))
  /\ WF_queueVars(CollectLook \/ CollectEnd)

QueueFairSpec == QueueSpec /\ QueueFairness

-----------------------------------------------------------------------------
(* Properties.                                                             *)

\* Calls, queue and operations only take the states of OperationQueue and
\* OperationState; an operation whose task panicked has one of them as well.
QueueTypeOK ==
  /\ pc \in [Requests -> {"idle", "full", "probe", "build", "scan", "accepted", "rejected",
                          "timedout"}]
  /\ unread \in [Requests -> SUBSET Requests]
  /\ finished \in [Requests -> SUBSET Requests]
  /\ ops \subseteq Requests
  /\ ticket \in [Requests -> Nat]
  /\ state \in [Requests -> States]
  /\ collecting \in BOOLEAN
  /\ wanted \subseteq Requests
  /\ taken \subseteq Requests
  /\ returned \in [Requests -> Nat]

\* "A bounded queue of async operations": however the calls interleave, and
\* however stale their snapshots of finished operations are when they take
\* the write lock, the queue never holds more than its limit.
Bounded == Cardinality(ops) <= Limit

\* Eviction and collection never lose work in flight: every operation that
\* has been launched and has not finished is still in the queue, so its
\* caller can follow it (`insert` evicts from a snapshot taken earlier,
\* `collect_finished` removes what it saw finished).
InFlightTracked == \A o \in Launched : ~IsFinished(o) => o \in ops

\* "concurrent calls cannot collect the same result twice": a result is
\* handed out at most once, and never while the operation is still queued
\* for another collection.
CollectedAtMostOnce ==
  \A o \in Requests : returned[o] <= 1 /\ (returned[o] = 1 => o \notin ops)

\* A rejected call launched nothing ("does not launch the operation"), an
\* accepted one did.
LaunchedIffAccepted ==
  \A r \in Requests : pc[r] = "accepted" <=> r \in Launched

\* An uncollected result is only ever thrown away to make room for an
\* operation that is then really launched: no step of `insert` evicts and
\* rejects at once, and each insertion evicts at most one result, the oldest
\* of the finished operations it knows of.
EvictionBuysASlot ==
  [][\A o \in ops \ ops' :
       \/ o \in taken
       \/ \E r \in ops' \ ops :
            /\ state'[r] = "Ready"
            /\ o \in finished[r]
            /\ \A p \in (ops \cap finished[r]) \ {o} :
                 p \in ops' /\ ticket[o] < ticket[p]]_queueVars

\* Every operation AsyncOperation::new launches reaches a finished state, a
\* panic of its task included.
EveryOperationFinishes ==
  \A o \in Requests : (state[o] = "Ready") ~> IsFinished(o)

\* Every spend call is answered, although check_capacity, finished_ids and
\* insert wait for the queue lock while results are collected under it.
EveryCallAnswered ==
  \A r \in Requests :
    (pc[r] # "idle") ~> (pc[r] \in {"accepted", "rejected", "timedout"})

\* What a caller of the queue sees of an operation's state.
StatusSeen ==
  [o \in Requests |-> CASE state[o] = "None" -> "none"
                        [] state[o] \in {"Ready", "Executing"} -> "running"
                        [] OTHER -> "done"]

HandedOut == {o \in Requests : returned[o] > 0}

Store == INSTANCE OperationStore WITH
  Operations <- Requests, status <- StatusSeen, stored <- ops, handed <- HandedOut

\* With its locks taken and released, its stale snapshots and its dropped calls, the queue still
\* does what OperationStore promises: it holds at most its limit, forgets a finished operation only
\* to launch another, never one in flight, hands each result out once, and launches only what it
\* stores (`insert`, `collect_finished`).
ImplementsStore == Store!StoreSpec
=============================================================================
