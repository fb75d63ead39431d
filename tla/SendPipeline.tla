---------------------------- MODULE SendPipeline ----------------------------
(***************************************************************************)
(* What the spending RPC calls share while they run concurrently: the      *)
(* wallet's inputs (which a proposal does not lock), the pool of database  *)
(* handles, the proving slots, the keystore's lock and the node they       *)
(* broadcast to.                                                           *)
(*                                                                         *)
(* A call is z_sendmany ("many"), z_shieldcoinbase ("shield"),             *)
(* z_sendfromaccount ("from") or pczt_prove ("prove").  pc says at which   *)
(* await its future is.  The first two end their RPC by queueing an        *)
(* operation; everything before that, and the whole of the other two, runs *)
(* under the server's timeout, which drops the future where it stands.  A  *)
(* closure given to spawn_blocking is not dropped with it: task[c] is the  *)
(* one of call c that still runs, with the handle moved into it.           *)
(*                                                                         *)
(* Transaction <<c, i>> is the one of step i of call c's proposal.  The    *)
(* first spends the chosen inputs, the second (ZIP 320) an output of the   *)
(* first.                                                                  *)
(***************************************************************************)
EXTENDS Naturals, FiniteSets, FiniteSetsExt

CONSTANTS
  Calls,          \* the calls made, at most one future each
  Inputs,         \* the notes and coins the wallet can spend
  Kinds,          \* the methods called
  PoolSize,       \* connections of the pool that the sync tasks leave over
  ProvingSlots,   \* PROVING_SLOTS
  MaxLocks        \* bound: how often the wallet is locked or unlocked

ASSUME SendPipelineAssumption ==
  /\ Kinds \subseteq {"many", "shield", "from", "prove"}
  /\ PoolSize \in Nat \ {0} /\ ProvingSlots \in Nat \ {0}
  /\ MaxLocks \in Nat

VARIABLES
  broadcast,       \* external.broadcast
  kind, pc,
  chosen, steps,   \* [Calls -> inputs], [Calls -> 0..2]: the proposal
  handles,         \* [Calls -> Nat]: handles the future holds
  task,            \* [Calls -> job]: the call's blocking closure
  stored, expired, \* transactions recorded in the wallet, and expired unmined
  verified,        \* calls whose transactions passed check_transparent_outputs
  net,             \* transactions the node accepted
  locked, locks

sendVars == <<broadcast, kind, pc, chosen, steps, handles, task, stored, expired, verified, net, locked, locks>>
proposalVars == <<broadcast, kind, chosen, steps>>
ledger == <<stored, expired, verified, net>>
keystore == <<locked, locks>>

Jobs == {"none", "build", "prove", "extract"}
Ended == {"sent", "failed", "dropped"}
\* The awaits at which a future holds the permit of PROVING_SLOTS.
Proving == {"proving", "extracting"}
\* Part of a queued operation: no RPC timeout applies.
Queued == {"queued", "building", "built", "opcast"}

SendInit ==
  /\ broadcast \in BOOLEAN /\ kind \in [Calls -> Kinds] /\ pc = [c \in Calls |-> "new"]
  /\ chosen = [c \in Calls |-> {}] /\ steps = [c \in Calls |-> 0]
  /\ handles = [c \in Calls |-> 0] /\ task = [c \in Calls |-> "none"]
  /\ stored = {} /\ expired = {} /\ verified = {} /\ net = {}
  /\ locked = FALSE /\ locks = 0

-----------------------------------------------------------------------------
(* Shared resources                                                        *)

\* A build or extract closure owns the handle its call had.
TaskHandle(c) == IF task[c] \in {"build", "extract"} THEN 1 ELSE 0
HandlesInUse == MapThenSumSet(LAMBDA c : handles[c] + TaskHandle(c), Calls)
HandleFree == HandlesInUse < PoolSize
PermitFree == Cardinality({c \in Calls : pc[c] \in Proving}) < ProvingSlots

Txs(c) == {<<c, i>> : i \in 1..steps[c]}
\* The wallet counts an input as spent once a live transaction of its own
\* spends it.
Spent == UNION {chosen[c] : c \in {d \in Calls : <<d, 1>> \in stored \ expired}}

Goto(c, stage) == pc' = [pc EXCEPT ![c] = stage]
Hold(c, n) == handles' = [handles EXCEPT ![c] = n]
\* On to another stage, or to the end, without a handle.
End(c, how) == Goto(c, how) /\ Hold(c, 0)

-----------------------------------------------------------------------------
(* The calls, await by await                                               *)

\* The call arrives.  z_sendmany and z_shieldcoinbase are refused unless the
\* wallet is synced and the operation queue has room.  The send methods ask the
\* pool for a handle; pczt_prove uses none and goes for a permit.
Start(c) ==
  /\ pc[c] = "new"
  /\ \/ kind[c] \in {"many", "shield"} /\ Goto(c, "failed")
     \/ kind[c] # "prove" /\ Goto(c, "handle")
     \/ kind[c] = "prove" /\ Goto(c, "permit")
  /\ UNCHANGED <<proposalVars, handles, task, ledger, keystore>>

\* Database::handle
GetHandle(c) ==
  /\ pc[c] = "handle" /\ HandleFree
  /\ Hold(c, 1) /\ Goto(c, "propose")
  /\ UNCHANGED <<proposalVars, task, ledger, keystore>>

\* propose_and_check, propose_shielding_coinbase: one database call.  Only a
\* z_sendmany can need a second step.  The inputs are not locked.
Propose(c) ==
  /\ pc[c] = "propose"
  /\ \/ /\ End(c, "failed") /\ UNCHANGED <<chosen, steps>>
     \/ \E ins \in (SUBSET (Inputs \ Spent)) \ {{}}, n \in IF kind[c] = "many" THEN 1..2 ELSE {1} :
          /\ chosen' = [chosen EXCEPT ![c] = ins] /\ steps' = [steps EXCEPT ![c] = n]
          /\ Goto(c, IF kind[c] = "shield" THEN "enumerate" ELSE "unlock")
          /\ UNCHANGED handles
  /\ UNCHANGED <<broadcast, kind, task, ledger, keystore>>

\* z_shieldcoinbase counts what is eligible with another database call, and
\* gives up if that is less than the proposal selected.
Enumerate(c) ==
  /\ pc[c] = "enumerate"
  /\ IF Cardinality(chosen[c]) > Cardinality(Inputs \ Spent) THEN End(c, "failed")
     ELSE Goto(c, "unlock") /\ UNCHANGED handles
  /\ UNCHANGED <<proposalVars, task, ledger, keystore>>

\* decrypt_seed takes the identities' read lock and fails if there are none;
\* the guard lives until the seed is read.
Unlock(c, from, to) ==
  /\ pc[c] = from
  /\ IF locked THEN End(c, "failed") ELSE Goto(c, to) /\ UNCHANGED handles
  /\ UNCHANGED <<proposalVars, task, ledger, keystore>>

\* KeyStore::with_db keeping its handle as long as the caller's.
ReadSeedLeaking(c) ==
  /\ pc[c] = "seed" /\ HandleFree
  /\ Goto(c, IF kind[c] = "from" THEN "permit" ELSE "queued") /\ Hold(c, 2)
  /\ UNCHANGED <<proposalVars, task, ledger, keystore>>

\* KeyStore::with_db asks the same pool for another handle while the caller
\* keeps its own; it is back in the pool when the row is read.  Then a send is
\* queued, and z_sendfromaccount drops its handle and goes on to prove.
ReadSeed(c) ==
  /\ pc[c] = "seed" /\ HandleFree
  /\ \/ kind[c] = "from" /\ Goto(c, "permit") /\ Hold(c, 0)
     \/ kind[c] # "from" /\ Goto(c, "queued") /\ UNCHANGED handles
     \/ End(c, "failed")
  /\ UNCHANGED <<proposalVars, task, ledger, keystore>>

\* pczt_prove: the permit stays with the future, the work goes to a blocking
\* thread.
Prove(c) ==
  /\ pc[c] = "permit" /\ PermitFree
  /\ Goto(c, "proving") /\ task' = [task EXCEPT ![c] = "prove"]
  /\ UNCHANGED <<proposalVars, handles, ledger, keystore>>

\* The future gets the proofs, if it still waits for them.
Proved(c) ==
  /\ task[c] = "prove"
  /\ task' = [task EXCEPT ![c] = "none"]
  /\ IF pc[c] # "proving" THEN UNCHANGED pc
     ELSE \/ Goto(c, "failed")
          \/ Goto(c, IF kind[c] = "prove" THEN "sent" ELSE "signhandle")
  /\ UNCHANGED <<proposalVars, handles, ledger, keystore>>

\* pczt_sign has its own handle, and decrypts the seed again.
SignHandle(c) ==
  /\ pc[c] = "signhandle" /\ HandleFree
  /\ Hold(c, 1) /\ Goto(c, "signunlock")
  /\ UNCHANGED <<proposalVars, task, ledger, keystore>>

Sign(c) ==
  /\ pc[c] = "signseed" /\ HandleFree
  /\ End(c, "extracthandle") \/ End(c, "failed")
  /\ UNCHANGED <<proposalVars, task, ledger, keystore>>

\* pczt_extract waits for a permit with a handle in hand.
ExtractHandle(c) ==
  /\ pc[c] = "extracthandle" /\ HandleFree
  /\ Hold(c, 1) /\ Goto(c, "extractpermit")
  /\ UNCHANGED <<proposalVars, task, ledger, keystore>>

Extract(c) ==
  /\ pc[c] = "extractpermit" /\ PermitFree
  /\ Goto(c, "extracting") /\ Hold(c, 0) /\ task' = [task EXCEPT ![c] = "extract"]
  /\ UNCHANGED <<proposalVars, ledger, keystore>>

\* The operation's worker starts the blocking closure of run, which takes the
\* handle along.
Build(c) ==
  /\ pc[c] = "queued"
  /\ Goto(c, "building") /\ Hold(c, 0) /\ task' = [task EXCEPT ![c] = "build"]
  /\ UNCHANGED <<proposalVars, ledger, keystore>>

\* An extraction whose result is broadcast even if nobody waits for it.
StoreAndGoOn(c) ==
  /\ task[c] \in {"build", "extract"}
  /\ task' = [task EXCEPT ![c] = "none"]
  /\ stored' = stored \cup Txs(c) /\ verified' = verified \cup {c}
  /\ net' = IF pc[c] = "dropped" THEN net \cup Txs(c) ELSE net
  /\ UNCHANGED <<proposalVars, pc, handles, expired, keystore>>

\* create_proposed_transactions and extract_and_store_transaction_from_pczt
\* record the transactions of every step as their last act, whether or not a
\* future still waits for the answer.
Store(c) ==
  /\ task[c] \in {"build", "extract"}
  /\ task' = [task EXCEPT ![c] = "none"]
  /\ \/ UNCHANGED stored /\ Goto(c, IF pc[c] = "dropped" THEN "dropped" ELSE "failed")
        /\ UNCHANGED handles
     \/ /\ stored' = stored \cup Txs(c)
        /\ CASE pc[c] = "dropped" -> UNCHANGED <<pc, handles>>
             [] pc[c] = "building" -> Goto(c, "built") /\ Hold(c, 1)
             [] pc[c] = "extracting" -> Goto(c, "casthandle") /\ UNCHANGED handles
  /\ UNCHANGED <<proposalVars, expired, verified, net, keystore>>

\* z_sendfromaccount takes a handle once more to verify and broadcast.
CastHandle(c) ==
  /\ pc[c] = "casthandle" /\ HandleFree
  /\ Hold(c, 1) /\ Goto(c, "extracted")
  /\ UNCHANGED <<proposalVars, task, ledger, keystore>>

\* verify_and_broadcast_transactions that checks a transaction only when its
\* turn to be broadcast comes.
VerifyFirst(c) ==
  /\ pc[c] \in {"built", "extracted"}
  /\ Goto(c, IF pc[c] = "built" THEN "opcast" ELSE "cast")
  /\ UNCHANGED <<proposalVars, handles, task, ledger, keystore>>

\* verify_and_broadcast_transactions, its first loop: every transaction is
\* loaded and its transparent outputs are checked.
Verify(c) ==
  /\ pc[c] \in {"built", "extracted"}
  /\ \/ End(c, "failed") /\ UNCHANGED verified
     \/ /\ verified' = verified \cup {c}
        /\ IF broadcast THEN /\ Goto(c, IF pc[c] = "built" THEN "opcast" ELSE "cast")
                             /\ UNCHANGED handles
           ELSE End(c, "sent")
  /\ UNCHANGED <<proposalVars, task, stored, expired, net, keystore>>

\* The node takes a transaction whose inputs no other took and that has not
\* expired.
Accepts(c, i) ==
  /\ <<c, i>> \notin expired
  /\ IF i = 1 THEN \A d \in Calls \ {c} : <<d, 1>> \in net => chosen[c] \cap chosen[d] = {}
     ELSE <<c, 1>> \in net

\* The second loop, going on after an error.
CastRegardless(c) ==
  /\ pc[c] \in {"cast", "opcast"}
  /\ net' = IF Accepts(c, 1) THEN net \cup Txs(c) ELSE net
  /\ End(c, "sent")
  /\ UNCHANGED <<proposalVars, task, stored, expired, verified, keystore>>

\* Its second loop, one broadcast_transaction: accepted, refused, or accepted
\* with the answer lost; an error ends the loop.
Cast(c) ==
  /\ pc[c] \in {"cast", "opcast"}
  /\ LET i == Cardinality(Txs(c) \cap net) + 1 IN
     \/ End(c, "failed") /\ UNCHANGED net
     \/ /\ Accepts(c, i) /\ net' = net \cup {<<c, i>>}
        /\ \/ End(c, "failed")
           \/ IF i = steps[c] THEN End(c, "sent") ELSE UNCHANGED <<pc, handles>>
  /\ UNCHANGED <<proposalVars, task, stored, expired, verified, keystore>>

-----------------------------------------------------------------------------
(* Around the calls                                                        *)

\* A server without the timeout layer.
NoTimeout(c) == pc[c] = "none" /\ UNCHANGED sendVars

\* The server's timeout layer drops the future of an RPC in progress: its
\* handles, permit and read guard go with it, its blocking closure does not.
\* A future is dropped at an await only, not between two database calls.
Timeout(c) ==
  /\ pc[c] \notin {"new", "propose", "enumerate", "extracted"} \cup Queued \cup Ended
  /\ End(c, "dropped")
  /\ UNCHANGED <<proposalVars, task, ledger, keystore>>

\* Transactions that expire only if their call was reported to have failed.
ExpireFailed(c) ==
  /\ pc[c] = "failed" /\ <<c, 1>> \in stored \ (expired \cup net)
  /\ expired' = expired \cup Txs(c)
  /\ UNCHANGED <<proposalVars, pc, handles, task, stored, verified, net, keystore>>

\* A recorded transaction that no block took before its expiry height stops
\* spending its inputs; a later step falls with the first.
Expire(c) ==
  /\ <<c, 1>> \in stored \ (expired \cup net)
  /\ expired' = expired \cup Txs(c)
  /\ UNCHANGED <<proposalVars, pc, handles, task, stored, verified, net, keystore>>

\* walletlock, walletpassphrase: the write lock waits for the readers.
ToggleLock ==
  /\ locks < MaxLocks
  /\ \A c \in Calls : pc[c] \notin {"seed", "signseed"}
  /\ locked' = ~locked /\ locks' = locks + 1
  /\ UNCHANGED <<proposalVars, pc, handles, task, ledger>>

CallStep(c) ==
  \/ GetHandle(c) \/ Propose(c) \/ Enumerate(c) \/ Unlock(c, "unlock", "seed") \/ ReadSeed(c)
  \/ Prove(c) \/ Proved(c) \/ SignHandle(c) \/ Unlock(c, "signunlock", "signseed")
  \/ Sign(c) \/ ExtractHandle(c) \/ Extract(c) \/ Build(c) \/ Store(c)
  \/ CastHandle(c) \/ Verify(c) \/ Cast(c)

SendNext == (\E c \in Calls : Start(c) \/ CallStep(c) \/ Timeout(c) \/ Expire(c)) \/ ToggleLock

\* Futures and blocking threads are polled for ever, a call that hangs times
\* out, and blocks go by until an unmined transaction expires.
SendFairness == \A c \in Calls : WF_sendVars(CallStep(c)) /\ WF_sendVars(Timeout(c)) /\ WF_sendVars(Expire(c))

SendSpec == SendInit /\ [][SendNext]_sendVars /\ SendFairness

-----------------------------------------------------------------------------
SendTypeOK ==
  /\ pc \in [Calls -> {"new", "handle", "propose", "enumerate", "unlock", "seed", "permit", "proving",
                       "signhandle", "signunlock", "signseed", "extracthandle",
                       "extractpermit", "extracting", "casthandle", "extracted", "cast"}
                        \cup Queued \cup Ended]
  /\ chosen \in [Calls -> SUBSET Inputs] /\ steps \in [Calls -> 0..2]
  /\ handles \in [Calls -> 0..1] /\ task \in [Calls -> Jobs]
  /\ HandlesInUse <= PoolSize
  /\ stored \cup expired \cup net \subseteq Calls \X (1..2)
  /\ verified \subseteq Calls

\* Nothing is on the network that the wallet does not have on record, with
\* every transaction of its operation checked: whatever timed out, failed or
\* expired in between (z_sendfromaccount: "marked pending-spent before
\* broadcast"; verify_and_broadcast_transactions: "never handed to the
\* broadcast step").
OnRecordBeforeBroadcast ==
  \A c \in Calls : Txs(c) \cap net # {} => Txs(c) \subseteq stored /\ c \in verified

\* A transaction of a later step is broadcast only after those it spends, and
\* a call that reports success sent all of them, or none if external.broadcast
\* is off; in both cases they are on record.
SentMeansSent ==
  \A c \in Calls :
    /\ <<c, 2>> \in net => <<c, 1>> \in net
    /\ pc[c] = "sent" /\ kind[c] # "prove" =>
         Txs(c) \subseteq stored /\ net \cap Txs(c) = IF broadcast THEN Txs(c) ELSE {}

\* Once the timeout dropped a z_sendfromaccount, nothing of it is broadcast any
\* more, though its extraction may still record the transaction: a client may
\* retry without paying twice unless the node already has the first.
DroppedStaysQuiet ==
  [][\A c \in Calls : pc[c] = "dropped" => net' \cap Txs(c) = net \cap Txs(c)]_sendVars

\* What is on the network, and what a client is told was sent, is what the
\* wallet has on record, and a dropped call adds nothing to it.
SpendsAreRecorded == []OnRecordBeforeBroadcast /\ []SentMeansSent /\ DroppedStaysQuiet

\* Every call comes to an end, although each holds a handle of the pool while
\* the keystore asks the pool for another: the timeout breaks the wait.
CallsEnd == \A c \in Calls : (pc[c] # "new") ~> (pc[c] \in Ended)

\* Inputs of a recorded transaction do not stay pending for ever: the network
\* has it, or it expires and the wallet can spend them again.
InputsComeBack ==
  \A c \in Calls : (<<c, 1>> \in stored) ~> (<<c, 1>> \in net \cup expired)

\* "Bounds the number of concurrently running proving/verification tasks"
\* (PROVING_SLOTS).
ProvingBounded == Cardinality({c \in Calls : task[c] \in {"prove", "extract"}}) <= ProvingSlots
=============================================================================
