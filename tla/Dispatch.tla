------------------------------- MODULE Dispatch -------------------------------
(***************************************************************************)
(* What the RPC server does around every method: which methods wait for    *)
(* the wallet to be synced, which ask the operation queue for room, which   *)
(* take a connection of the database pool, and which go on to read the      *)
(* keystore, whose rows are read over a second connection while the first   *)
(* is held.  The HTTP timeout drops a request wherever it waits.            *)
(*                                                                          *)
(* What a method computes is the subject of the other modules; here it is   *)
(* the connections it holds meanwhile.                                      *)
(***************************************************************************)
EXTENDS Naturals, FiniteSets, TLC

CONSTANTS
  Requests,     \* the HTTP requests made
  Called,       \* the methods they call
  RpcHandles,   \* connections of the pool
  QueueLimit,   \* rpc.async_operation_limit
  MaxFlips      \* bound: how often the sync status changes

ASSUME DispatchAssumption == RpcHandles \in Nat \ {0} /\ QueueLimit \in Nat \ {0} /\ MaxFlips \in Nat

VARIABLES
  synced,    \* ensure_synced would let a request pass
  flips,
  method,    \* [Requests -> the method being served]
  stage      \* [Requests -> where the request waits]

dispatchVars == <<synced, flips, method, stage>>
requestVars == <<method, stage>>
syncVars == <<synced, flips>>

Plain == [gated |-> FALSE, queued |-> FALSE, handle |-> TRUE, keys |-> FALSE]
NoHandle == [Plain EXCEPT !.handle = FALSE]
WithKeys == [Plain EXCEPT !.keys = TRUE]
Gated == [Plain EXCEPT !.gated = TRUE]

\* impl RpcServer for RpcImpl: never gated, and served from the wallet of a locked keystore.
GeneralHandlers ==
  [m \in {"getwalletstatus", "z_listaccounts", "z_getaccount", "listaddresses", "z_listunifiedreceivers",
          "z_listtransactions", "getrawtransaction", "decoderawtransaction", "stop", "validateaddress",
          "verifymessage", "z_converttex", "decodescript", "pczt_inspect"} |-> Plain]
  @@ [m \in {"z_getaddressforaccount", "z_viewtransaction"} |-> WithKeys]
  @@ [m \in {"pczt_combine", "pczt_prove"} |-> NoHandle]

\* impl WalletRpcServer for WalletRpcImpl, up to the accounts: the operations and the keystore's
\* lock need no connection.
SessionHandlers ==
  [m \in {"rpc.discover", "z_listoperationids", "z_getoperationstatus", "z_getoperationresult",
          "getwalletinfo", "walletpassphrase", "walletlock"} |-> NoHandle]
  @@ [m \in {"z_getnewaccount", "z_recoveraccounts"} |-> WithKeys]
  @@ ("help" :> Plain)

\* Balances, holdings and imported keys.  z_getspendablebalance reports a wallet that is still
\* catching up, so it is not gated.
HoldingHandlers ==
  [m \in {"z_getbalances", "z_gettotalbalance", "z_listunspent", "z_getnotescount"} |-> Gated]
  @@ [m \in {"z_getspendablebalance", "z_importaddress", "z_importviewingkey"} |-> Plain]
  @@ ("z_getbalanceforaccount" :> [Gated EXCEPT !.keys = TRUE])
KeyHandlers == [m \in {"z_exportkey", "z_importkey"} |-> WithKeys]

\* The calls that queue an operation.  z_sendfromaccount, which checks the gate itself and queues
\* nothing, is in SendPipeline and PirWitnesses.
OperationHandlers ==
  [m \in {"z_sendmany", "z_shieldcoinbase"} |-> [Gated EXCEPT !.queued = TRUE, !.keys = TRUE]]

\* The rest of the methods that use spending keys, and the PCZT roles that read the wallet.
SigningHandlers ==
  [m \in {"z_exportviewingkey", "pczt_sign", "signmessage"} |-> WithKeys]
  @@ [m \in {"pczt_create", "pczt_extract"} |-> Gated]

Handlers ==
  GeneralHandlers @@ SessionHandlers @@ HoldingHandlers @@ KeyHandlers @@ OperationHandlers @@ SigningHandlers

Handler(r) == Handlers[method[r]]

Holding == {"keys", "work", "operation"}
Operations == {r \in Requests : stage[r] = "operation"}
HandlesHeld == {r \in Requests : stage[r] \in Holding /\ Handler(r).handle}
PoolFree == Cardinality(HandlesHeld) < RpcHandles

DispatchInit ==
  /\ synced \in BOOLEAN /\ flips = 0
  /\ method = [r \in Requests |-> "none"]
  /\ stage = [r \in Requests |-> "new"]

MoveTo(r, s) == stage' = [stage EXCEPT ![r] = s]
\* The future is gone, answered or not, and what it held with it.
EndRequest(r) == MoveTo(r, "ended") /\ method' = [method EXCEPT ![r] = "none"]

\* ensure_synced: Synced is the one status that passes.
EnsureSynced(h) == h.gated => synced
\* check_capacity, asked before anything is done for the call.
CheckCapacity(h) == h.queued => Cardinality(Operations) < QueueLimit

\* The request reaches its method.
Arrive(r, m) ==
  /\ stage[r] = "new"
  /\ LET h == Handlers[m]
     IN  IF EnsureSynced(h) /\ CheckCapacity(h)
         THEN MoveTo(r, IF h.handle THEN "handle" ELSE "work") /\ method' = [method EXCEPT ![r] = m]
         ELSE EndRequest(r)
  /\ UNCHANGED syncVars

\* self.wallet().await: waits for a connection of the pool.
TakeHandle(r) ==
  /\ stage[r] = "handle" /\ PoolFree
  /\ MoveTo(r, IF Handler(r).keys THEN "keys" ELSE "work")
  /\ UNCHANGED <<syncVars, method>>

\* with_db: the keystore's row is read over a connection of its own, returned at once; the
\* request keeps its first one while it waits.
ReadKeystore(r) ==
  /\ stage[r] = "keys" /\ PoolFree
  /\ MoveTo(r, "work")
  /\ UNCHANGED <<syncVars, method>>

\* The method ends, with an answer or an error, and its connection goes back; or it goes along
\* into the operation the method queues, if the queue, asked again, still has room.
Work(r) ==
  /\ stage[r] = "work"
  /\ \/ EndRequest(r)
     \/ Handler(r).queued /\ CheckCapacity(Handler(r)) /\ MoveTo(r, "operation") /\ UNCHANGED method
  /\ UNCHANGED syncVars

\* The queued operation runs to its end, whatever became of its client.
OperationEnds(r) ==
  /\ stage[r] = "operation"
  /\ EndRequest(r) /\ UNCHANGED syncVars

RequestUntimed(r) == stage[r] = "never" /\ UNCHANGED dispatchVars
\* The HTTP layer's timeout drops the future at whichever await it is.
RequestTimeout(r) ==
  /\ stage[r] \in {"handle", "keys", "work"}
  /\ EndRequest(r) /\ UNCHANGED syncVars

\* The sync tasks publish another status.
SyncFlips ==
  /\ flips < MaxFlips
  /\ synced' = ~synced /\ flips' = flips + 1
  /\ UNCHANGED requestVars

RequestStep(r) == TakeHandle(r) \/ ReadKeystore(r) \/ Work(r)

DispatchNext ==
  \/ \E r \in Requests : (\E m \in Called : Arrive(r, m)) \/ RequestStep(r) \/ OperationEnds(r) \/ RequestTimeout(r)
  \/ SyncFlips

\* Tokio polls every future that can go on; the timeout of the HTTP layer always fires; an
\* operation has an end of its own (AsyncOps).
DispatchFairness ==
  \A r \in Requests :
    /\ WF_dispatchVars(RequestStep(r)) /\ WF_dispatchVars(OperationEnds(r))
    /\ WF_dispatchVars(RequestTimeout(r))

DispatchSpec == DispatchInit /\ [][DispatchNext]_dispatchVars /\ DispatchFairness

\* Shapes of the dispatcher's state.
DispatchTypeOK ==
  /\ synced \in BOOLEAN /\ flips \in 0..MaxFlips
  /\ method \in [Requests -> Called \cup {"none"}]
  /\ stage \in [Requests -> Holding \cup {"new", "handle", "ended"}]

\* Every request that reached its method gets its answer, even when each connection of the pool
\* is held by a request that waits for a second one (keystore.with_db under RpcImpl::wallet).
RequestsEnd == \A r \in Requests : (stage[r] # "new") ~> (stage[r] \in {"operation", "ended"})

\* The pool is never exhausted for good.  The operations that took their call's connection along
\* cannot exhaust it by themselves, for each call had to find a second connection to read its
\* key over; the requests that hold one and wait for another can, until the timeout.
PoolRecovers == []<>PoolFree
=============================================================================
