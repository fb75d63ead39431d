--------------------------- MODULE MCKeystoreLock ---------------------------
(* The keystore's lock under concurrent calls (scenario "lock"), and three    *)
(* requests of every class of method over two connections ("dispatch").  A    *)
(* behaviour is one of the two; the other component stays in its initial      *)
(* state.                                                                     *)
EXTENDS KeystoreLock, Dispatch

CONSTANT Scenarios

VARIABLE scenario

\* Requests are numbered in the order they arrive.
ArriveInOrder == \A q, r \in Requests : q < r /\ stage'[q] = "new" => stage'[r] = "new"

Init ==
  /\ scenario \in Scenarios
  /\ LockInit /\ DispatchInit
  /\ scenario = "lock" => ~synced

Next ==
  /\ UNCHANGED scenario
  /\ \/ scenario = "lock" /\ LockNext /\ UNCHANGED dispatchVars
     \/ scenario = "dispatch" /\ DispatchNext /\ ArriveInOrder /\ UNCHANGED lockVars

Spec == Init /\ [][Next]_<<lockVars, dispatchVars, scenario>>
FairSpec == Spec /\ LockFairness /\ DispatchFairness

\* Every request gets its answer: the calls that wait for the keystore's lock, and the requests
\* that wait for a connection while others hold one and wait for a second; and the pool of
\* connections always recovers (KeyStore::unlock, lock and with_db, RpcImpl::wallet).
RequestsAnswered == CallsAnswered /\ RequestsEnd /\ PoolRecovers
=============================================================================
