-------------------------------- MODULE MCNode --------------------------------
(* The node around the wallet.  A behaviour is one scenario: processes over    *)
(* one data directory ("life"), the consensus check against any node           *)
(* ("compat"), reads through a backend's view ("reads") and Zebra's mempool    *)
(* stream ("stream"), the search for spends ("spends").  The other components  *)
(* stay in one initial state.                                                  *)
EXTENDS NodeLifecycle, ChainReads, SpendSearch, TLC

CONSTANT Scenarios

VARIABLE scenario

all == <<lifeVars, readVars, searchVars, scenario>>

Build(net, version, rpc, auth) == [net |-> net, ver |-> version, rpc |-> rpc, auth |-> auth]
SomeBuilds ==
  {Build("main", 2, "bound", "valid"), Build("test", 2, "bound", "invalid"),
   Build("main", 3, "none", "valid")}
OneBuild == Build("main", 2, "bound", "valid")
SomeRules == [u \in {"nu5", "nu6"} |-> IF u = "nu5" THEN 0 ELSE 2]

\* The transaction is mined low on both branches, at the tip of both, or late on one.
SomePlaces ==
  {"t1" :> {<<0>>, <<1, 0>>}, "t1" :> {<<0, 0>>, <<1, 0, 0>>}, "t1" :> {<<0, 1>>, <<0, 0, 0, 0>>}}

SomeActivations == [p \in {"sapling", "orchard", "ironwood"} |-> IF p = "ironwood" THEN 2 ELSE 0]

Agreeing ==
  [reported |-> [u \in DOMAIN SomeRules |-> [status |-> "Active", height |-> SomeRules[u]]], tip |-> 0]

Init ==
  /\ scenario \in Scenarios
  /\ IF scenario = "spends" THEN SearchInit
     ELSE backend = "zebra" /\ spentAt = 2 /\ indexed = 0 /\ SearchInit
  /\ IF scenario \in {"reads", "stream"} THEN best = <<0, 0>> /\ ReadsInit
     ELSE engine = "zebra" /\ best = <<0, 0>> /\ place = (CHOOSE p \in Places : TRUE) /\ ReadsInit
  /\ IF scenario = "compat" THEN TRUE ELSE node = Agreeing
  /\ IF scenario = "life" THEN TRUE ELSE build = [p \in Procs |-> OneBuild] /\ db = NoDb
  /\ LifeInit

Compare == \E p \in Procs : Lock(p) \/ BuildChain(p) \/ CheckConsensus(p)

Next ==
  /\ UNCHANGED scenario
  /\ \/ scenario = "life" /\ LifeNext /\ UNCHANGED <<readVars, searchVars>>
     \/ scenario = "compat" /\ Compare /\ UNCHANGED <<readVars, searchVars>>
     \/ scenario = "reads" /\ (NodeMoves \/ ViewReads) /\ UNCHANGED <<lifeVars, searchVars>>
     \/ scenario = "stream" /\ (NodeMoves \/ StreamMoves) /\ UNCHANGED <<lifeVars, searchVars>>
     \/ scenario = "spends" /\ SearchNext /\ UNCHANGED <<lifeVars, readVars>>

Spec == Init /\ [][Next]_all /\ LifeFairness /\ ReadsFairness
=============================================================================
