----------------------------- MODULE MCSpending -----------------------------
(* Two spending calls of any two kinds over two inputs and a pool of two      *)
(* handles, too small for both (scenario "send"), and Ironwood sends and      *)
(* balance requests of a wallet that catches up ("pir").  A behaviour is one  *)
(* of the two; the other component stays in one initial state.                *)
EXTENDS SendPipeline, PirWitnesses

CONSTANT Scenarios

VARIABLE scenario

\* Calls are numbered, so one order of the kinds stands for all.
Rank == [many |-> 1, shield |-> 2, from |-> 3, prove |-> 4]

SendRests == ~broadcast /\ kind = [c \in Calls |-> "many"]
PirRests ==
  scanned = 0 /\ minedAt = [n \in Notes |-> Activation] /\ spentAt = [n \in Notes |-> Tip + 1]

Init ==
  /\ scenario \in Scenarios
  /\ SendInit /\ PirInit
  /\ IF scenario = "send" THEN PirRests /\ \A c, d \in Calls : c < d => Rank[kind[c]] <= Rank[kind[d]]
                          ELSE SendRests

Next ==
  /\ UNCHANGED scenario
  /\ \/ scenario = "send" /\ SendNext /\ UNCHANGED pirVars
     \/ scenario = "pir" /\ PirNext /\ UNCHANGED sendVars

Spec == Init /\ [][Next]_<<sendVars, pirVars, scenario>> /\ SendFairness /\ PirFairness

\* No call hangs: neither one that waits for the pool, the prover or the keystore, nor one that
\* waits for PIR networking (the timeouts of both).
EveryCallEnds == CallsEnd /\ PirCallsEnd
=============================================================================
