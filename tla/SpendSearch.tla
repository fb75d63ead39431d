----------------------------- MODULE SpendSearch -----------------------------
(* The data-requests task looking for the spend of a transparent output that *)
(* may have been spent by another wallet with the same seed.  With Zebra it  *)
(* asks for the output (unspent set, then an index that may lag); with Zaino *)
(* it compares the address's unspent set and reads the address's             *)
(* transactions.  Both ask the chain as it is, and record how far they       *)
(* looked as of the snapshot they took before.                               *)
EXTENDS Integers

CONSTANTS MaxTip   \* the highest block

ASSUME MaxTipAssumption == MaxTip \in Nat \ {0}

VARIABLES backend,   \* "zebra" or "zaino"
          tip,       \* the node's tip, which grows
          spentAt,   \* the height of the block with the spend, MaxTip + 1 for none
          indexed,   \* the height the spend index has reached
          mark,      \* the wallet has verified the output unspent through this height
          recorded,  \* the wallet has the spend
          signalled, \* a tip change to look at
          task       \* the task: where it is, the view's tip, the range asked for

searchVars == <<backend, tip, spentAt, indexed, mark, recorded, signalled, task>>
Chain == <<backend, tip, spentAt, indexed>>

Sleeping == [at |-> "sleep", tip |-> 0, to |-> 0]

SearchInit ==
  /\ backend \in {"zebra", "zaino"}
  /\ tip = 1 /\ spentAt \in 2..(MaxTip + 1) /\ indexed \in 0..1
  /\ mark = 1 /\ recorded = FALSE /\ signalled = FALSE /\ task = Sleeping

\* external: a block; the index follows when it can.
NewBlock ==
  /\ tip < MaxTip
  /\ tip' = tip + 1 /\ signalled' = TRUE
  /\ UNCHANGED <<backend, spentAt, indexed, mark, recorded, task>>

Index ==
  /\ indexed < tip
  /\ indexed' = indexed + 1
  /\ UNCHANGED <<backend, tip, spentAt, mark, recorded, signalled, task>>

\* Woken by a tip change; the snapshot; the wallet's requests.  An error here ends the task.
Wake ==
  /\ task.at = "sleep" /\ signalled
  /\ signalled' = FALSE
  /\ \/ /\ ~recorded
        /\ \E to \in {tip + 1} \cup {e \in (mark + 1)..(tip + 2) : backend = "zaino"} :
             task' = [at |-> "spent?", tip |-> tip, to |-> to]
     \/ recorded /\ task' = Sleeping
     \/ task' = [Sleeping EXCEPT !.at = "dead"]
  /\ UNCHANGED <<mark, recorded>> /\ UNCHANGED Chain

BoundsInclusive(from, to) ==
  LET end == IF to < task.tip + 1 THEN to ELSE task.tip + 1
  IN [from |-> from, end |-> end, asOf |-> end]

\* address_request_bounds: the range asked for, clamped to the view, end exclusive; the last block
\* it covers.
Bounds(from, to) ==
  LET clamped == IF to < task.tip + 1 THEN to ELSE task.tip + 1
      end == IF clamped > from THEN clamped ELSE from
  IN [from |-> from, end |-> end, asOf |-> IF end = 0 THEN 0 ELSE end - 1]

Looked == Bounds(mark + 1, task.to)
Spent == spentAt <= tip   \* on the node's chain, as it is now

\* The first question: is it spent?  If not, it is verified as of the snapshot.
AskUnspent ==
  /\ task.at = "spent?"
  /\ IF Spent THEN task' = [task EXCEPT !.at = "spender?"] /\ UNCHANGED mark
     ELSE mark' = (IF backend = "zebra" THEN task.tip ELSE Looked.asOf) /\ task' = Sleeping
  /\ UNCHANGED <<recorded, signalled>> /\ UNCHANGED Chain

\* Zebra: who spent it, if the index has it; looking that transaction up may end the task.
AskSpender ==
  /\ task.at = "spender?" /\ backend = "zebra"
  /\ \/ spentAt > indexed /\ task' = Sleeping /\ UNCHANGED recorded
     \/ spentAt <= indexed /\ recorded' = TRUE /\ task' = Sleeping
     \/ spentAt <= indexed /\ task' = [Sleeping EXCEPT !.at = "dead"] /\ UNCHANGED recorded
  /\ UNCHANGED <<mark, signalled>> /\ UNCHANGED Chain

\* Zaino: the address's transactions in the range; then the range counts as checked.
AskAddressTxs ==
  /\ task.at = "spender?" /\ backend = "zaino"
  /\ recorded' = (recorded \/ (spentAt >= Looked.from /\ spentAt < Looked.end))
  /\ mark' = Looked.asOf /\ task' = Sleeping
  /\ UNCHANGED signalled /\ UNCHANGED Chain

\* A failing request is logged, and asked again at the next block.
RequestFails ==
  /\ task.at \in {"spent?", "spender?"}
  /\ task' = Sleeping
  /\ UNCHANGED <<mark, recorded, signalled>> /\ UNCHANGED Chain

SearchNext == NewBlock \/ Index \/ Wake \/ AskUnspent \/ AskSpender \/ AskAddressTxs \/ RequestFails

SearchSpec == SearchInit /\ [][SearchNext]_searchVars

-----------------------------------------------------------------------------

\* No spend is passed over: the height through which an output counts as checked never reaches a
\* block that spends it unless the wallet has recorded the spend, though blocks arrive between the
\* snapshot, the unspent set and the transactions (address_request_bounds, notify_address_checked,
\* notify_output_verified_unspent).
NoSpendPassedOver == spentAt <= mark => recorded
=============================================================================
