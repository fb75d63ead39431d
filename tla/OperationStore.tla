---------------------------- MODULE OperationStore ----------------------------
(* What `OperationQueue` promises to the callers of the spend methods and of   *)
(* z_getoperationresult, without its locks, snapshots and calls: a store of at *)
(* most Limit operations.  AsyncOps implements it.                             *)
EXTENDS Naturals, FiniteSets

CONSTANTS Operations,  \* the operations that may be launched
          Limit        \* how many are stored

VARIABLES status,  \* operation -> "none", "running" or "done"
          stored,  \* the operations that can be asked about
          handed   \* the operations whose result was handed out

storeVars == <<status, stored, handed>>

StoreInit ==
  /\ status = [o \in Operations |-> "none"]
  /\ stored = {} /\ handed = {}

\* One operation is launched.  A full store makes room by forgetting one that is done.
Launch(o) ==
  /\ status[o] = "none"
  /\ status' = [status EXCEPT ![o] = "running"]
  /\ \/ Cardinality(stored) < Limit /\ stored' = stored \cup {o}
     \/ \E old \in stored : /\ Cardinality(stored) = Limit
                            /\ status[old] = "done"
                            /\ stored' = (stored \ {old}) \cup {o}
  /\ UNCHANGED handed

Complete(o) ==
  /\ status[o] = "running"
  /\ status' = [status EXCEPT ![o] = "done"]
  /\ UNCHANGED <<stored, handed>>

\* The results of operations that are done are handed out, and forgotten with it.
HandOut(os) ==
  /\ \A o \in os : o \in stored /\ status[o] = "done" /\ o \notin handed
  /\ stored' = stored \ os
  /\ handed' = handed \cup os
  /\ UNCHANGED status

StoreNext ==
  \/ \E o \in Operations : Launch(o) \/ Complete(o)
  \/ \E os \in SUBSET Operations : HandOut(os)

StoreSpec == StoreInit /\ [][StoreNext]_storeVars
===============================================================================
