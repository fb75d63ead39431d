SPECIFICATION Spec
CONSTANTS
  Scenarios = {"send", "pir"}
  Calls = {1, 2}
  Inputs = {i1, i2}
  Kinds = {"many", "shield", "from", "prove"}
  PoolSize = 2
  ProvingSlots = 1
  MaxLocks = 1
  Senders = {s1, s2}
  Notes = {n1}
  Tip = 2
  Activation = 1
  MaxReorgs = 1
INVARIANTS
  
  CatchUpSafe
PROPERTIES
  
  
  EveryCallEnds
CHECK_DEADLOCK FALSE
