SPECIFICATION Spec
CONSTANTS
  Scenarios = {"life", "compat", "reads", "stream", "spends"}
  Procs = {p1, p2}
  Builds <- SomeBuilds
  MinVersion = 2
  Upgrades = {"nu5", "nu6", "nu7"}
  OurRules <- SomeRules
  Recognized = {"nu5", "nu6"}
  MaxNodeTip = 2
  Txs = {"t1"}
  Branches = {0, 1}
  Places <- SomePlaces
  Activates <- SomeActivations
  MaxHeight = 4
  ReorgDepth = 2
  MaxTip = 6

  
  
PROPERTIES
  UntouchedUnlessVerified
  OneExitEndsAll
  ReadersHold
CHECK_DEADLOCK FALSE
