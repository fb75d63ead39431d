\* Live views (zebra), a divergence height in reach, a birthday below it.
SPECIFICATION FairSpec
CONSTANTS
  Branches <- Labels
  NoBlock = NoBlock
  Birthday = 2
  MaxLocatorDepth = 1
  SearchStep = 2
  PinnedSearch = FALSE
  MaxHeight = 4
  MaxMoves = 2
  Chain0 <- ThreeBlocks
  ReorgDepth = 4
  OfflineReorgs = TRUE
  Rollbacks = TRUE
  BoundaryDepth = 1
  BatchSize = 1
  ShutdownHeight = 4
  CheckpointDepth = 9
  AnchorInterval = 1
  MaxBadFrontiers = 0
  TreeRetries = 1
  MaxRestarts = 1
  Tolerance = 0
  Ladder <- Rungs
INVARIANTS
  ShutdownRespected
PROPERTIES
  ShutsDown
CHECK_DEADLOCK FALSE
