\* Live views (zebra).
SPECIFICATION Spec
CONSTANTS
  Branches <- Labels
  NoBlock = NoBlock
  Birthday = 1
  MaxLocatorDepth = 4
  SearchStep = 1
  PinnedSearch = FALSE
  MaxHeight = 5
  MaxMoves = 3
  Chain0 <- FourBlocks
  ReorgDepth = 2
  OfflineReorgs = FALSE
  Rollbacks = TRUE
  BoundaryDepth = 2
  BatchSize = 1
  ShutdownHeight = 9
  CheckpointDepth = 9
  AnchorInterval = 1
  MaxBadFrontiers = 0
  TreeRetries = 1
  MaxRestarts = 1
  Tolerance = 0
  Ladder <- Rungs
INVARIANTS
  NoPanic
CHECK_DEADLOCK FALSE
