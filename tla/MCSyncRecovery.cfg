\* A pinned view, wrong frontiers, a restart, one chain move without a rollback.
SPECIFICATION FairSpec
CONSTANTS
  Branches <- Labels
  NoBlock = NoBlock
  Birthday = 1
  MaxLocatorDepth = 1
  SearchStep = 2
  PinnedSearch = TRUE
  MaxHeight = 5
  MaxMoves = 1
  Chain0 <- FourBlocks
  ReorgDepth = 2
  OfflineReorgs = FALSE
  Rollbacks = FALSE
  BoundaryDepth = 2
  BatchSize = 1
  ShutdownHeight = 9
  CheckpointDepth = 1
  AnchorInterval = 2
  MaxBadFrontiers = 2
  TreeRetries = 1
  MaxRestarts = 1
  Tolerance = 0
  Ladder <- Rungs
INVARIANTS
  NoGap
  SyncedMeansScanned
PROPERTIES
  Settles
CHECK_DEADLOCK FALSE
