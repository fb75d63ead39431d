\* A pinned view (zaino), two chain moves of any kind, a restart, sparse checkpoints,
\* and room for recover_history to have blocks to write.  The constants satisfy Regular.
SPECIFICATION Spec
CONSTANTS
  Branches <- Labels
  NoBlock = NoBlock
  Birthday = 1
  MaxLocatorDepth = 1
  SearchStep = 1
  PinnedSearch = TRUE
  MaxHeight = 7
  MaxMoves = 2
  Chain0 <- ThreeBlocks
  ReorgDepth = 2
  OfflineReorgs = FALSE
  Rollbacks = TRUE
  BoundaryDepth = 2
  BatchSize = 1
  ShutdownHeight = 9
  CheckpointDepth = 3
  AnchorInterval = 2
  MaxBadFrontiers = 0
  TreeRetries = 1
  MaxRestarts = 1
  Tolerance = 0
  Ladder <- Rungs
INVARIANTS
  OneChain
  RoundsSound
 
CHECK_DEADLOCK FALSE
