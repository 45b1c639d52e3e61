SPECIFICATION FairSpec
CONSTANTS
  Hash <- MCHash
  Numeric <- MCNumeric
  World <- MCWorld
  Setups <- MCSetups
  Genesis = 0
  NoHash = NoHash
  NoBlock = NoBlock
  Tx = {}
  MaxUncleDistance = 5
  MaxBlocks = 100
  SyncBlocks = 10
  RewindBy = 10
  ChanSize = 2
  MaxMined = 1
  MayDrop = TRUE
INVARIANTS SyncedNodesAgree SyncNotRefused
PROPERTIES SyncEnds
CHECK_DEADLOCK FALSE
