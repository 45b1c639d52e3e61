SPECIFICATION Spec
CONSTANTS
  n1 = n1  n2 = n2  n3 = n3
  Node <- MCNode
  Links <- MCLinks
  Hash <- MCHash
  Numeric <- MCNumeric
  World <- MCWorld
  Setups <- MCSetups
  Op <- MCOp
  MaxHash = 6
  Genesis = 0
  NoHash = NoHash
  NoBlock = NoBlock
  Tx = {}
  MaxUncleDistance = 5
  MaxBlocks = 100
  UInt64 = 4
  SyncBlocks = 2
  RewindBy = 2
  ChanSize = 2
  MaxRequests = 8
INVARIANTS TipsAgree CountersExplained NoNilBest SyncAdvances
CHECK_DEADLOCK FALSE
