SPECIFICATION TrusteeSpec
CONSTANTS
  m1 = m1  m2 = m2  counter = counter
  Miner <- MCMiner
  Hash <- MCHash
  Numeric <- MCNumeric
  Name <- MCName
  Bounds <- MCBounds
  MaxHash = 4
  MinerAward = 5
  UncleAward = 1
  UInt64 = 256
  MaxTxs = 1
  Genesis = 0
  NoHash = NoHash
  NoBlock = NoBlock
  Tx = {}
  MaxUncleDistance = 5
  MaxBlocks = 100
SYMMETRY MCSymmetry
INVARIANTS PeersAcceptMined BalancesExplained
CHECK_DEADLOCK FALSE
