CONSTANTS
  Hash = {g, h1, h2, h3, h4}
  Numeric <- MCNumeric
  Genesis = g
  NoHash = NoHash
  NoBlock = NoBlock
  Tx = {}
  MaxUncleDistance = 2
  MaxBlocks = 12
  MaxClaim = 1
  MaxRestarts = 1
  MaxFlushes = 1
SPECIFICATION Spec
INVARIANT CanonicalMainList
INVARIANT BlocksReachTip
INVARIANT UnclesCountOnce
INVARIANT HeaviestSinceOpen
INVARIANT OpensAgain
CHECK_DEADLOCK FALSE
