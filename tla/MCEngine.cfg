CONSTANTS
  Hash <- MCHash
  Numeric <- MCNumeric
  MaxHash = 4
  Genesis = 0
  NoHash = NoHash
  NoBlock = NoBlock
  Tx = {}
  MaxUncleDistance = 2
  MaxBlocks = 12
  MaxUncles = 1
  MaxCrashes = 0
SPECIFICATION FairSpec
INVARIANT CanonicalMainList
INVARIANT TipIsBest
INVARIANT CandidateStaysValid
INVARIANT DescendentsReachTip
PROPERTY AddTerminates
PROPERTY ImplementsHeaviestChain
