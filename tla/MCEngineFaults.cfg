CONSTANTS
  Hash <- MCHash
  Numeric <- MCNumeric
  MaxHash = 3
  Genesis = 0
  NoHash = NoHash
  NoBlock = NoBlock
  Tx = {t1}
  MaxUncleDistance = 2
  MaxBlocks = 12
  MaxUncles = 0
  MaxCrashes = 2
SPECIFICATION FaultSpec
INVARIANT TipSurvives
INVARIANT TxIndexed
PROPERTY TipNeverWorse
CHECK_DEADLOCK FALSE
