SPECIFICATION Spec
CONSTANTS
  n1 = n1  n2 = n2  n3 = n3
  Node <- MCNode
  Hash <- MCHash
  Numeric <- MCNumeric
  MaxHash = 3
  Genesis = 0
  NoHash = NoHash
  NoBlock = NoBlock
  Tx = {}
  MaxUncleDistance = 5
  MaxBlocks = 100
SYMMETRY MCSymmetry
INVARIANTS RefusedOnlyWhenOvertaken NodesConverge
CHECK_DEADLOCK FALSE
