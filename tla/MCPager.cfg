SPECIFICATION Spec
CONSTANTS
  n1 = n1  n2 = n2  n3 = n3  n4 = n4  n5 = n5  p1 = p1  p2 = p2
  Node <- MCNode
  Page <- MCPage
  Network <- MCNetwork
  Setups <- MCSetups
  MaxPeers = 2
  MaxKnown = 1
  NoMsg = NoMsg
INVARIANTS HandshakeSound PagesSpread PagedOnce CapacityUnlessOverlap
CHECK_DEADLOCK FALSE
