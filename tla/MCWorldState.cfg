CONSTANTS
  Radix = 2
  Key <- MCKeys
  Value = {v1}
  NoValue = NoValue
  Block = {g, b1, b2, b3}
  Genesis = g
  Bounds <- MCBounds
SPECIFICATION Spec
INVARIANT ComputedStateMatches
INVARIANT WorldViews
INVARIANT StateFollowsTip
INVARIANT StatesAvailable
CHECK_DEADLOCK FALSE
SYMMETRY MCSymmetry
