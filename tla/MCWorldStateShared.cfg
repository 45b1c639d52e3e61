CONSTANTS
  Radix = 2
  Key <- MCKeys
  Value = {v1}
  NoValue = NoValue
  Block = {g, b1, b2}
  Genesis = g
  Bounds <- MCTwoOnly
SPECIFICATION Spec
INVARIANT CandidateAvailable
CHECK_DEADLOCK FALSE
