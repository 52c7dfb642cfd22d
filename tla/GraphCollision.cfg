SPECIFICATION Spec
CONSTANTS
  Writers = {w1, w2}
  Keys <- MCCollidingKeys
  MaxId = 2
  MaxSeq = 3
INVARIANT
  GraphIsTable
CHECK_DEADLOCK FALSE
