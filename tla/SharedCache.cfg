SPECIFICATION SysSpec
CONSTANTS
  Writers = {w1}
  Keys <- MCUser
  MaxId = 1
  MaxSeq = 2
  Nodes = {n1, n2}
  Queries = {q1}
  Paths <- MCPaths
  Requests = {c1}
  MaxPolls = 0
  MaxSets = 1
INVARIANTS
  FreshUnlessRaced
  CurrentUnlessRaced
CHECK_DEADLOCK FALSE
CONSTRAINT Small
SYMMETRY NodeSymmetry
