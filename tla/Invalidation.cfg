SPECIFICATION SysSpec
CONSTANTS
  Writers = {w1, w2}
  Keys <- MCUserAndTeam
  MaxId = 2
  MaxSeq = 2
  Nodes = {n1}
  Queries = {q1}
  Paths <- MCPaths
  Requests = {c1}
  MaxPolls = 1
  MaxSets = 1
INVARIANTS
  SysTypeOK
  
  FreshUnlessRaced
  CurrentUnlessRaced
  NeverAhead
PROPERTY
  NeverRewinds
CHECK_DEADLOCK FALSE
CONSTRAINT Small
SYMMETRY WriterSymmetry
