SPECIFICATION WindowSpec
CONSTANTS
  Writers = {w1}
  Keys <- MCKeys
  Target <- MCTarget
  MaxId = 2
  MaxSeq = 4
  Nodes = {n1, n2}
  Requests = {n1, n2}
  Queries = {q1}
  Paths <- MCPaths
  MaxPolls = 1
  MaxSets = 1
CONSTRAINT OnePoll
INVARIANTS
  WindowTypeOK
  WarmIsWarm
  DenyIsCaused
  WindowIsLast
CHECK_DEADLOCK FALSE
