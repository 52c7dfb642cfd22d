SPECIFICATION SysFairSpec
CONSTANTS
  Writers = {w1}
  Keys <- MCUser
  MaxId = 1
  MaxSeq = 2
  Nodes = {n1}
  Queries = {q1}
  Paths <- MCPaths
  Requests = {c1}
  MaxPolls = 1
  MaxSets = 1
PROPERTIES
  NodesConverge
  StalenessEnds
CHECK_DEADLOCK FALSE
