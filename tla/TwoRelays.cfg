SPECIFICATION ProjSpec
CONSTANTS
  Keys = {k1}
  Ids = {1, 2}
  Seqs = {1, 2}
  Relays = {relay1, relay2}
  Partitions = {"p1"}
  PartitionOf <- MCPartitionOf
  MaxFailures = 0
  MaxExpiries = 0
INVARIANT
  DrainedIsTable
CHECK_DEADLOCK FALSE
