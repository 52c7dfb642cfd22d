SPECIFICATION FairProjSpec
CONSTANTS
  Keys = {k1, k2}
  Ids = {1, 2, 3}
  Seqs = {1, 2, 3}
  Relays = {relay}
  Partitions = {"p1"}
  PartitionOf <- MCPartitionOf
  MaxFailures = 1
  MaxExpiries = 1
CONSTRAINT MCFirst
INVARIANTS
  ProjTypeOK
  DrainedIsTable
  BehindOnlyByPending
  AuditIsHistory
PROPERTY
  CatchesUp
CHECK_DEADLOCK FALSE
