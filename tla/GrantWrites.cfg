SPECIFICATION Spec
CONSTANTS
  Writers = {w1, w2}
  Keys <- MCKeys
  MaxId = 3
  MaxSeq = 4
INVARIANTS
  TypeOK
  ReplayIsTable
  OneLifePerRow
  GraphIsTable
  
PROPERTY
  ImplementsLedger
\* the bounds on ids and numbers stop the system
CHECK_DEADLOCK FALSE
