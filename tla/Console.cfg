SPECIFICATION FairSpec
CONSTANTS
  Nodes = {n1}
  Selections = {"mallory", "grace"}
  Seeds <- MCSeeds
  Revocable <- MCRevocable
  Deciding <- MCDeciding
  MaxLoads = 2
  MaxClicks = 2
  MaxSelects = 1
INVARIANTS
  ConsoleTypeOK
  GraphIsCurrent
PROPERTIES
  
  OvertakenIsDropped
  RestoreRestores
  
  
