SPECIFICATION Spec
CONSTANTS
  Users = {ada}
  Teams = {t1, t2}
  Resources = {r1, r2, r3}
  Depths = {1, 3}
  MaxGrants = 2
SYMMETRY MCSymmetry
INVARIANTS
  GraphTypeOK
  
  
  

  
