SPECIFICATION Spec
CONSTANTS
  Users = {ada}
  Teams = {t1}
  Resources = {r1}
  Depths = {1, 3}
  MaxGrants = 1
INVARIANT
  BootstrapSucceeds
