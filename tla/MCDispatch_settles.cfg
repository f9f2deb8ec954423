SPECIFICATION FairSpec
CONSTANTS
  a1 = a1
  e1 = e1
  fire = fire
  r1 = r1
  spill = spill
  t1 = t1
  Request = {r1}
  Entity = {e1}
  Terminal = {t1}
  OccType = {fire, spill}
  AdminRequest = {a1}
  NoPermission = NoPermission
  Mandatory = {TRUE, FALSE}
  MaxRules = 2
  ResponseStatus = {"Confirmada"}
  SeedRuns = FALSE
INVARIANTS
  OneRulePerEntityAndType
PROPERTIES
  CreationSettles
  ImplementsCallOut
