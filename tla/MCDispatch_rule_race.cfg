SPECIFICATION Spec
CONSTANTS
  a1 = a1
  a2 = a2
  e1 = e1
  fire = fire
  r1 = r1
  t1 = t1
  Request = {r1}
  Entity = {e1}
  Terminal = {t1}
  OccType = {fire}
  AdminRequest = {a1, a2}
  NoPermission = NoPermission
  Mandatory = {TRUE}
  MaxRules = 2
  ResponseStatus = {}
  SeedRuns = FALSE
SYMMETRY SymmetryAdmin
INVARIANTS
  OneRulePerEntityAndType
