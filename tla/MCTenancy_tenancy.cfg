SPECIFICATION Spec
CONSTANTS
  h1 = h1
  h2 = h2
  t1 = t1
  t2 = t2
  User = {u1}
  Terminal = {t1, t2}
  OccType = {incendio, vazamento}
  Handler = {h1, h2}
  Code = {2}
  Bodies <- MCBodies
  Mixes <- MCMixes
  Seeds = {1, 2}
  MaxRows <- MCMaxRows
  None = None
SYMMETRY Symmetry
INVARIANTS
  TypeOK
  ScopeAgrees
  PlanRisksSameTerminal
  RecordsKeepTerminal
  GeneratedCodeFree
CHECK_DEADLOCK FALSE
