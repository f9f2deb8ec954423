SPECIFICATION Spec
CONSTANTS
  a1 = a1
  e1 = e1
  fire = fire
  r1 = r1
  r2 = r2
  t1 = t1
  Request = {r1, r2}
  Entity = {e1}
  Terminal = {t1}
  OccType = {fire}
  AdminRequest = {a1}
  NoPermission = NoPermission
  Mandatory = {TRUE}
  MaxRules = 1
  ResponseStatus = {}
  SeedRuns = TRUE
SYMMETRY SymmetryRequest
INVARIANTS
  NumbersDrawnOnce
  NumbersUnique
PROPERTIES
  CounterNeverRegresses
