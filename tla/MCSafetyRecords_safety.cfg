SPECIFICATION Spec
CONSTANTS
  h1 = h1
  h2 = h2
  t1 = t1
  t2 = t2
  Terminal = {t1, t2}
  Person = {"ana"}
  Handler = {h1, h2}
  Mixes <- MCMixes
  MaxAsked = 2
  ModulesAsked = {{"trainings", "compliance"}}
  MaxTime = 1
  MaxRecords = 1
  MaxRows = 3
  None = None
SYMMETRY Symmetry
INVARIANTS
  TypeOK
  CoverageAgrees
PROPERTIES
  ListedHadModule
  NoSecondOpen
