SPECIFICATION Spec
CONSTANTS
  u1 = u1
  h1 = h1
  h2 = h2
  p1 = p1
  p2 = p2
  User = {u1}
  Handler = {h1, h2}
  Password = {p1, p2}
  Version = {"v1"}
  Occurrence = {"o1"}
  History = {"trainings"}
  TTL = 1
  ViewWindow = 1
  Day = 2
  Mixes <- MCMixes
  MaxTime = 2
  MaxRows = 3
  StatusAsked = {"ACTIVE", "INACTIVE"}
  Never = Never
SYMMETRY Symmetry
INVARIANTS
  TypeOK
  TokensOfCurrentPassword
  RotationRevokesFirst
  TermsGatingProved
  ReportAgrees
PROPERTIES
  ViewsApart
  HistoryBlocksExclusion
CHECK_DEADLOCK FALSE
