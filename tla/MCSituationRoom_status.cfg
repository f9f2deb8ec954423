SPECIFICATION Spec
CONSTANTS
  o1 = o1
  p1 = p1
  p2 = p2
  h1 = h1
  h2 = h2
  Occurrence = {o1}
  Plan = {p1, p2}
  Handler = {h1, h2}
  NoPlan = NoPlan
  SameTerminal <- MCSameTerminal
  OpenedAs = {"aberto", "em atendimento"}
  StatusAsked = {"aberto", "em atendimento", "resolvido"}
  TypesPosted = {"atualizacao de status", "ocorrencia resolvida"}
  PlanStatusAsked = {}
  StepCounts = {}
  MaxEvents = 4
  MaxItems = 0
SYMMETRY Symmetry
INVARIANTS
  TypeOK
  StatusFollowsTimeline
  PreviousStatusReal
  ResolvedAtAccounted
  StatusNewsTrue
PROPERTIES
  ImplementsCaseFile
