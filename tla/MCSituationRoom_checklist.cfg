SPECIFICATION Spec
CONSTANTS
  o1 = o1
  p1 = p1
  p2 = p2
  h1 = h1
  h2 = h2
  Occurrence = {o1}
  Plan = {p1, p2}
  Handler = {h1, h2}
  NoPlan = NoPlan
  SameTerminal <- MCSameTerminal
  OpenedAs = {"aberto"}
  StatusAsked = {}
  TypesPosted = {"plano de emergencia ativado"}
  PlanStatusAsked = {"ativo"}
  StepCounts = {1, 2}
  MaxEvents = 3
  MaxItems = 3
SYMMETRY Symmetry
INVARIANTS
  ChecklistFromLastPlan
PROPERTIES
  NoItemReturns
