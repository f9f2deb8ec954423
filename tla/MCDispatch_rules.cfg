SPECIFICATION Spec
CONSTANTS
  a1 = a1
  e1 = e1
  e2 = e2
  fire = fire
  r1 = r1
  t1 = t1
  Request = {r1}
  Entity = {e1, e2}
  Terminal = {t1}
  OccType = {fire}
  AdminRequest = {a1}
  NoPermission = NoPermission
  Mandatory = {TRUE}
  MaxRules = 2
  ResponseStatus = {}
  SeedRuns = FALSE
SYMMETRY SymmetryEntity
INVARIANTS
  TypeOK
  AnnouncedLast
  NotificationsTraced
  EventsBacked
  AuditTruthful
  NoOrphanRows
PROPERTIES
  TimelineAppendOnly
