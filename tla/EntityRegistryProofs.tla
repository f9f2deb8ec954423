------------------------ MODULE EntityRegistryProofs ------------------------
(***************************************************************************)
(* What every step of the administrative handlers preserves, for any       *)
(* number of entities, terminals, rules and requests in flight.  The       *)
(* module has no specification of its own: DispatchProofs uses the facts   *)
(* for the steps of Dispatch that are steps of the registry.               *)
(***************************************************************************)
EXTENDS EntityRegistry, TLAPS

(* The values that pass through a handler in flight.                       *)
LEMMA HandlerStates ==
  /\ Idle \in HandlerState
  /\ \A e \in Entity, type \in OccType, m \in BOOLEAN :
       [op |-> "createRule", entity |-> e, type |-> type, mandatory |-> m] \in HandlerState
  /\ \A e \in Entity, U \in SUBSET Table :
       [op |-> "deleteEntity", entity |-> e, uncounted |-> U] \in HandlerState
BY DEF HandlerState, Idle

(* A creation of a rule in flight knows the rule it asks for.              *)
LEMMA CreateRuleState ==
  ASSUME NEW q \in HandlerState, q.op = "createRule"
  PROVE  q.entity \in Entity /\ q.type \in OccType /\ q.mandatory \in BOOLEAN
BY DEF HandlerState, Idle

(* An exclusion in flight knows its entity and the tables it has not       *)
(* counted.                                                                *)
LEMMA DeleteEntityState ==
  ASSUME NEW q \in HandlerState, q.op = "deleteEntity"
  PROVE  /\ q.entity \in Entity
         /\ q.uncounted \subseteq Table
         /\ \A U : [q EXCEPT !.uncounted = U]
                     = [op |-> "deleteEntity", entity |-> q.entity, uncounted |-> U]
BY DEF HandlerState, Idle

(* The row a changed rule or notification leaves is a row of its table.    *)
LEMMA ChangedRule ==
  ASSUME NEW x \in Rule, NEW m \in BOOLEAN
  PROVE  LET y == [x EXCEPT !.mandatory = m]
         IN  y \in Rule /\ y.entity = x.entity /\ y.id = x.id
BY DEF Rule

(* The same of a notification.                                             *)
LEMMA ChangedNotification ==
  ASSUME NEW n \in Notification, NEW s \in NotificationStatus,
         NEW c \in BOOLEAN, NEW d \in BOOLEAN
  PROVE  LET m == [n EXCEPT !.status = s, !.confirmed = c, !.responding = d]
         IN  m \in Notification /\ m.entity = n.entity /\ m.occ = n.occ /\ m.rule = n.rule
BY DEF Notification

-----------------------------------------------------------------------------
(* The tables are empty before the first request.                          *)
LEMMA RegistryInitTyped == RegistryInit => RegistryTypeOK /\ NoOrphanRows
BY HandlerStates DEF RegistryInit, RegistryTypeOK, NoOrphanRows

(* Every administrative step keeps the tables well typed.                  *)
LEMMA RegistryStepTyped ==
  ASSUME RegistryTypeOK, RegistryNext
  PROVE  RegistryTypeOK'
<1> USE DEF RegistryTypeOK, Become
<1>1. ASSUME NEW e \in Entity, NEW status \in {"Ativo", "Inativo"},
             CreateEntity(e, status) \/ UpdateEntity(e, status)
      PROVE  RegistryTypeOK'
  BY <1>1 DEF CreateEntity, UpdateEntity
<1>2. ASSUME NEW e \in Entity, RemoveEntity(e)
      PROVE  RegistryTypeOK'
  BY <1>2 DEF RemoveEntity
<1>3. ASSUME NEW e \in Entity, NEW terminalIds \in SUBSET Terminal,
             SetPermission(e, terminalIds)
      PROVE  RegistryTypeOK'
  BY <1>3 DEF SetPermission
<1>4. ASSUME NEW a \in AdminRequest, NEW e \in Entity, StartHardDelete(a, e)
      PROVE  RegistryTypeOK'
  BY <1>4, HandlerStates DEF StartHardDelete
<1>5. ASSUME NEW a \in AdminRequest, NEW e \in Entity, NEW type \in OccType,
             NEW m \in Mandatory, CheckRule(a, e, type, m)
      PROVE  RegistryTypeOK'
  BY <1>5, HandlerStates, RegistryAssumption DEF CheckRule
<1>6. ASSUME NEW a \in AdminRequest, CountRows(a)
      PROVE  RegistryTypeOK'
  <2>1. PICK table \in adminReq[a].uncounted :
          Become(a, IF RowsOf(adminReq[a].entity, table) = {}
                    THEN [adminReq[a] EXCEPT !.uncounted = @ \ {table}]
                    ELSE Idle)
    BY <1>6 DEF CountRows
  <2>2. adminReq[a] \in HandlerState /\ adminReq[a].op = "deleteEntity"
    BY <1>6 DEF CountRows
  <2>3. [adminReq[a] EXCEPT !.uncounted = @ \ {table}] \in HandlerState
    <3> DEFINE U == adminReq[a].uncounted \ {table}
    <3>1. /\ adminReq[a].entity \in Entity
          /\ U \in SUBSET Table
          /\ [adminReq[a] EXCEPT !.uncounted = U]
               = [op |-> "deleteEntity", entity |-> adminReq[a].entity, uncounted |-> U]
      BY <2>2, DeleteEntityState
    <3> QED BY <3>1, HandlerStates
  <2>4. adminReq' \in [AdminRequest -> HandlerState]
    BY <2>1, <2>3, HandlerStates
  <2> QED BY <1>6, <2>4 DEF CountRows
<1>7. ASSUME NEW a \in AdminRequest, HardDelete(a)
      PROVE  RegistryTypeOK'
  <2>1. adminReq[a] \in HandlerState /\ adminReq[a].entity \in Entity
    BY <1>7, DeleteEntityState DEF HardDelete
  <2>2. adminReq' \in [AdminRequest -> HandlerState]
    BY <1>7, HandlerStates DEF HardDelete
  <2> QED BY <1>7, <2>1, <2>2 DEF HardDelete, Survivors
<1>8. ASSUME NEW a \in AdminRequest, InsertRule(a)
      PROVE  RegistryTypeOK'
  <2>1. /\ adminReq[a].entity \in Entity
        /\ adminReq[a].type \in OccType
        /\ adminReq[a].mandatory \in BOOLEAN
    BY <1>8, CreateRuleState DEF InsertRule
  <2>2. adminReq' \in [AdminRequest -> HandlerState]
    BY <1>8, HandlerStates DEF InsertRule
  <2>3. rules' \subseteq Rule /\ ruleSeq' \in Nat
    BY <1>8, <2>1 DEF InsertRule, Rule
  <2> QED BY <1>8, <2>2, <2>3 DEF InsertRule
<1>9. ASSUME NEW a \in AdminRequest, AdminFail(a)
      PROVE  RegistryTypeOK'
  BY <1>9, HandlerStates DEF AdminFail
<1>10. ASSUME NEW x \in rules, RemoveRule(x)
       PROVE  RegistryTypeOK'
  BY <1>10 DEF RemoveRule
<1>11. ASSUME NEW x \in rules, NEW m \in Mandatory, SetMandatory(x, m)
       PROVE  RegistryTypeOK'
  BY <1>11, ChangedRule, RegistryAssumption DEF SetMandatory
<1>12. ASSUME NEW n \in notifications, NEW status \in ResponseStatus,
              UpdateNotification(n, status)
       PROVE  RegistryTypeOK'
  <2> DEFINE c == n.confirmed \/ status = "Confirmada"
             d == n.responding \/ status = "Em Atendimento"
  <2>1. notifications' = (notifications \ {n}) \cup
          {[n EXCEPT !.status = status, !.confirmed = c, !.responding = d]}
    BY <1>12 DEF UpdateNotification
  <2>2. n \in Notification /\ status \in NotificationStatus
    BY RegistryAssumption
  <2>3. c \in BOOLEAN /\ d \in BOOLEAN
    OBVIOUS
  <2>4. [n EXCEPT !.status = status, !.confirmed = c, !.responding = d] \in Notification
    BY <2>2, <2>3, ChangedNotification
  <2>5. notifications' \subseteq Notification
    BY <2>1, <2>4
  <2> QED BY <1>12, <2>5 DEF UpdateNotification
<1> QED
  BY <1>1, <1>2, <1>3, <1>4, <1>5, <1>6, <1>7, <1>8, <1>9, <1>10, <1>11, <1>12
  DEF RegistryNext

-----------------------------------------------------------------------------
(* A step that takes no entity away and adds no permission, rule or        *)
(* notification of an absent one keeps every row with its entity.          *)
LEMMA RowsKeptWithEntity ==
  ASSUME NoOrphanRows,
         \A e \in Entity : RowExists(e) => RowExists(e)',
         \A e \in Entity : permission'[e] # NoPermission =>
                             permission[e] # NoPermission \/ RowExists(e)',
         \A x \in rules' : (\E y \in rules : y.entity = x.entity) \/ RowExists(x.entity)',
         \A n \in notifications' :
           (\E m \in notifications : m.entity = n.entity) \/ RowExists(n.entity)',
         rules \subseteq Rule, notifications \subseteq Notification
  PROVE  NoOrphanRows'
<1>1. \A x \in rules : x.entity \in Entity
  BY DEF Rule
<1>2. \A n \in notifications : n.entity \in Entity
  BY DEF Notification
<1> QED BY <1>1, <1>2 DEF NoOrphanRows

(* Every administrative step leaves each row with its entity: the foreign  *)
(* keys refuse the late inserts, and a permanent exclusion cascades.       *)
LEMMA RegistryStepRows ==
  ASSUME RegistryTypeOK, NoOrphanRows, RegistryNext
  PROVE  NoOrphanRows'
<1> USE DEF RegistryTypeOK
<1>1. ASSUME NEW e \in Entity, NEW status \in {"Ativo", "Inativo"},
             CreateEntity(e, status) \/ UpdateEntity(e, status)
      PROVE  NoOrphanRows'
  BY <1>1, RowsKeptWithEntity DEF CreateEntity, UpdateEntity, RowExists
<1>2. ASSUME NEW e \in Entity, RemoveEntity(e)
      PROVE  NoOrphanRows'
  BY <1>2, RowsKeptWithEntity DEF RemoveEntity, RowExists
<1>3. ASSUME NEW e \in Entity, NEW terminalIds \in SUBSET Terminal,
             SetPermission(e, terminalIds)
      PROVE  NoOrphanRows'
  BY <1>3, RowsKeptWithEntity DEF SetPermission, RowExists
<1>4. ASSUME NEW a \in AdminRequest, HardDelete(a)
      PROVE  NoOrphanRows'
  <2> DEFINE e == adminReq[a].entity
  <2>1. e \in Entity
    BY <1>4, DeleteEntityState DEF HardDelete
  <2>2. CASE RowExists(e)
    <3>1. /\ entityStatus'  = [entityStatus EXCEPT ![e] = "deleted"]
          /\ permission'    = [permission EXCEPT ![e] = NoPermission]
          /\ rules'         = {x \in rules : x.entity # e}
          /\ notifications' = {n \in notifications : n.entity # e}
      BY <1>4, <2>2 DEF HardDelete, Survivors
    <3>2. \A f \in Entity : f # e /\ RowExists(f) => RowExists(f)'
      BY <2>1, <3>1 DEF RowExists
    <3>3. \A x \in rules' : x.entity \in Entity /\ x.entity # e /\ RowExists(x.entity)
      BY <3>1 DEF NoOrphanRows, Rule
    <3>4. \A n \in notifications' :
            n.entity \in Entity /\ n.entity # e /\ RowExists(n.entity)
      BY <3>1 DEF NoOrphanRows, Notification
    <3>5. \A f \in Entity : permission'[f] # NoPermission => f # e /\ RowExists(f)
      BY <2>1, <3>1 DEF NoOrphanRows
    <3> QED BY <3>2, <3>3, <3>4, <3>5 DEF NoOrphanRows
  <2>3. CASE ~ RowExists(e)
    BY <1>4, <2>3 DEF HardDelete, NoOrphanRows, RowExists
  <2> QED BY <2>2, <2>3
<1>5. ASSUME NEW a \in AdminRequest, InsertRule(a)
      PROVE  NoOrphanRows'
  BY <1>5, RowsKeptWithEntity DEF InsertRule, RowExists
<1>6. ASSUME NEW x \in rules, NEW m \in Mandatory, SetMandatory(x, m)
      PROVE  NoOrphanRows'
  <2>1. [x EXCEPT !.mandatory = m].entity = x.entity
    BY ChangedRule, RegistryAssumption
  <2> QED BY <1>6, <2>1, RowsKeptWithEntity DEF SetMandatory, RowExists
<1>7. ASSUME NEW x \in rules, RemoveRule(x)
      PROVE  NoOrphanRows'
  BY <1>7, RowsKeptWithEntity DEF RemoveRule, RowExists
<1>8. ASSUME NEW n \in notifications, NEW status \in ResponseStatus,
             UpdateNotification(n, status)
      PROVE  NoOrphanRows'
  <2>1. \A m \in notifications' : \E k \in notifications : k.entity = m.entity
    BY <1>8 DEF UpdateNotification, Notification
  <2> QED BY <1>8, <2>1, RowsKeptWithEntity DEF UpdateNotification, RowExists
<1>9. CASE \E a \in AdminRequest :
             \/ \E e \in Entity : StartHardDelete(a, e)
             \/ \E e \in Entity, type \in OccType, m \in Mandatory : CheckRule(a, e, type, m)
             \/ CountRows(a)
             \/ AdminFail(a)
  BY <1>9 DEF StartHardDelete, CheckRule, CountRows, AdminFail, NoOrphanRows, RowExists
<1> QED
  BY <1>1, <1>2, <1>3, <1>4, <1>5, <1>6, <1>7, <1>8, <1>9 DEF RegistryNext
=============================================================================
