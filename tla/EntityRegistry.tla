--------------------------- MODULE EntityRegistry ---------------------------
(***************************************************************************)
(* The administrative tables that decide who is called in an emergency:    *)
(* entities (fire brigade, port authority, ...), the terminals each of     *)
(* them serves (Permission), the dispatch rules (NotificationRule) and the *)
(* notifications already dispatched (EntityNotification), for one          *)
(* organization, with the HTTP handlers that write them.                   *)
(*                                                                         *)
(* A handler is a chain of awaited Prisma statements and no transaction    *)
(* spans two of them, so a handler whose later statement depends on an     *)
(* earlier read is split at that await; its local variables live in        *)
(* adminReq until it answers.  A handler whose first statement only checks *)
(* that the row is there (ensureExists) is one action: the write that      *)
(* follows fails by itself when the row has gone.                          *)
(***************************************************************************)
EXTENDS Naturals, FiniteSets

CONSTANTS
  Entity,         \* ids of entities; one id is one row, never used again
  Terminal,       \* ids of the organization's terminals
  OccType,        \* occurrence types the instance uses
  Request,        \* POST /occurrences requests; the id of the occurrence too
  AdminRequest,   \* administrative requests that may be in flight at once
  NoPermission,   \* "this entity has no Permission row"
  Mandatory,      \* values of "mandatory" the rule requests carry
  MaxRules,       \* bound: rules created in a behaviour
  ResponseStatus  \* statuses the PUT /entity-notifications/:id calls carry

NotificationStatus == {"Notificada", "Em Atendimento", "Confirmada", "Pendente"}

ASSUME RegistryAssumption ==
  /\ \A S \in SUBSET Terminal : NoPermission # S
  /\ Mandatory \subseteq BOOLEAN
  /\ MaxRules \in Nat
  /\ ResponseStatus \subseteq NotificationStatus

VARIABLES
  entityStatus,   \* Entity -> "none" (no row yet), "Ativo", "Inativo", "deleted"
  permission,     \* Entity -> terminalIds of its Permission row, or NoPermission
  rules,          \* rows of NotificationRule
  ruleSeq,        \* how many rule ids have been handed out
  notifications,  \* rows of EntityNotification
  adminReq        \* AdminRequest -> local state of the handler it runs

registryVars == <<entityStatus, permission, rules, ruleSeq, notifications, adminReq>>

Rule == [id : Nat, entity : Entity, type : OccType, mandatory : BOOLEAN]

(* A notification is named by the occurrence and the rule it comes from:   *)
(* the loop that inserts it runs once for each of them.                    *)
Notification ==
  [occ : Request, rule : Nat, entity : Entity, mandatory : BOOLEAN,
   status : NotificationStatus, confirmed : BOOLEAN, responding : BOOLEAN]

Table == {"permission", "rules", "notifications"}

Idle == [op |-> "idle"]
HandlerState ==
       {Idle}
  \cup [op : {"createRule"}, entity : Entity, type : OccType, mandatory : BOOLEAN]
  \cup [op : {"deleteEntity"}, entity : Entity, uncounted : SUBSET Table]

-----------------------------------------------------------------------------
RowExists(e) == entityStatus[e] \in {"Ativo", "Inativo"}

(* permission?.terminalIds ?? [] *)
PermittedTerminals(e) == IF permission[e] = NoPermission THEN {} ELSE permission[e]

Become(a, s) == adminReq' = [adminReq EXCEPT ![a] = s]

RegistryInit ==
  /\ entityStatus  = [e \in Entity |-> "none"]
  /\ permission    = [e \in Entity |-> NoPermission]
  /\ rules         = {}
  /\ ruleSeq       = 0
  /\ notifications = {}
  /\ adminReq      = [a \in AdminRequest |-> Idle]

-----------------------------------------------------------------------------
(* EntitiesService *)

CreateEntity(e, status) ==
  /\ entityStatus[e] = "none"
  /\ entityStatus' = [entityStatus EXCEPT ![e] = status]
  /\ UNCHANGED <<permission, rules, ruleSeq, notifications, adminReq>>

UpdateEntity(e, status) ==
  /\ RowExists(e)
  /\ entityStatus' = [entityStatus EXCEPT ![e] = status]
  /\ UNCHANGED <<permission, rules, ruleSeq, notifications, adminReq>>

(* Mutant: the soft delete clears the entity's notifications too.          *)
RemoveEntityPurging(e) ==
  /\ RowExists(e)
  /\ entityStatus' = [entityStatus EXCEPT ![e] = "Inativo"]
  /\ notifications' = {n \in notifications : n.entity # e}
  /\ UNCHANGED <<permission, rules, ruleSeq, adminReq>>

(* DELETE /entities/:id is a soft delete. *)
RemoveEntity(e) ==
  /\ RowExists(e)
  /\ entityStatus' = [entityStatus EXCEPT ![e] = "Inativo"]
  /\ UNCHANGED <<permission, rules, ruleSeq, notifications, adminReq>>

(* hardDelete: the row is there, and three counts are sent side by side.   *)
StartHardDelete(a, e) ==
  /\ adminReq[a] = Idle
  /\ RowExists(e)
  /\ Become(a, [op |-> "deleteEntity", entity |-> e, uncounted |-> Table])
  /\ UNCHANGED <<entityStatus, permission, rules, ruleSeq, notifications>>

RowsOf(e, table) ==
  CASE table = "permission"    -> IF permission[e] = NoPermission THEN {} ELSE {e}
    [] table = "rules"         -> {x \in rules : x.entity = e}
    [] table = "notifications" -> {n \in notifications : n.entity = e}

(* One of the counts returns; a count above zero makes the answer a 409    *)
(* and nothing is deleted.                                                 *)
CountRows(a) ==
  /\ adminReq[a].op = "deleteEntity"
  /\ \E table \in adminReq[a].uncounted :
       Become(a, IF RowsOf(adminReq[a].entity, table) = {}
                 THEN [adminReq[a] EXCEPT !.uncounted = @ \ {table}]
                 ELSE Idle)
  /\ UNCHANGED <<entityStatus, permission, rules, ruleSeq, notifications>>

(* Mutant: the foreign keys do not cascade.                                *)
LeftBehind(rows, e) == rows

(* onDelete: Cascade of the tables that reference Entity.                  *)
Survivors(rows, e) == {x \in rows : x.entity # e}

(* entity.delete: the foreign keys of the three tables cascade.            *)
HardDelete(a) ==
  /\ adminReq[a].op = "deleteEntity"
  /\ adminReq[a].uncounted = {}
  /\ LET e == adminReq[a].entity
     IN  IF RowExists(e)
         THEN /\ entityStatus'  = [entityStatus EXCEPT ![e] = "deleted"]
              /\ permission'    = [permission EXCEPT ![e] = NoPermission]
              /\ rules'         = Survivors(rules, e)
              /\ notifications' = Survivors(notifications, e)
         ELSE UNCHANGED <<entityStatus, permission, rules, notifications>>
  /\ Become(a, Idle)
  /\ UNCHANGED ruleSeq

-----------------------------------------------------------------------------
(* PermissionsService: one upsert, refused by the foreign key without the  *)
(* entity.                                                                 *)
SetPermission(e, terminalIds) ==
  /\ RowExists(e)
  /\ permission' = [permission EXCEPT ![e] = terminalIds]
  /\ UNCHANGED <<entityStatus, rules, ruleSeq, notifications, adminReq>>

-----------------------------------------------------------------------------
(* NotificationRulesService *)

(* Mutant: only mandatory rules are looked up.                             *)
NoMandatoryRule(e, type) ==
  ~ \E x \in rules : x.type = type /\ x.entity = e /\ x.mandatory

NoRuleYet(e, type) == ~ \E x \in rules : x.type = type /\ x.entity = e

(* create, first statement: a rule that joins this type and this entity is *)
(* a conflict.                                                             *)
CheckRule(a, e, type, mandatory) ==
  /\ adminReq[a] = Idle
  /\ NoRuleYet(e, type)
  /\ Become(a, [op |-> "createRule", entity |-> e, type |-> type,
                mandatory |-> mandatory])
  /\ UNCHANGED <<entityStatus, permission, rules, ruleSeq, notifications>>

(* create, second statement: the insert, which only the foreign key can    *)
(* refuse.                                                                 *)
InsertRule(a) ==
  LET q == adminReq[a]
  IN  /\ q.op = "createRule"
      /\ IF RowExists(q.entity)
         THEN /\ ruleSeq < MaxRules
              /\ ruleSeq' = ruleSeq + 1
              /\ rules' = rules \cup {[id |-> ruleSeq', entity |-> q.entity,
                                       type |-> q.type, mandatory |-> q.mandatory]}
         ELSE UNCHANGED <<rules, ruleSeq>>
      /\ Become(a, Idle)
      /\ UNCHANGED <<entityStatus, permission, notifications>>

SetMandatory(x, mandatory) ==
  /\ rules' = (rules \ {x}) \cup {[x EXCEPT !.mandatory = mandatory]}
  /\ UNCHANGED <<entityStatus, permission, ruleSeq, notifications, adminReq>>

RemoveRule(x) ==
  /\ rules' = rules \ {x}
  /\ UNCHANGED <<entityStatus, permission, ruleSeq, notifications, adminReq>>

-----------------------------------------------------------------------------
(* EntityNotificationsService.updateStatus: the status in the body is      *)
(* written over whatever the row holds.                                    *)
UpdateNotification(n, status) ==
  /\ notifications' = (notifications \ {n}) \cup
       {[n EXCEPT !.status     = status,
                  !.confirmed  = @ \/ status = "Confirmada",
                  !.responding = @ \/ status = "Em Atendimento"]}
  /\ UNCHANGED <<entityStatus, permission, rules, ruleSeq, adminReq>>

-----------------------------------------------------------------------------
(* A statement of the handler in flight is refused by the database, or     *)
(* never sent: the request ends with a 500 and what was written stays.     *)
AdminFail(a) ==
  /\ adminReq[a] # Idle
  /\ Become(a, Idle)
  /\ UNCHANGED <<entityStatus, permission, rules, ruleSeq, notifications>>

RegistryNext ==
  \/ \E e \in Entity, status \in {"Ativo", "Inativo"} :
       CreateEntity(e, status) \/ UpdateEntity(e, status)
  \/ \E e \in Entity : RemoveEntity(e)
  \/ \E e \in Entity, terminalIds \in SUBSET Terminal : SetPermission(e, terminalIds)
  \/ \E a \in AdminRequest :
       \/ \E e \in Entity : StartHardDelete(a, e)
       \/ \E e \in Entity, type \in OccType, m \in Mandatory : CheckRule(a, e, type, m)
       \/ CountRows(a)
       \/ HardDelete(a)
       \/ InsertRule(a)
       \/ AdminFail(a)
  \/ \E x \in rules : RemoveRule(x) \/ \E m \in Mandatory : SetMandatory(x, m)
  \/ \E n \in notifications, status \in ResponseStatus : UpdateNotification(n, status)

RegistryTypeOK ==
  /\ entityStatus  \in [Entity -> {"none", "Ativo", "Inativo", "deleted"}]
  /\ permission    \in [Entity -> {NoPermission} \cup SUBSET Terminal]
  /\ rules         \subseteq Rule
  /\ ruleSeq       \in Nat
  /\ notifications \subseteq Notification
  /\ adminReq      \in [AdminRequest -> HandlerState]

(* The rule ids handed out are the ids in use, each by one row.            *)
RuleIdsFresh ==
  /\ \A x \in rules : x.id \in 1 .. ruleSeq
  /\ \A x, y \in rules : x.id = y.id => x = y

(* No permission, rule or notification row outlives its entity: whatever   *)
(* a request read before a permanent exclusion, the foreign keys refuse    *)
(* the insert that comes after it and cascade over the one that came       *)
(* before (schema.prisma, onDelete: Cascade).                              *)
NoOrphanRows ==
  /\ \A e \in Entity : permission[e] # NoPermission => RowExists(e)
  /\ \A x \in rules : RowExists(x.entity)
  /\ \A n \in notifications : RowExists(n.entity)
=============================================================================
