------------------------------- MODULE Tenancy -------------------------------
(***************************************************************************)
(* Terminals, the users attached to them, and the records that belong to   *)
(* one terminal: risks, map elements, PAE documents, action plans with the *)
(* risks they answer to, alerts and occurrences.  What a list shows        *)
(* (tenantScope) and what a request for one record is granted              *)
(* (userCanAccessTerminal, checkTenantAccess) are two pieces of code; they *)
(* must agree for every user an administrator can make.                    *)
(*                                                                         *)
(* One organization and one entity are modelled.  A request works on the   *)
(* row of its user that JwtStrategy read when it came (who), however the   *)
(* user is edited meanwhile.  As in Accounts, a behaviour calls the        *)
(* operations of one member of Mixes.                                      *)
(***************************************************************************)
EXTENDS Naturals, FiniteSets

CONSTANTS
  User,      \* accounts the records' requests come from
  Terminal,  \* ids of terminals; one id is one row, never used again
  OccType,   \* occurrence types
  Handler,   \* requests that may be in flight at once
  Code,      \* codes an administrator types: numbers, as generated ones are
  Bodies,    \* sets of fields the bodies of PUT /users/:id carry
  Mixes,     \* bound: sets of operations; a behaviour calls those of one of them
  Seeds,     \* bound: how many terminals the seed may have made
  MaxRows,   \* bound: member of Mixes -> records created in such a behaviour
  None       \* a null reference

Role == {"admin", "terminal", "entity"}
Kind == {"risk", "element", "document", "plan", "alert", "occurrence"}
TerminalStatus == {"Ativo", "Inativo", "Revisao"}
Field == {"role", "home", "linked", "allowed", "types"}
Operation == Kind \cup {"scope", "terminals", "exclude", "change"}

(* A table of terminals holds finitely many rows, and an id is no null;    *)
(* codes, seeds and ids are numbers.                                       *)
ASSUME TenancyAssumption ==
  /\ None \notin Terminal
  /\ IsFiniteSet(Terminal)
  /\ Code \subseteq Nat
  /\ Bodies \subseteq SUBSET Field
  /\ Mixes \subseteq SUBSET Operation
  /\ Seeds \subseteq Nat /\ MaxRows \in [Mixes -> Nat]

VARIABLES
  member,     \* User -> role, home, entity link and lists of its row, None before
  permitted,  \* terminalIds of the entity's Permission
  terminal,   \* Terminal -> status of its row, and its code
  disturbed,  \* has a code been typed or a terminal excluded (history)
  records,    \* rows of the tables of Kind
  links,      \* rows of PlanRisk, as <<plan, risk>>
  rowSeq,     \* ids handed out
  calls,      \* the operations this behaviour calls; never changes
  req         \* Handler -> local state of the request it serves

recordVars   == <<records, links, rowSeq>>
terminalVars == <<terminal, disturbed>>
vars == <<member, permitted, terminalVars, recordVars, calls, req>>

Nullable(S) == S \cup {None}
Member == [role : Role, home : Nullable(Terminal), linked : BOOLEAN,
           allowed : SUBSET Terminal, types : SUBSET OccType]
AlertStatus == {"ACTIVE", "ACKNOWLEDGED", "RESOLVED"}

(* detail: the status of an alert, the type of an occurrence; active: the  *)
(* isActive of an occurrence, which no other table here has.               *)
Record == [id : Nat, kind : Kind, terminal : Terminal,
           detail : {None} \cup AlertStatus \cup OccType, active : BOOLEAN]

Idle == [next |-> "idle"]
HandlerState ==
       {Idle}
  \cup [next : {"insert"}, kind : Kind, terminal : Terminal, detail : Nullable(OccType)]
  \cup [next : {"risks"}, plan : Nullable(Nat), terminal : Terminal, asked : SUBSET Nat]
  \cup [next : {"save"}, plan : Nullable(Nat), terminal : Terminal, risks : SUBSET Nat]
  \cup [next : {"remove"}, id : Nat, terminal : Terminal]
  \cup [next : {"change"}, id : Nat, terminal : Terminal, type : Nullable(OccType)]
  \cup [next : {"code"}, terminal : Terminal, code : Nat]
  \cup [next : {"count"}, terminal : Terminal, uncounted : SUBSET (Kind \cup {"user"}),
        found : BOOLEAN]

-----------------------------------------------------------------------------
Become(h, s)      == req' = [req EXCEPT ![h] = s]
Begin(h, s)       == req[h] = Idle /\ Become(h, s)
TerminalExists(t) == terminal[t].status \in TerminalStatus
Existing          == {t \in Terminal : TerminalExists(t)}
Members           == {u \in User : member[u] # None}
OfKind(kind)      == {r \in records : r.kind = kind}
Codes             == {terminal[t].code : t \in Existing}

-----------------------------------------------------------------------------
(* tenant-scope.ts *)

EntityPermittedTerminals(who) == IF who.linked THEN permitted ELSE {}

Home(who) == IF who.home = None THEN {} ELSE {who.home}

(* Mutant: the additional terminals replace the home one.                  *)
AllowedOrHome(who) == IF who.allowed = {} THEN Home(who) ELSE who.allowed

TerminalIdsForUser(who) == Home(who) \cup who.allowed

(* tenantScope, as the terminals whose records a list shows.               *)
TenantScope(who) ==
  CASE who.role = "admin"    -> IF who.allowed = {} THEN Terminal ELSE who.allowed
    [] who.role = "terminal" -> TerminalIdsForUser(who)
    [] who.role = "entity"   -> EntityPermittedTerminals(who)

UserCanAccessTerminal(who, t) ==
  CASE who.role = "admin"    -> who.allowed = {} \/ t \in who.allowed
    [] who.role = "terminal" -> t = who.home \/ t \in who.allowed
    [] who.role = "entity"   -> t \in who.allowed

(* resolveTerminalId: the home of a user who is not an administrator wins  *)
(* over the body; None when there is no such terminal.                     *)
ResolveTerminalId(who, asked) ==
  LET t == IF who.role # "admin" /\ who.home # None THEN who.home ELSE asked
  IN  IF t \in Existing THEN t ELSE None

(* AuthService.effectiveAllowedTerminals: what login tells a user.         *)
EffectiveAllowedTerminals(who) ==
  IF who.role = "entity" /\ who.linked THEN permitted ELSE who.allowed

(* TerminalsService.findAll, which does not ask the Permission.            *)
VisibleTerminals(who) ==
  CASE who.role = "terminal" -> Home(who) \cup who.allowed
    [] who.role = "entity"   -> who.allowed
    [] who.role = "admin"    -> IF who.allowed = {} THEN Terminal ELSE who.allowed

(* RolesGuard, with the @Roles('admin', 'terminal') of the write routes.   *)
MayWrite(who) == who.role \in {"admin", "terminal"}

(* findAll and findOwned of risks, map elements, documents and plans.      *)
ListsRecord(who, r) == r.terminal \in TenantScope(who)
Owned(who, r) == who.role = "admin" \/ UserCanAccessTerminal(who, r.terminal)

(* EmergencyService.findAll without further filters, and checkTenantAccess,*)
(* which does not ask whether the occurrence was removed.                  *)
TypeAllowed(who, r) == who.role = "admin" \/ r.detail \in who.types
ListsOccurrence(who, r) == r.active /\ ListsRecord(who, r) /\ TypeAllowed(who, r)
CheckTenantAccess(who, r) ==
  /\ TypeAllowed(who, r)
  /\ CASE who.role = "admin"    -> TRUE
       [] who.role = "terminal" -> UserCanAccessTerminal(who, r.terminal)
       [] who.role = "entity"   -> r.terminal \in EntityPermittedTerminals(who)

(* EntityNotificationsService.findAll asks the scope of the occurrence and *)
(* neither its type nor whether it was removed; AlertsService.findAll asks *)
(* the home terminal alone.                                                *)
ListsNotifications(who, o) == ListsRecord(who, o)
ListsAlert(who, r) == who.role = "admin" \/ r.terminal = who.home

-----------------------------------------------------------------------------
(* What the seed leaves: terminals numbered in order, an administrator,    *)
(* users of a terminal, a user of the entity, and what the entity serves;  *)
(* it gives every type to users without one who are not administrators.    *)
SeededTerminals(n, code) ==
  /\ \A c \in 1 .. n : Cardinality({t \in Terminal : code[t] = c}) = 1
  /\ terminal = [t \in Terminal |->
       [status |-> CASE code[t] = 0 -> "none" [] code[t] = 2 -> "Revisao" [] OTHER -> "Ativo",
        code   |-> code[t]]]

SeededUsers ==
  LET row(role, home, linked) ==
        [role |-> role, home |-> home, linked |-> linked, allowed |-> {},
         types |-> IF role = "admin" THEN {} ELSE OccType]
  IN  {row("admin", None, FALSE), row("entity", None, TRUE)}
        \cup {row("terminal", t, FALSE) : t \in Existing}

Init ==
  /\ \E n \in Seeds : \E code \in [Terminal -> 0 .. n] : SeededTerminals(n, code)
  /\ member \in [User -> Nullable(SeededUsers)]
  /\ permitted \in SUBSET Existing
  /\ disturbed = FALSE
  /\ records   = {}
  /\ links     = {}
  /\ rowSeq    = 0
  /\ calls \in Mixes
  /\ req       = [h \in Handler |-> Idle]

(* UsersService.create: an entity user has no terminal; any other one gets *)
(* the terminal of the body, or that of the administrator who creates it.  *)
CreateUser(u, role, home, linked, allowed, types) ==
  /\ member[u] = None
  /\ home # None => TerminalExists(home)
  /\ member' = [member EXCEPT ![u] =
       [role |-> role, allowed |-> allowed, types |-> types,
        home |-> IF role = "entity" THEN None ELSE home,
        linked |-> role = "entity" /\ linked]]
  /\ UNCHANGED <<permitted, terminalVars, recordVars, req>>

(* UsersService.update: a role in the body clears the link of the other    *)
(* role, and a link in the body is written whatever the role is; what the  *)
(* body does not carry (None) stays as it is.                              *)
UpdateUser(u, role, home, linked, allowed, types) ==
  /\ member[u] # None
  /\ home # None => TerminalExists(home)
  /\ member' = [member EXCEPT
       ![u].role    = IF role # None THEN role ELSE @,
       ![u].home    = IF home = None /\ role = "entity" THEN None
                      ELSE IF home = None THEN @ ELSE home,
       ![u].linked  = CASE linked # None -> linked
                        [] linked = None /\ role \in Role \ {"entity"} -> FALSE
                        [] OTHER -> @,
       ![u].allowed = IF allowed # None THEN allowed ELSE @,
       ![u].types   = IF types # None THEN types ELSE @]
  /\ UNCHANGED <<permitted, terminalVars, recordVars, req>>

SetPermission(terminalIds) ==
  /\ permitted' = terminalIds
  /\ UNCHANGED <<member, terminalVars, recordVars, req>>

-----------------------------------------------------------------------------
(* TerminalsService.  create: the code of the body, or the number of       *)
(* terminals plus one, and the insert, which the key (organization, code)  *)
(* refuses for a code in use.  A status in the body is left to update.     *)

(* Mutant: inactivated terminals are not counted.                          *)
CountActive == 1 + Cardinality({t \in Terminal : terminal[t].status = "Ativo"})

GenerateCode == 1 + Cardinality(Existing)

AskTerminal(h, t) ==
  /\ Begin(h, [next |-> "code", terminal |-> t, code |-> GenerateCode])
  /\ UNCHANGED <<member, permitted, terminalVars, recordVars>>

AskTerminalWithCode(h, t, code) ==
  /\ Begin(h, [next |-> "code", terminal |-> t, code |-> code])
  /\ disturbed' = TRUE
  /\ UNCHANGED <<member, permitted, terminal, recordVars>>

CreateTerminal(h) ==
  LET q == req[h]
  IN  /\ q.next = "code"
      /\ Become(h, Idle)
      /\ terminal' = IF terminal[q.terminal].status = "none" /\ q.code \notin Codes
                     THEN [terminal EXCEPT ![q.terminal] = [status |-> "Ativo", code |-> q.code]]
                     ELSE terminal
      /\ UNCHANGED <<member, permitted, disturbed, recordVars>>

UpdateTerminal(t, code, status) ==
  /\ TerminalExists(t)
  /\ code = terminal[t].code \/ code \notin Codes
  /\ terminal'  = [terminal EXCEPT ![t] = [status |-> status, code |-> code]]
  /\ disturbed' = (disturbed \/ code # terminal[t].code)
  /\ UNCHANGED <<member, permitted, recordVars, req>>

(* Mutant: the status users have.                                          *)
UserStatus == "INACTIVE"

RemovedStatus == "Inativo"

RemoveTerminal(t) ==
  /\ TerminalExists(t)
  /\ terminal' = [terminal EXCEPT ![t].status = RemovedStatus]
  /\ UNCHANGED <<member, permitted, disturbed, recordVars, req>>

(* hardDelete: seven counts side by side, then the deletion.  A table the  *)
(* behaviour never writes is empty, and its count is left out.             *)
CountedTables == {"user"} \cup (Kind \cap calls)

StartHardDelete(h, t) ==
  /\ TerminalExists(t)
  /\ Begin(h, [next |-> "count", terminal |-> t, uncounted |-> CountedTables, found |-> FALSE])
  /\ UNCHANGED <<member, permitted, terminalVars, recordVars>>

Attached(t, table) ==
  IF table = "user" THEN \E u \in Members : member[u].home = t
  ELSE \E r \in OfKind(table) : r.terminal = t

CountAttached(h, table) ==
  /\ req[h].next = "count"
  /\ table \in req[h].uncounted
  /\ Become(h, [req[h] EXCEPT !.uncounted = @ \ {table},
                              !.found = @ \/ Attached(req[h].terminal, table)])
  /\ UNCHANGED <<member, permitted, terminalVars, recordVars>>

(* Mutant: the foreign keys of the records cascade.                        *)
DeletionRefused(t) == FALSE

(* Every table of Kind refers to its terminal without an onDelete clause   *)
(* in a required column; that of a user is nullable and is set to null.    *)
Refused(t) == \E r \in records : r.terminal = t

HardDelete(h) ==
  LET t == req[h].terminal
  IN  /\ req[h].next = "count"
      /\ req[h].uncounted = {}
      /\ IF ~ req[h].found /\ TerminalExists(t) /\ ~ Refused(t)
         THEN /\ terminal' = [terminal EXCEPT ![t].status = "deleted"]
              /\ member' = [u \in User |-> IF u \in Members /\ member[u].home = t
                                           THEN [member[u] EXCEPT !.home = None]
                                           ELSE member[u]]
              /\ disturbed' = TRUE
         ELSE UNCHANGED <<terminal, member, disturbed>>
      /\ Become(h, Idle)
      /\ UNCHANGED <<permitted, recordVars>>

-----------------------------------------------------------------------------
(* Records.  A creation resolves the terminal and inserts in a later       *)
(* statement; risks, elements, documents and occurrences refuse one that   *)
(* cannot be resolved, and alerts take the body's or the home unresolved.  *)
Ask(h, kind, t, detail) ==
  /\ t # None
  /\ Begin(h, [next |-> "insert", kind |-> kind, terminal |-> t, detail |-> detail])
  /\ UNCHANGED <<member, permitted, terminalVars, recordVars>>

(* EmergencyService.create reads an empty list of types as all of them.    *)
MayOpenType(who, type) == who.role = "admin" \/ who.types = {} \/ type \in who.types

CreateRisk(h, u, asked) ==
  MayWrite(member[u]) /\ Ask(h, "risk", ResolveTerminalId(member[u], asked), None)
CreateMapElement(h, u, asked) ==
  MayWrite(member[u]) /\ Ask(h, "element", ResolveTerminalId(member[u], asked), None)
CreateDocument(h, u, asked) ==
  MayWrite(member[u]) /\ Ask(h, "document", ResolveTerminalId(member[u], asked), None)
CreateOccurrence(h, u, asked, type) ==
  MayWrite(member[u]) /\ MayOpenType(member[u], type) /\
  Ask(h, "occurrence", ResolveTerminalId(member[u], asked), type)
CreateAlert(h, u, asked) ==
  MayWrite(member[u]) /\ Ask(h, "alert", asked, None)

Insert(h) ==
  LET q == req[h]
  IN  /\ q.next = "insert"
      /\ TerminalExists(q.terminal)
      /\ rowSeq < MaxRows[calls]
      /\ rowSeq' = rowSeq + 1
      /\ records' = records \cup
           {[id |-> rowSeq', kind |-> q.kind, terminal |-> q.terminal,
             detail |-> IF q.kind = "alert" THEN "ACTIVE" ELSE q.detail,
             active |-> TRUE]}
      /\ Become(h, Idle)
      /\ UNCHANGED <<member, permitted, terminalVars, links>>

(* Mutant: the body's terminal is written with the other fields.           *)
BodyTerminal(r, t) == [r EXCEPT !.terminal = t]

(* update: the body may name a terminal, and terminalId is taken out of it;*)
(* nothing else of the row is modelled.                                    *)
Edited(r, t) == r

Update(u, r, t) ==
  /\ MayWrite(member[u]) /\ Owned(member[u], r)
  /\ records' = (records \ {r}) \cup {Edited(r, t)}
  /\ UNCHANGED <<member, permitted, terminalVars, links, rowSeq, req>>

UpdateRisk(u, t)       == \E r \in OfKind("risk") : Update(u, r, t)
UpdateMapElement(u, t) == \E r \in OfKind("element") : Update(u, r, t)
UpdateDocument(u, t)   == \E r \in OfKind("document") : Update(u, r, t)

(* remove: findOwned, then a delete by id; PlanRisk cascades.  The request *)
(* goes on with the row it was granted, of which the terminal is modelled. *)
AskRemoval(h, u, r) ==
  /\ MayWrite(member[u]) /\ Owned(member[u], r)
  /\ Begin(h, [next |-> "remove", id |-> r.id, terminal |-> r.terminal])
  /\ UNCHANGED <<member, permitted, terminalVars, recordVars>>
RemoveRisk(h, u)       == \E r \in OfKind("risk") : AskRemoval(h, u, r)
RemoveMapElement(h, u) == \E r \in OfKind("element") : AskRemoval(h, u, r)
RemoveDocument(h, u)   == \E r \in OfKind("document") : AskRemoval(h, u, r)
RemovePlan(h, u)       == \E r \in OfKind("plan") : AskRemoval(h, u, r)

Remove(h) ==
  /\ req[h].next = "remove"
  /\ records' = {r \in records : r.id # req[h].id}
  /\ links'   = {l \in links : req[h].id \notin {l[1], l[2]}}
  /\ Become(h, Idle)
  /\ UNCHANGED <<member, permitted, terminalVars, rowSeq>>

(* EmergencyService.update and remove: the access is checked, and the row  *)
(* is written by its id in a later statement.  terminalId and status are   *)
(* taken out of the body of an update; its type is not, and may be one its *)
(* author could not open.  remove clears isActive (no type).               *)
AskChange(h, u, r, type) ==
  /\ MayWrite(member[u]) /\ CheckTenantAccess(member[u], r)
  /\ Begin(h, [next |-> "change", id |-> r.id, terminal |-> r.terminal, type |-> type])
  /\ UNCHANGED <<member, permitted, terminalVars, recordVars>>
UpdateOccurrence(h, u, type) == \E r \in OfKind("occurrence") : AskChange(h, u, r, type)
RemoveOccurrence(h, u)       == \E r \in OfKind("occurrence") : AskChange(h, u, r, None)

Changed(r, type) ==
  IF type = None THEN [r EXCEPT !.active = FALSE] ELSE [r EXCEPT !.detail = type]

ChangeOccurrence(h) ==
  LET q == req[h]
  IN  /\ q.next = "change"
      /\ records' = {IF r.id = q.id THEN Changed(r, q.type) ELSE r : r \in records}
      /\ Become(h, Idle)
      /\ UNCHANGED <<member, permitted, terminalVars, links, rowSeq>>

(* Plans: the risks asked for are reduced to those of the plan's terminal, *)
(* and plan and links are written in one nested statement.                 *)
CreatePlan(h, u, asked, risks) ==
  LET t == ResolveTerminalId(member[u], asked)
  IN  /\ MayWrite(member[u])
      /\ t # None
      /\ Begin(h, [next |-> "risks", plan |-> None, terminal |-> t, asked |-> risks])
      /\ UNCHANGED <<member, permitted, terminalVars, recordVars>>

UpdatePlan(h, u, p, risks) ==
  /\ MayWrite(member[u]) /\ Owned(member[u], p)
  /\ Begin(h, [next |-> "risks", plan |-> p.id, terminal |-> p.terminal, asked |-> risks])
  /\ UNCHANGED <<member, permitted, terminalVars, recordVars>>

(* Mutant: any risk of the organization will do.                           *)
RisksOfOrganization(t, asked) == {r.id : r \in OfKind("risk")} \cap asked

ValidRiskIds(t, asked) == {r.id : r \in {x \in OfKind("risk") : x.terminal = t}} \cap asked

FindRisks(h) ==
  LET q == req[h]
  IN  /\ q.next = "risks"
      /\ Become(h, [next |-> "save", plan |-> q.plan, terminal |-> q.terminal,
                    risks |-> ValidRiskIds(q.terminal, q.asked)])
      /\ UNCHANGED <<member, permitted, terminalVars, recordVars>>

(* The keys of PlanRisk refuse the whole statement when a risk has gone.   *)
RisksThere(ids) == ids \subseteq {r.id : r \in OfKind("risk")}

SavePlan(h) ==
  LET q  == req[h]
      id == IF q.plan = None THEN rowSeq + 1 ELSE q.plan
  IN  /\ q.next = "save"
      /\ RisksThere(q.risks)
      /\ IF q.plan = None
         THEN /\ TerminalExists(q.terminal)
              /\ rowSeq < MaxRows[calls]
              /\ rowSeq' = id
              /\ records' = records \cup
                   {[id |-> id, kind |-> "plan", terminal |-> q.terminal, detail |-> None,
                     active |-> TRUE]}
         ELSE /\ \E p \in OfKind("plan") : p.id = id
              /\ UNCHANGED <<records, rowSeq>>
      /\ links' = {l \in links : l[1] # id} \cup {<<id, r>> : r \in q.risks}
      /\ Become(h, Idle)
      /\ UNCHANGED <<member, permitted, terminalVars>>

(* Alerts: the status is written over whatever the row holds.              *)
SetAlert(r, s) ==
  /\ records' = (records \ {r}) \cup {[r EXCEPT !.detail = s]}
  /\ UNCHANGED <<member, permitted, terminalVars, links, rowSeq, req>>
Acknowledge(u, r) == MayWrite(member[u]) /\ SetAlert(r, "ACKNOWLEDGED")
Resolve(u, r)     == MayWrite(member[u]) /\ SetAlert(r, "RESOLVED")

-----------------------------------------------------------------------------
Fail(h) ==
  /\ req[h] # Idle
  /\ Become(h, Idle)
  /\ UNCHANGED <<member, permitted, terminalVars, recordVars>>

(* What a body has in a field: one of the values, or nothing.              *)
Carried(body, field, values) == IF field \in body THEN values ELSE {None}

Administration ==
  \/ /\ "scope" \in calls
     /\ \/ \E s \in SUBSET Terminal : SetPermission(s)
        \/ \E u \in User, role \in Role, home \in Nullable(Terminal), linked \in BOOLEAN,
              allowed \in SUBSET Terminal, types \in SUBSET OccType :
             CreateUser(u, role, home, linked, allowed, types)
        \/ \E u \in User, body \in Bodies :
             \E role \in Carried(body, "role", Role), home \in Carried(body, "home", Terminal),
                linked \in Carried(body, "linked", BOOLEAN),
                allowed \in Carried(body, "allowed", SUBSET Terminal),
                types \in Carried(body, "types", SUBSET OccType) :
               UpdateUser(u, role, home, linked, allowed, types)
  \/ /\ "terminals" \in calls
     /\ \E t \in Terminal :
          \/ RemoveTerminal(t)
          \/ \E c \in Code \cup Codes, s \in TerminalStatus : UpdateTerminal(t, c, s)
          \/ \E h \in Handler : \/ AskTerminal(h, t)
                                \/ \E c \in Code : AskTerminalWithCode(h, t, c)
  \/ "exclude" \in calls /\ \E h \in Handler, t \in Terminal : StartHardDelete(h, t)

Requests(h, u) ==
  \/ \E t \in Terminal :
       \/ "risk" \in calls     /\ CreateRisk(h, u, t)
       \/ "element" \in calls  /\ CreateMapElement(h, u, t)
       \/ "document" \in calls /\ CreateDocument(h, u, t)
       \/ "alert" \in calls    /\ CreateAlert(h, u, t)
       \/ "occurrence" \in calls /\ \E type \in OccType : CreateOccurrence(h, u, t, type)
       \/ "plan" \in calls /\ \E risks \in SUBSET (1 .. rowSeq) : CreatePlan(h, u, t, risks)
       \/ UpdateRisk(u, t) \/ UpdateMapElement(u, t) \/ UpdateDocument(u, t)
  \/ \E p \in OfKind("plan"), risks \in SUBSET (1 .. rowSeq) : UpdatePlan(h, u, p, risks)
  \/ \E r \in OfKind("alert") : Acknowledge(u, r) \/ Resolve(u, r)
  \/ RemoveRisk(h, u) \/ RemoveMapElement(h, u) \/ RemoveDocument(h, u) \/ RemovePlan(h, u)
  \/ /\ "change" \in calls
     /\ RemoveOccurrence(h, u) \/ \E type \in OccType : UpdateOccurrence(h, u, type)

Continues(h) ==
  \/ CreateTerminal(h) \/ Insert(h) \/ Remove(h) \/ ChangeOccurrence(h)
  \/ FindRisks(h) \/ SavePlan(h)
  \/ (\E table \in Kind \cup {"user"} : CountAttached(h, table)) \/ HardDelete(h)
  \/ Fail(h)

Next ==
  /\ UNCHANGED calls
  /\ \/ Administration
     \/ \E h \in Handler : Continues(h) \/ \E u \in Members : Requests(h, u)

Spec == Init /\ [][Next]_vars

-----------------------------------------------------------------------------
TypeOK ==
  /\ member    \in [User -> Nullable(Member)]
  /\ permitted \subseteq Terminal
  /\ terminal  \in [Terminal -> [status : TerminalStatus \cup {"none", "deleted"}, code : Nat]]
  /\ disturbed \in BOOLEAN
  /\ records   \subseteq Record
  /\ links     \subseteq Nat \X Nat
  /\ rowSeq    \in Nat
  /\ calls     \in Mixes
  /\ req       \in [Handler -> HandlerState]

(* An occurrence that is listed can be opened, and its notifications are   *)
(* listed with it.  For everyone but an administrator, whose list the      *)
(* chosen terminals only narrow, one that can be opened is listed unless it*)
(* was removed: a removed occurrence leaves the list and nothing else.     *)
(* Alerts listed to a terminal are of terminals it has access to; users who*)
(* write are offered the terminals they have access to, and an entity's    *)
(* login tells those whose records it is shown; and the types a user of a  *)
(* terminal may open are those he may read, unless he has no types, which  *)
(* create reads as all and the list as none.  (An alert and a terminal are *)
(* opened by id by anyone of the organization: that is no part of this.)   *)
ListsMatchAccess ==
  \A u \in Members : LET who == member[u] IN
    /\ \A r \in OfKind("occurrence") :
         /\ ListsOccurrence(who, r) => CheckTenantAccess(who, r) /\ ListsNotifications(who, r)
         /\ who.role # "admin" /\ r.active /\ CheckTenantAccess(who, r) => ListsOccurrence(who, r)
    /\ who.role = "terminal" => \A r \in OfKind("alert") :
         ListsAlert(who, r) => UserCanAccessTerminal(who, r.terminal)
    /\ MayWrite(who) =>
         /\ \A t \in Terminal : UserCanAccessTerminal(who, t) <=> t \in TenantScope(who)
         /\ VisibleTerminals(who) = TenantScope(who)
    /\ who.role = "entity" /\ who.linked => EffectiveAllowedTerminals(who) = TenantScope(who)
    /\ who.role = "terminal" /\ who.types # {} =>
         \A r \in OfKind("occurrence") : MayOpenType(who, r.detail) => TypeAllowed(who, r)

(* The row that a removal or an edit is about to write by its id is still  *)
(* of the terminal whose access was checked, whatever others write to it   *)
(* meanwhile: bodies of an update may name a terminal, and it is taken out.*)
GrantsHold ==
  \A h \in Handler, r \in records :
    req[h].next \in {"remove", "change"} /\ r.id = req[h].id => r.terminal = req[h].terminal

(* The tenancy rules agree wherever they are written, and what they granted*)
(* holds until it is used (tenant-scope.ts:45, emergency.service.ts:38,    *)
(* :108, :263 and :528).                                                   *)
ScopeAgrees == ListsMatchAccess /\ GrantsHold

(* A plan is linked to risks that exist and belong to its own terminal,    *)
(* though they are looked up before the plan is written and either may be  *)
(* edited or removed meanwhile (emergency-plans.module.ts:62).             *)
PlanRisksSameTerminal ==
  \A l \in links : \E p \in OfKind("plan"), r \in OfKind("risk") :
    l = <<p.id, r.id>> /\ p.terminal = r.terminal

(* No record outlives its terminal, whatever the counts of an exclusion    *)
(* saw: the last word is the foreign key's, and it refuses the exclusion   *)
(* rather than taking the record along (terminals.service.ts:124).         *)
RecordsKeepTerminal == \A r \in records : TerminalExists(r.terminal)

(* Until a code is typed or a terminal excluded for good, the code that    *)
(* would be generated now is free, so that a creation without a code is    *)
(* refused only to requests that overlap; after an exclusion the count may *)
(* name a code in use for ever (terminals.service.ts:163).                 *)
GeneratedCodeFree == ~ disturbed => GenerateCode \notin Codes
=============================================================================
