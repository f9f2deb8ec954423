---------------------------- MODULE SafetyRecords ----------------------------
(***************************************************************************)
(* Operational safety: trainings, EPIs (protective equipment) and          *)
(* compliance items are shared by the terminals they list (an empty list   *)
(* is all of them), and a terminal may be listed when its package and      *)
(* submodule are on; an administrator turns them on and off meanwhile.     *)
(* Trainings are assigned to people and completed, EPIs delivered and      *)
(* returned.                                                               *)
(*                                                                         *)
(* Handlers are split at the awaits, one per terminal checked and one per  *)
(* person served.  A handler that answers no more is Fail.  A terminal     *)
(* that does not exist is refused like one without modules, so rows of     *)
(* terminals are kept only as their modules.  As in Accounts, a behaviour  *)
(* calls the operations of one member of Mixes.                            *)
(***************************************************************************)
EXTENDS Naturals, FiniteSets, Sequences

CONSTANTS
  Terminal,   \* terminals
  Person,     \* users who are assigned trainings and given EPIs
  Handler,    \* requests that may be in flight at once
  ModulesAsked, \* bound: lists of submodules the bodies of updateModules carry
  Mixes,      \* bound: sets of operations; a behaviour calls those of one of them
  MaxAsked,   \* bound: people one body names
  MaxTime,    \* bound: the clock
  MaxRecords, \* bound: shared records there may be at a time
  MaxRows,    \* bound: rows created in a behaviour
  None        \* a null column, and a key the body leaves out

Kind      == {"trainings", "epis", "compliance"}        \* SAFETY_SUBMODULE
Operation == Kind \cup {"modules", "edit", "assign", "complete", "deliver", "status", "remove",
                        "time"}

ASSUME SafetyAssumption ==
  /\ None \notin Nat
  /\ ModulesAsked \subseteq SUBSET Kind /\ Mixes \subseteq SUBSET Operation
  /\ MaxAsked \in Nat /\ MaxTime \in Nat /\ MaxRecords \in Nat /\ MaxRows \in Nat

VARIABLES
  packages,   \* Terminal -> is operational_safety on, and the stored submodules
  records,    \* rows of Training, Epi and ComplianceItem
  assigned,   \* rows of UserTraining
  delivered,  \* rows of UserEpi
  rowSeq,     \* ids handed out; later rows have larger ids
  now,        \* the clock
  calls,      \* the operations this behaviour calls; never changes
  req         \* Handler -> local state of the request it serves

peopleVars == <<assigned, delivered>>
vars == <<packages, records, peopleVars, rowSeq, now, calls, req>>

Time        == 0 .. MaxTime
Nullable(S) == {None} \cup S
UsageStatus == {"entregue", "em_uso", "devolvido", "vencido", "substituido"}

Record     == [id : Nat, kind : Kind, terminals : SUBSET Terminal]
Assignment == [id : Nat, record : Nat, person : Person, expiry : Nullable(Time)]  \* None: pending
Delivery   == [id : Nat, record : Nat, person : Person, status : UsageStatus, returned : BOOLEAN]

Asked == UNION {[1 .. n -> Person] : n \in 0 .. MaxAsked}

Idle == [next |-> "idle"]
HandlerState ==
       {Idle}
  \cup [next : {"editable", "check"}, kind : Kind, record : Nullable(Nat),
        asked : Nullable(SUBSET Terminal), before : SUBSET Terminal,
        unchecked : SUBSET Terminal, had : SUBSET Terminal]
  \cup [next : {"assign", "deliver"}, record : Nat, people : Asked, seen : Nat]
  \cup [next : {"look", "renew"}, record : Nat, people : Asked, expiry : Time, at : Time,
        row : Nullable(Nat)]

-----------------------------------------------------------------------------
Become(h, s) == req' = [req EXCEPT ![h] = s]
Begin(h, s)  == req[h] = Idle /\ Become(h, s)
NewRow       == rowSeq < MaxRows /\ rowSeq' = rowSeq + 1

(* module-config.ts *)
Toggles == {"trainings", "epis"}
StorableSubModules(asked) == asked \cap Toggles
EffectiveSubModules(stored) ==
  StorableSubModules(stored) \cup
    (IF StorableSubModules(stored) = {} THEN {} ELSE {"compliance"})
PackageHas(p, kind)   == p.safety /\ kind \in EffectiveSubModules(p.stored)
HasSubModule(t, kind) == PackageHas(packages[t], kind)

AllOn == [safety |-> TRUE, stored |-> Toggles]

Init ==
  /\ packages  = [t \in Terminal |-> AllOn]
  /\ records   = {}
  /\ assigned  = {}
  /\ delivered = {}
  /\ rowSeq    = 0
  /\ now       = 0
  /\ calls \in Mixes
  /\ req       = [h \in Handler |-> Idle]

(* updateModules stores the toggles, and none without the package.  The    *)
(* requests that check terminals note what has the module now (had,        *)
(* history).                                                               *)
Checking == {h \in Handler : req[h].next \in {"editable", "check"}}

UpdateModules(t, safety, asked) ==
  LET stored == IF safety THEN StorableSubModules(asked) ELSE {}
  IN  /\ packages' = [packages EXCEPT ![t] = [safety |-> safety, stored |-> stored]]
      /\ req' = [h \in Handler |->
           IF h \in Checking /\ PackageHas(packages'[t], req[h].kind)
           THEN [req[h] EXCEPT !.had = @ \cup {t}] ELSE req[h]]
      /\ UNCHANGED <<records, peopleVars, rowSeq, now>>

-----------------------------------------------------------------------------
(* module-enforcement.ts.  access is what userCanAccessTerminal grants the *)
(* user, everything for an administrator, who alone makes global records;  *)
(* a list with a terminal outside it fails before anything is written.     *)
Orphan(terminals, kind) == terminals # {} /\ ~ \E t \in terminals : HasSubModule(t, kind)

MayWriteList(asked, unchecked, access) ==
  unchecked \subseteq access /\ (asked = {} => access = Terminal)

ToWrite(kind, record, asked, before, unchecked) ==
  [next |-> "check", kind |-> kind, record |-> record, asked |-> asked, before |-> before,
   unchecked |-> unchecked, had |-> {t \in Terminal : HasSubModule(t, kind)}]

CreateRecord(h, kind, asked, access) ==
  /\ MayWriteList(asked, asked, access)
  /\ Begin(h, ToWrite(kind, None, asked, {}, asked))
  /\ UNCHANGED <<packages, records, peopleVars, rowSeq, now>>

CreateTraining(h, asked, access)       == CreateRecord(h, "trainings", asked, access)
CreateEpi(h, asked, access)            == CreateRecord(h, "epis", asked, access)
CreateComplianceItem(h, asked, access) == CreateRecord(h, "compliance", asked, access)

(* Mutant: the terminals that stay are checked, and not those that come.   *)
Kept(kind, asked, before) == asked \cap before

(* update of a training or an EPI checks the terminals added to the list it*)
(* read, that of a compliance item the whole list, and neither checks a    *)
(* list the body leaves out.                                               *)
ToCheck(kind, asked, before) == IF kind = "compliance" THEN asked ELSE asked \ before

Unchecked(r, asked) == IF asked = None THEN {} ELSE ToCheck(r.kind, asked, r.terminals)
UpdateChecks(r, asked) ==
  ToWrite(r.kind, r.id, asked, r.terminals, Unchecked(r, asked))
MayUpdate(r, asked, access) ==
  asked = None \/ MayWriteList(asked, Unchecked(r, asked), access)

UpdateTrainingOrEpi(h, r, asked, access) ==
  /\ MayUpdate(r, asked, access)
  /\ Begin(h, [UpdateChecks(r, asked) EXCEPT !.next = "editable"])
  /\ UNCHANGED <<packages, records, peopleVars, rowSeq, now>>
UpdateTraining(h, r, asked, access) ==
  r.kind = "trainings" /\ UpdateTrainingOrEpi(h, r, asked, access)
UpdateEpi(h, r, asked, access) ==
  r.kind = "epis" /\ UpdateTrainingOrEpi(h, r, asked, access)

(* A compliance item is not asked whether it is editable.                  *)
UpdateComplianceItem(h, r, asked, access) ==
  /\ r.kind = "compliance"
  /\ MayUpdate(r, asked, access)
  /\ Begin(h, UpdateChecks(r, asked))
  /\ UNCHANGED <<packages, records, peopleVars, rowSeq, now>>

AssertEditable(h) ==
  /\ req[h].next = "editable"
  /\ ~ Orphan(req[h].before, req[h].kind)
  /\ Become(h, [req[h] EXCEPT !.next = "check"])
  /\ UNCHANGED <<packages, records, peopleVars, rowSeq, now>>

CheckTerminal(h, t) ==
  /\ req[h].next = "check"
  /\ t \in req[h].unchecked
  /\ HasSubModule(t, req[h].kind)
  /\ Become(h, [req[h] EXCEPT !.unchecked = @ \ {t}])
  /\ UNCHANGED <<packages, records, peopleVars, rowSeq, now>>

WriteRecord(h) ==
  LET q == req[h]
  IN  /\ q.next = "check"
      /\ q.unchecked = {}
      /\ IF q.record = None
         THEN /\ NewRow /\ Cardinality(records) < MaxRecords
              /\ records' = records \cup {[id |-> rowSeq', kind |-> q.kind, terminals |-> q.asked]}
         ELSE /\ \E r \in records :
                   /\ r.id = q.record
                   /\ records' = (records \ {r}) \cup
                        {IF q.asked = None THEN r ELSE [r EXCEPT !.terminals = q.asked]}
              /\ UNCHANGED rowSeq
      /\ Become(h, Idle)
      /\ UNCHANGED <<packages, peopleVars, now>>

(* remove of any kind; what was assigned or delivered goes by cascade.     *)
RemoveRecord(r) ==
  /\ records'   = records \ {r}
  /\ assigned'  = {a \in assigned : a.record # r.id}
  /\ delivered' = {d \in delivered : d.record # r.id}
  /\ UNCHANGED <<packages, rowSeq, now, req>>
RemoveTraining(r)       == r.kind = "trainings" /\ RemoveRecord(r)
RemoveEpi(r)            == r.kind = "epis" /\ RemoveRecord(r)
RemoveComplianceItem(r) == r.kind = "compliance" /\ RemoveRecord(r)

-----------------------------------------------------------------------------
(* assign looks up who has a pending or valid assignment, and inserts one  *)
(* row after another for the others; a name that comes twice is served     *)
(* twice.                                                                  *)
Exists(record, kind) == \E r \in records : r.id = record /\ r.kind = kind

(* Mutant: an assignment that expires at this instant has expired.         *)
OpenUntil(a) == a.expiry = None \/ a.expiry > now

OpenAssignment(a) == a.expiry = None \/ a.expiry >= now

Assigned(record, p) == {a \in assigned : a.record = record /\ a.person = p}
Covered(record, p)  == \E a \in Assigned(record, p) : OpenAssignment(a)

(* filter: of the names asked for those that are not to be skipped, in     *)
(* their order; at tells where each of them stood.                         *)
Left(people, asked, skip) ==
  \E at \in [DOMAIN people -> DOMAIN asked] :
    /\ \A i, j \in DOMAIN people : i < j => at[i] < at[j]
    /\ {at[i] : i \in DOMAIN people} = {n \in DOMAIN asked : asked[n] \notin skip}
    /\ \A i \in DOMAIN people : people[i] = asked[at[i]]

Assign(h, record, asked) ==
  /\ Exists(record, "trainings")
  /\ \E people \in Asked :
       /\ Left(people, asked, {p \in Person : Covered(record, p)})
       /\ Begin(h, [next |-> "assign", record |-> record, people |-> people, seen |-> rowSeq])
  /\ UNCHANGED <<packages, records, peopleVars, rowSeq, now>>

Served(h) == Become(h, [req[h] EXCEPT !.people = Tail(@)])

InsertAssignment(h) ==
  LET q == req[h]
  IN  /\ q.next = "assign" /\ q.people # << >>
      /\ Exists(q.record, "trainings")
      /\ NewRow
      /\ assigned' = assigned \cup
           {[id |-> rowSeq', record |-> q.record, person |-> Head(q.people), expiry |-> None]}
      /\ Served(h)
      /\ UNCHANGED <<packages, records, delivered, now>>

(* complete: person by person, the latest row is looked up, and written    *)
(* when it is pending or expired at the instant the request came.          *)
Complete(h, record, asked, expiry) ==
  /\ Exists(record, "trainings")
  /\ Begin(h, [next |-> "look", record |-> record, people |-> asked, expiry |-> expiry,
               at |-> now, row |-> None])
  /\ UNCHANGED <<packages, records, peopleVars, rowSeq, now>>

Latest(rows) == {a \in rows : \A x \in rows : x.id <= a.id}
Lapsed(a, at) == a.expiry = None \/ a.expiry < at
Keeps(record, p, at) == \E a \in Latest(Assigned(record, p)) : ~ Lapsed(a, at)

LookForPrevious(h) ==
  LET q == req[h]
      p == Head(q.people)
  IN  /\ q.next = "look" /\ q.people # << >>
      /\ IF Keeps(q.record, p, q.at) THEN Served(h)
         ELSE \E row \in {a.id : a \in Latest(Assigned(q.record, p))}
                           \cup (IF Assigned(q.record, p) = {} THEN {None} ELSE {}) :
                Become(h, [q EXCEPT !.next = "renew", !.row = row])
      /\ UNCHANGED <<packages, records, peopleVars, rowSeq, now>>

Renew(h) ==
  LET q == req[h]
  IN  /\ q.next = "renew"
      /\ IF q.row = None
         THEN /\ Exists(q.record, "trainings")
              /\ NewRow
              /\ assigned' = assigned \cup {[id |-> rowSeq', record |-> q.record,
                                             person |-> Head(q.people), expiry |-> q.expiry]}
         ELSE /\ \E a \in assigned :
                   /\ a.id = q.row
                   /\ assigned' = (assigned \ {a}) \cup {[a EXCEPT !.expiry = q.expiry]}
              /\ UNCHANGED rowSeq
      /\ Become(h, [q EXCEPT !.next = "look", !.row = None, !.people = Tail(@)])
      /\ UNCHANGED <<packages, records, delivered, now>>

RemoveAssignment(a) ==
  /\ assigned' = assigned \ {a}
  /\ UNCHANGED <<packages, records, delivered, rowSeq, now, req>>

-----------------------------------------------------------------------------
(* deliver has the shape of assign; updateDelivery writes any status over  *)
(* the one of the row, and never clears the date of a return.              *)
Closing == {"devolvido", "substituido"}

(* Mutant: only what is in use counts as delivered.                        *)
InUse(d) == d.status = "em_uso"

ActiveDelivery(d) == d.status \notin Closing

(* Mutant: the status of the terminals' enumeration.                       *)
DeliveredActive == "Ativo"

DeliveredStatus == "em_uso"

Holds(record, p) == \E d \in delivered : d.record = record /\ d.person = p /\ ActiveDelivery(d)

Deliver(h, record, asked) ==
  /\ Exists(record, "epis")
  /\ \E people \in Asked :
       /\ Left(people, asked, {p \in Person : Holds(record, p)})
       /\ Begin(h, [next |-> "deliver", record |-> record, people |-> people, seen |-> rowSeq])
  /\ UNCHANGED <<packages, records, peopleVars, rowSeq, now>>

InsertDelivery(h) ==
  LET q == req[h]
  IN  /\ q.next = "deliver" /\ q.people # << >>
      /\ Exists(q.record, "epis")
      /\ NewRow
      /\ delivered' = delivered \cup
           {[id |-> rowSeq', record |-> q.record, person |-> Head(q.people),
             status |-> DeliveredStatus, returned |-> FALSE]}
      /\ Served(h)
      /\ UNCHANGED <<packages, records, assigned, now>>

UpdateDelivery(d, status) ==
  /\ delivered' = (delivered \ {d}) \cup
       {[d EXCEPT !.status = status, !.returned = @ \/ status \in Closing]}
  /\ UNCHANGED <<packages, records, assigned, rowSeq, now, req>>

RemoveDelivery(d) ==
  /\ delivered' = delivered \ {d}
  /\ UNCHANGED <<packages, records, assigned, rowSeq, now, req>>

-----------------------------------------------------------------------------
Answer(h) ==
  /\ req[h].next \in {"assign", "look", "deliver"} /\ req[h].people = << >>
  /\ Become(h, Idle)
  /\ UNCHANGED <<packages, records, peopleVars, rowSeq, now>>

Fail(h) ==
  /\ req[h] # Idle
  /\ Become(h, Idle)
  /\ UNCHANGED <<packages, records, peopleVars, rowSeq, now>>

Tick ==
  /\ now < MaxTime
  /\ now' = now + 1
  /\ UNCHANGED <<packages, records, peopleVars, rowSeq, req>>

Administration ==
  \/ "modules" \in calls /\ \E t \in Terminal, safety \in BOOLEAN, asked \in ModulesAsked :
                              UpdateModules(t, safety, asked)
  \/ "remove" \in calls /\ \/ \E r \in records : \/ RemoveTraining(r) \/ RemoveEpi(r)
                                                  \/ RemoveComplianceItem(r)
                           \/ \E a \in assigned : RemoveAssignment(a)
                           \/ \E d \in delivered : RemoveDelivery(d)
  \/ "status" \in calls /\ \E d \in delivered, s \in UsageStatus : UpdateDelivery(d, s)
  \/ "time" \in calls /\ Tick

Starts(h) ==
  \/ \E access \in SUBSET Terminal, asked \in SUBSET Terminal :
       \/ "trainings" \in calls  /\ CreateTraining(h, asked, access)
       \/ "epis" \in calls       /\ CreateEpi(h, asked, access)
       \/ "compliance" \in calls /\ CreateComplianceItem(h, asked, access)
       \/ "edit" \in calls /\ \E r \in records, list \in {asked, None} :
            \/ UpdateTraining(h, r, list, access) \/ UpdateEpi(h, r, list, access)
            \/ UpdateComplianceItem(h, r, list, access)
  \/ \E r \in records, asked \in Asked :
       \/ "assign" \in calls   /\ Assign(h, r.id, asked)
       \/ "complete" \in calls /\ \E expiry \in Time : Complete(h, r.id, asked, expiry)
       \/ "deliver" \in calls  /\ Deliver(h, r.id, asked)

Continues(h) ==
  \/ AssertEditable(h) \/ (\E t \in Terminal : CheckTerminal(h, t)) \/ WriteRecord(h)
  \/ InsertAssignment(h) \/ LookForPrevious(h) \/ Renew(h) \/ InsertDelivery(h)
  \/ Answer(h) \/ Fail(h)

Next ==
  /\ UNCHANGED calls
  /\ Administration \/ \E h \in Handler : Starts(h) \/ Continues(h)

Spec == Init /\ [][Next]_vars

-----------------------------------------------------------------------------
TypeOK ==
  /\ packages  \in [Terminal -> [safety : BOOLEAN, stored : SUBSET Toggles]]
  /\ records   \subseteq Record
  /\ assigned  \subseteq Assignment
  /\ delivered \subseteq Delivery
  /\ rowSeq    \in Nat
  /\ now       \in Time
  /\ calls     \in Mixes
  /\ req       \in [Handler -> HandlerState]

(* A terminal enters the list of a record only if it had the module at     *)
(* some moment while the request that put it there was served, though      *)
(* modules are turned on and off between its checks; one that was listed   *)
(* already when the request read the record may come back when another     *)
(* request took it off meanwhile, except for compliance                    *)
(* (trainings.module.ts:125, "só os terminais ADICIONADOS").               *)
ListedHadModule ==
  [][\A h \in Handler : LET q == req[h] IN
       q.next = "check" /\ records' # records /\ req'[h] = Idle =>
         \A r \in records' \ records : \A t \in r.terminals :
           t \in q.had \/ (q.kind # "compliance" /\ t \in q.before)]_vars

(* assign and complete agree, at every instant, on who is covered: whoever *)
(* complete leaves alone as "já válido" is skipped by assign, and whoever  *)
(* assign does not skip is given a row or has one renewed by complete: no  *)
(* instant falls between gte of the one (trainings.module.ts:159) and < of *)
(* the other (:196).                                                       *)
CoverageAgrees ==
  \A r \in records, p \in Person :
    /\ Keeps(r.id, p, now) => Covered(r.id, p)
    /\ (\E a \in Latest(Assigned(r.id, p)) : a.expiry = None) => Covered(r.id, p)
    /\ Cardinality(Assigned(r.id, p)) = 1 /\ Covered(r.id, p) =>
         Keeps(r.id, p, now) \/ \E a \in Assigned(r.id, p) : a.expiry = None

(* A person who had a pending assignment, or held an EPI that was never    *)
(* returned, when the request looked is given no second one by it ("não    *)
(* duplica atribuição", trainings.module.ts:150; "ignora usuários que já   *)
(* têm entrega ativa", epis.module.ts:158).  What requests that overlap,   *)
(* or a name that comes twice in one, add is newer than what it saw; an    *)
(* item may be marked in use again after its return.                       *)
NoSecondOpen ==
  [][\A h \in Handler :
       /\ req[h].next = "assign" /\ assigned' # assigned /\ req'[h] # req[h] =>
            \A a \in assigned :
              a.record = req[h].record /\ a.person = Head(req[h].people) /\ a.id <= req[h].seen
              => a.expiry # None
       /\ req[h].next = "deliver" /\ delivered' # delivered /\ req'[h] # req[h] =>
            \A d \in delivered :
              d.record = req[h].record /\ d.person = Head(req[h].people) /\ d.id <= req[h].seen
              => d.returned]_vars
=============================================================================
