---------------------------- MODULE SituationRoom ----------------------------
(***************************************************************************)
(* An occurrence after it was opened: the operations of EmergencyService   *)
(* that move its status, activate an action plan in it, work its response  *)
(* checklist and write its timeline, with the plans that EmergencyPlans    *)
(* keeps, interleaved at the awaits where one of them holds a value read   *)
(* earlier, and with restarts of the process.                              *)
(*                                                                         *)
(* A plan's checklist is a number of steps; a checklist item remembers the *)
(* plan whose step its text is.  The generic update is not modelled here:  *)
(* it strips status and terminalId from its body, and of the columns it    *)
(* writes only the type is read by other operations (module Tenancy).      *)
(*                                                                         *)
(* A row of the timeline has the type readers are shown, and the statement *)
(* that wrote it (event).  The server can only tell the two apart for      *)
(* updateStatus, whose rows alone have metadata: a user may post a row of  *)
(* any official type, those of updateStatus and activatePlan included.     *)
(*                                                                         *)
(* Audit rows are left out, and so are the socket messages of every handler*)
(* but updateStatus: nothing in the server reads either of them.           *)
(***************************************************************************)
EXTENDS Naturals, Sequences, FiniteSets

CONSTANTS
  Occurrence,    \* occurrences of the organization
  Plan,          \* ids of action plans; one id is one row, never used again
  Handler,       \* requests that may be in flight at once
  NoPlan,        \* the text of an item typed by a user comes from no plan
  SameTerminal,  \* pairs <<occurrence, plan>> of one terminal (both immutable)
  OpenedAs,      \* statuses the bodies of POST /occurrences carry
  StatusAsked,   \* statuses the bodies of PUT /occurrences/:id/status carry
  TypesPosted,   \* types the bodies of POST /occurrences/:id/timeline carry
  PlanStatusAsked,  \* statuses the bodies that save a plan carry
  StepCounts,    \* numbers of steps a plan is saved with
  MaxEvents,     \* bound: rows in one occurrence's timeline
  MaxItems       \* bound: checklist rows created in a behaviour

Status     == {"aberto", "em atendimento", "emergencia ativa", "resolvido"}
PlanStatus == {"ativo", "inativo", "em revisao"}
EventType  == {"ocorrencia registrada", "equipe acionada", "plano de emergencia ativado",
               "entidade notificada", "acao executada", "atualizacao de status",
               "ocorrencia resolvida"}

(* The server keeps finitely many requests in flight; statuses, bounds and *)
(* numbers of steps are of their types.                                    *)
ASSUME RoomAssumption ==
  /\ NoPlan \notin Plan
  /\ IsFiniteSet(Handler)
  /\ OpenedAs \cup StatusAsked \subseteq Status
  /\ TypesPosted \subseteq EventType
  /\ PlanStatusAsked \subseteq PlanStatus
  /\ SameTerminal \subseteq Occurrence \X Plan
  /\ StepCounts \subseteq Nat
  /\ MaxEvents \in Nat
  /\ MaxItems \in Nat

VARIABLES
  status,      \* Occurrence -> status column; "unopened" before create
  resolvedAt,  \* Occurrence -> is resolvedAt set
  active,      \* Occurrence -> isActive column
  timeline,    \* Occurrence -> rows of OccurrenceTimeline, in insertion order
  items,       \* rows of ChecklistItem
  itemSeq,     \* how many item ids have been handed out
  plans,       \* Plan -> status and number of steps of its row
  room,        \* Handler -> local state of the request it serves
  statusNews   \* Occurrence -> statuses the organization's sockets were sent

occurrenceVars == <<status, resolvedAt, active, timeline>>
checklistVars  == <<items, itemSeq>>
roomVars       == <<occurrenceVars, checklistVars, plans, room, statusNews>>

Item == [id : Nat, occ : Occurrence, order : Nat, from : Plan \cup {NoPlan}, done : BOOLEAN]

StatusType(to) == IF to = "resolvido" THEN "ocorrencia resolvida" ELSE "atualizacao de status"

Opening        == [event |-> "opening", type |-> "ocorrencia registrada"]
PlanEvent(p)   == [event |-> "plan", type |-> "plano de emergencia ativado", plan |-> p]
PostedEvent(t) == [event |-> "posted", type |-> t]
StatusEvent(from, to) ==
  [event |-> "status", type |-> StatusType(to), from |-> from, to |-> to]
Event ==
       {Opening}
  \cup {StatusEvent(from, to) : from \in Status, to \in Status}
  \cup {PlanEvent(p) : p \in Plan}
  \cup {PostedEvent(t) : t \in EventType}

Idle == [op |-> "idle"]
HandlerState ==
       {Idle}
  \cup [op : {"status"}, occ : Occurrence, from : Status, to : Status]
  \cup [op : {"announce"}, occ : Occurrence, to : Status]
  \cup [op : {"plan"}, occ : Occurrence, plan : Plan, steps : Nat]
  \cup [op : {"item"}, occ : Occurrence, order : Nat]
  \cup [op : {"tick"}, occ : Occurrence, id : Nat, done : BOOLEAN]

-----------------------------------------------------------------------------
Opened(o)     == status[o] # "unopened"
ItemsOf(o)    == {x \in items : x.occ = o}
Become(h, s)  == room' = [room EXCEPT ![h] = s]
HasRoom(o)    == Len(timeline[o]) < MaxEvents
StatusRows(o) == {i \in DOMAIN timeline[o] : timeline[o][i].event = "status"}
PlanRows(o)   == {i \in DOMAIN timeline[o] : timeline[o][i].event = "plan"}

(* Mutant: the new event takes the place of the last one.                  *)
LastReplaced(o, e) == [timeline[o] EXCEPT ![Len(timeline[o])] = e]

(* occurrenceTimeline rows after a nested or plain create of event e.      *)
Extended(o, e) == Append(timeline[o], e)

Init ==
  /\ status     = [o \in Occurrence |-> "unopened"]
  /\ resolvedAt = [o \in Occurrence |-> FALSE]
  /\ active     = [o \in Occurrence |-> TRUE]
  /\ timeline   = [o \in Occurrence |-> <<>>]
  /\ items      = {}
  /\ itemSeq    = 0
  /\ plans      = [p \in Plan |-> [status |-> "none", steps |-> 0]]
  /\ room       = [h \in Handler |-> Idle]
  /\ statusNews = [o \in Occurrence |-> <<>>]

-----------------------------------------------------------------------------
(* create: the row and its first event, with the status of the body        *)
(* ('aberto' by default) and no checklist.                                 *)
Open(o, s) ==
  /\ ~ Opened(o)
  /\ status' = [status EXCEPT ![o] = s]
  /\ timeline' = [timeline EXCEPT ![o] = <<Opening>>]
  /\ UNCHANGED <<resolvedAt, active, checklistVars, plans, room, statusNews>>

(* updateStatus, the read: the status seen now is what the event will call *)
(* previousStatus.                                                         *)
ReadStatus(h, o, to) ==
  /\ room[h] = Idle
  /\ Opened(o)
  /\ Become(h, [op |-> "status", occ |-> o, from |-> status[o], to |-> to])
  /\ UNCHANGED <<occurrenceVars, checklistVars, plans, statusNews>>

(* Mutant: resolvedAt is cleared when the occurrence is reopened.          *)
DateOfStatus(o, to) == to = "resolvido"

(* resolvedAt is written by 'resolvido' and left alone by the others.      *)
ResolvedNow(o, to) == resolvedAt[o] \/ to = "resolvido"

(* Mutant: the event repeats the status asked for.                         *)
EventWithoutRead(from, to) == StatusEvent(to, to)

(* metadata: { previousStatus, newStatus }                                 *)
StatusRow(from, to) == StatusEvent(from, to)

(* Mutants: the status is only written over the one that was read; it is   *)
(* translated to the README's vocabulary.                                  *)
UnlessMoved(o, from, to) == IF status[o] = from THEN to ELSE status[o]
Translated(o, from, to)  == IF to = "em atendimento" THEN "IN_PROGRESS" ELSE to

(* data.status: the one asked for, whatever the row holds by now.          *)
NewStatus(o, from, to) == to

(* updateStatus, the write: status, date and event in one transaction.     *)
WriteStatus(h) ==
  LET q == room[h]
  IN  /\ q.op = "status"
      /\ HasRoom(q.occ)
      /\ status' = [status EXCEPT ![q.occ] = NewStatus(q.occ, q.from, q.to)]
      /\ resolvedAt' = [resolvedAt EXCEPT ![q.occ] = ResolvedNow(q.occ, q.to)]
      /\ timeline' = [timeline EXCEPT ![q.occ] = Extended(q.occ, StatusRow(q.from, q.to))]
      /\ Become(h, [op |-> "announce", occ |-> q.occ, to |-> q.to])
      /\ UNCHANGED <<active, checklistVars, plans, statusNews>>

(* Mutant: the message carries the status the row has by then.             *)
StatusByNow(q) == status[q.occ]

NewsOf(q) == q.to

(* The emission, when the handler is resumed after the write.              *)
AnnounceStatus(h) ==
  LET q == room[h]
  IN  /\ q.op = "announce"
      /\ statusNews' = [statusNews EXCEPT ![q.occ] = Append(@, NewsOf(q))]
      /\ Become(h, Idle)
      /\ UNCHANGED <<occurrenceVars, checklistVars, plans>>

-----------------------------------------------------------------------------
(* activatePlan, the reads: the plan must be 'ativo' and of the terminal   *)
(* of the occurrence; its steps are copied.                                *)
ReadPlan(h, o, p) ==
  /\ room[h] = Idle
  /\ Opened(o)
  /\ <<o, p>> \in SameTerminal
  /\ plans[p].status = "ativo"
  /\ Become(h, [op |-> "plan", occ |-> o, plan |-> p, steps |-> plans[p].steps])
  /\ UNCHANGED <<occurrenceVars, checklistVars, plans, statusNews>>

(* Mutant: the plan's steps are added to the checklist there is.           *)
ItemsKept(o) == items

(* checklist: { deleteMany: {} }                                           *)
ItemsElsewhere(o) == items \ ItemsOf(o)

PlanItems(o, p, steps) ==
  {[id |-> itemSeq + i + 1, occ |-> o, order |-> i, from |-> p, done |-> FALSE] :
     i \in 0 .. (steps - 1)}

(* activatePlan, the write: the checklist is replaced and the event added  *)
(* in one transaction.                                                     *)
ActivatePlan(h) ==
  LET q == room[h]
  IN  /\ q.op = "plan"
      /\ HasRoom(q.occ)
      /\ itemSeq + q.steps <= MaxItems
      /\ items' = ItemsElsewhere(q.occ) \cup PlanItems(q.occ, q.plan, q.steps)
      /\ itemSeq' = itemSeq + q.steps
      /\ timeline' = [timeline EXCEPT ![q.occ] = Extended(q.occ, PlanEvent(q.plan))]
      /\ Become(h, Idle)
      /\ UNCHANGED <<status, resolvedAt, active, plans, statusNews>>

-----------------------------------------------------------------------------
(* addChecklistItem, the read of the last position.                        *)
ReadLastOrder(h, o) ==
  /\ room[h] = Idle
  /\ Opened(o)
  /\ Become(h, [op |-> "item", occ |-> o,
                order |-> IF ItemsOf(o) = {} THEN 0
                          ELSE 1 + CHOOSE n \in {x.order : x \in ItemsOf(o)} :
                                     \A x \in ItemsOf(o) : x.order <= n])
  /\ UNCHANGED <<occurrenceVars, checklistVars, plans, statusNews>>

InsertItem(h) ==
  LET q == room[h]
  IN  /\ q.op = "item"
      /\ itemSeq < MaxItems
      /\ itemSeq' = itemSeq + 1
      /\ items' = items \cup {[id |-> itemSeq', occ |-> q.occ, order |-> q.order,
                               from |-> NoPlan, done |-> FALSE]}
      /\ Become(h, Idle)
      /\ UNCHANGED <<occurrenceVars, plans, statusNews>>

(* updateChecklistItem, the read: the item belongs to the occurrence.      *)
ReadItem(h, x, done) ==
  /\ room[h] = Idle
  /\ Become(h, [op |-> "tick", occ |-> x.occ, id |-> x.id, done |-> done])
  /\ UNCHANGED <<occurrenceVars, checklistVars, plans, statusNews>>

(* Mutant: an upsert, which writes back an item deleted in between.        *)
TickOrRestore(q) ==
  {x \in items : x.id # q.id} \cup
    {[id |-> q.id, occ |-> q.occ, order |-> 0, from |-> NoPlan, done |-> q.done]}

(* The update by id finds the row, or is refused (P2025) when a plan       *)
(* activation deleted it after the read.                                   *)
Ticked(q) ==
  {IF x.id = q.id THEN [x EXCEPT !.done = q.done] ELSE x : x \in items}

TickItem(h) ==
  /\ room[h].op = "tick"
  /\ items' = Ticked(room[h])
  /\ Become(h, Idle)
  /\ UNCHANGED <<occurrenceVars, itemSeq, plans, statusNews>>

-----------------------------------------------------------------------------
(* addTimelineEvent: a row of any official type, never with metadata; the  *)
(* status, its date and the checklist stay as they are, whatever the type. *)
AddTimelineEvent(o, type) ==
  /\ Opened(o)
  /\ HasRoom(o)
  /\ timeline' = [timeline EXCEPT ![o] = Extended(o, PostedEvent(type))]
  /\ UNCHANGED <<status, resolvedAt, active, checklistVars, plans, room, statusNews>>

(* remove: soft delete; the other operations do not look at isActive.      *)
Remove(o) ==
  /\ Opened(o)
  /\ active' = [active EXCEPT ![o] = FALSE]
  /\ UNCHANGED <<status, resolvedAt, timeline, checklistVars, plans, room, statusNews>>

-----------------------------------------------------------------------------
(* EmergencyPlansService *)
CreatePlan(p, s, n) ==
  /\ plans[p].status = "none"
  /\ plans' = [plans EXCEPT ![p] = [status |-> s, steps |-> n]]
  /\ UNCHANGED <<occurrenceVars, checklistVars, room, statusNews>>

UpdatePlan(p, s, n) ==
  /\ plans[p].status \in PlanStatus
  /\ plans' = [plans EXCEPT ![p] = [status |-> s, steps |-> n]]
  /\ UNCHANGED <<occurrenceVars, checklistVars, room, statusNews>>

RemovePlan(p) ==
  /\ plans[p].status \in PlanStatus
  /\ plans' = [plans EXCEPT ![p].status = "removed"]
  /\ UNCHANGED <<occurrenceVars, checklistVars, room, statusNews>>

-----------------------------------------------------------------------------
(* One request dies at an await, or all of them with the process.          *)
Drop(S) ==
  /\ S # {}
  /\ room' = [h \in Handler |-> IF h \in S THEN Idle ELSE room[h]]
  /\ UNCHANGED <<occurrenceVars, checklistVars, plans, statusNews>>

RoomStep(h) ==
  \/ WriteStatus(h) \/ AnnounceStatus(h) \/ ActivatePlan(h)
  \/ InsertItem(h)  \/ TickItem(h)

Next ==
  \/ \E o \in Occurrence :
       \/ \E s \in OpenedAs : Open(o, s)
       \/ \E t \in TypesPosted : AddTimelineEvent(o, t)
       \/ Remove(o)
  \/ \E h \in Handler :
       \/ \E o \in Occurrence, s \in StatusAsked : ReadStatus(h, o, s)
       \/ \E o \in Occurrence, p \in Plan : ReadPlan(h, o, p)
       \/ \E o \in Occurrence : ReadLastOrder(h, o)
       \/ \E x \in items, d \in BOOLEAN : ReadItem(h, x, d)
       \/ RoomStep(h)
       \/ Drop({h})
  \/ Drop(Handler)
  \/ \E p \in Plan :
       \/ \E s \in PlanStatusAsked, n \in StepCounts : CreatePlan(p, s, n) \/ UpdatePlan(p, s, n)
       \/ RemovePlan(p)

Spec == Init /\ [][Next]_roomVars

-----------------------------------------------------------------------------
(* Properties *)

TypeOK ==
  /\ status     \in [Occurrence -> Status \cup {"unopened"}]
  /\ resolvedAt \in [Occurrence -> BOOLEAN]
  /\ active     \in [Occurrence -> BOOLEAN]
  /\ timeline   \in [Occurrence -> Seq(Event)]
  /\ items      \subseteq Item
  /\ itemSeq    \in Nat
  /\ plans      \in [Plan -> [status : PlanStatus \cup {"none", "removed"}, steps : Nat]]
  /\ room       \in [Handler -> HandlerState]
  /\ statusNews \in [Occurrence -> Seq(Status)]

(* The status column is what the last event updateStatus wrote says in its *)
(* metadata, however many requests move it at once (column and event are   *)
(* written in one transaction, and update strips the status from its body).*)
(* It is not what a reader of types may think: a posted event of the type  *)
(* 'atualizacao de status' or 'ocorrencia resolvida' may follow that one,  *)
(* and has no metadata and no effect on the column.                        *)
StatusFollowsTimeline ==
  \A o \in Occurrence : \A i \in StatusRows(o) :
    (\A j \in StatusRows(o) : j <= i) => status[o] = timeline[o][i].to

(* The previousStatus of an event may be stale, never invented: it is the  *)
(* status an earlier event gave, or the one the occurrence was opened      *)
(* with, which is the same for all.                                        *)
PreviousStatusReal ==
  \A o \in Occurrence :
    LET Unexplained == {i \in StatusRows(o) :
                          \A j \in StatusRows(o) : j < i =>
                            timeline[o][j].to # timeline[o][i].from}
    IN  \A i, k \in Unexplained : timeline[o][i].from = timeline[o][k].from

(* resolvedAt is set exactly when updateStatus wrote an event of the type  *)
(* 'ocorrencia resolvida', and survives every reopening (the dashboard's   *)
(* resolved-in-24h count reads it whatever the status is).  So an event of *)
(* that type tells of a resolution that has no date only when a user       *)
(* posted it.                                                              *)
ResolvedAtAccounted ==
  \A o \in Occurrence :
    resolvedAt[o] <=> \E i \in StatusRows(o) : timeline[o][i].type = "ocorrencia resolvida"

(* The plan steps in an occurrence's checklist are those of one plan, that *)
(* of the last event activatePlan wrote, from position 0 on with no gap and*)
(* no repetition: two activations never leave a mixed checklist, whatever  *)
(* users add, tick and post meanwhile (a posted event of the type 'plano de*)
(* emergencia ativado' activates nothing).                                 *)
ChecklistFromLastPlan ==
  \A o \in Occurrence :
    LET steps == {x \in ItemsOf(o) : x.from # NoPlan}
    IN  /\ \A x \in steps : \E i \in PlanRows(o) :
             /\ \A j \in PlanRows(o) : j <= i
             /\ timeline[o][i].plan = x.from
        /\ {x.order : x \in steps} = 0 .. (Cardinality(steps) - 1)

(* A socket is never told of a status change that was not written: per     *)
(* status, messages sent and about to be sent are at most the events.      *)
StatusNewsTrue ==
  \A o \in Occurrence, s \in Status :
    Cardinality({i \in DOMAIN statusNews[o] : statusNews[o][i] = s})
      + Cardinality({h \in Handler : room[h].op = "announce" /\ room[h].occ = o
                                                            /\ room[h].to = s})
      <= Cardinality({i \in StatusRows(o) : timeline[o][i].to = s})

(* "Timeline (imutavel - so INSERT)": no operation of the room rewrites or *)
(* drops an event.                                                         *)
TimelineAppendOnly ==
  [][\A o \in Occurrence :
       /\ Len(timeline'[o]) >= Len(timeline[o])
       /\ SubSeq(timeline'[o], 1, Len(timeline[o])) = timeline[o]]_roomVars

(* A checklist item that a plan activation removed never comes back, not   *)
(* even through a request that read it before (updateChecklistItem).       *)
NoItemReturns ==
  [][\A x \in items' : x.id > itemSeq \/ \E y \in items : y.id = x.id]_roomVars
=============================================================================
