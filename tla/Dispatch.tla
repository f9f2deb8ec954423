------------------------------ MODULE Dispatch ------------------------------
(***************************************************************************)
(* Opening an occurrence: EmergencyService.create and the automatic call   *)
(* of entities it runs (autoDispatchEntities), interleaved at every await  *)
(* with other creations, with the administrative handlers of               *)
(* EntityRegistry, with the seed script and with restarts of the process.  *)
(*                                                                         *)
(* The state of a creation r is where it stands (stage) and its local      *)
(* variables: the number it drew and its body (ticket), the rules that     *)
(* apply (applicable), those the loop has yet to serve (remaining), and    *)
(* the one whose notification is inserted but not yet in the timeline      *)
(* (current).  They keep their last value once the request has ended.      *)
(*                                                                         *)
(* Access checks on the caller are left out: an admin may open any type on *)
(* any terminal of the organization, so every (terminal, type) is possible.*)
(***************************************************************************)
EXTENDS EntityRegistry, Sequences

CONSTANT SeedRuns  \* whether the seed script runs in this instance

ASSUME SeedAssumption == SeedRuns \in BOOLEAN

VARIABLES
  occurrenceSeq,  \* organization.occurrenceSeq
  stage,          \* Request -> where the handler stands
  ticket,         \* Request -> number drawn, terminal and type of the body
  occurrences,    \* the requests whose Occurrence row is inserted
  timeline,       \* Request -> rows of OccurrenceTimeline, in insertion order
  applicable,     \* Request -> rules that matched when they were read
  remaining,      \* Request -> rules of the loop still to serve
  current,        \* Request -> {} or {the rule being served}
  feed,           \* Request -> what the organization's sockets were sent
  auditLog,       \* rows <<occurrence, action>> of AuditLog
  sampleRows,     \* numbers of the sample occurrences the seed inserted
  seedStage       \* where the seed script stands

creationVars == <<stage, ticket, applicable, remaining, current>>
responseVars == <<occurrences, timeline, feed, auditLog>>
seedVars     == <<sampleRows, seedStage>>
dispatchVars == <<occurrenceSeq, creationVars, responseVars, seedVars>>
vars         == <<registryVars, dispatchVars>>

Stage == {"idle", "numbered", "inserted", "dispatching", "recording",
          "dispatched", "announced", "done", "failed"}
InFlight(r) == stage[r] \notin {"idle", "done", "failed"}

Ticket == [inc : Nat, terminal : Terminal, type : OccType]
Samples == 1 .. 2

Registered    == [event |-> "ocorrencia registrada"]
Called(rule)  == [event |-> "entidade notificada", rule |-> rule.id, entity |-> rule.entity]
CreatedMsg    == [message |-> "occurrence_created"]
NotifiedMsg(rule) == [message |-> "notification_created", rule |-> rule.id]

Event   == {Registered} \cup
             [event : {"entidade notificada"}, rule : Nat, entity : Entity]
Message == {CreatedMsg} \cup [message : {"notification_created"}, rule : Nat]

(* Mutant: the unique key does not cover the rows of the seed.             *)
TakenByRequests == {ticket[r].inc : r \in occurrences}

(* Numbers taken in UNIQUE(organizationId, incNumber).                     *)
Taken == sampleRows \cup {ticket[r].inc : r \in occurrences}

At(r, s) == stage' = [stage EXCEPT ![r] = s]

(* The bodies the clients will post are drawn once, here.                  *)
DispatchInit ==
  /\ occurrenceSeq = 0
  /\ stage         = [r \in Request |-> "idle"]
  /\ ticket        \in [Request -> {[inc |-> 0, terminal |-> t, type |-> y] :
                                    t \in Terminal, y \in OccType}]
  /\ occurrences   = {}
  /\ timeline      = [r \in Request |-> <<>>]
  /\ applicable    = [r \in Request |-> {}]
  /\ remaining     = [r \in Request |-> {}]
  /\ current       = [r \in Request |-> {}]
  /\ feed          = [r \in Request |-> <<>>]
  /\ auditLog      = {}
  /\ sampleRows    = {}
  /\ seedStage     = "off"

-----------------------------------------------------------------------------
(* Mutant: the number is counted from the rows instead of the counter.     *)
CountedNumber == Cardinality(occurrences) + 1

(* The value the atomic increment of occurrenceSeq returns.                *)
NextNumber == occurrenceSeq + 1

(* create, up to nextIncNumber.                                            *)
NextIncNumber(r) ==
  /\ stage[r] = "idle"
  /\ occurrenceSeq' = occurrenceSeq + 1
  /\ ticket' = [ticket EXCEPT ![r].inc = NextNumber]
  /\ At(r, "numbered")
  /\ UNCHANGED <<registryVars, applicable, remaining, current, responseVars, seedVars>>

(* The nested write of the occurrence and its first timeline event, in one *)
(* transaction; UNIQUE(organizationId, incNumber) refuses a taken number.  *)
InsertOccurrence(r) ==
  /\ stage[r] = "numbered"
  /\ IF ticket[r].inc \in Taken
     THEN /\ At(r, "failed")
          /\ UNCHANGED <<occurrences, timeline>>
     ELSE /\ At(r, "inserted")
          /\ occurrences' = occurrences \cup {r}
          /\ timeline' = [timeline EXCEPT ![r] = <<Registered>>]
  /\ UNCHANGED <<registryVars, occurrenceSeq, ticket, applicable, remaining, current,
                 feed, auditLog, seedVars>>

(* The filter of autoDispatchEntities, on one findMany with its joins.     *)
Applies(rule, t) ==
  /\ rule.type = t.type
  /\ entityStatus[rule.entity] = "Ativo"
  /\ t.terminal \in PermittedTerminals(rule.entity)

ReadRules(r) ==
  /\ stage[r] = "inserted"
  /\ applicable' = [applicable EXCEPT ![r] = {x \in rules : Applies(x, ticket[r])}]
  /\ remaining' = [remaining EXCEPT ![r] = applicable'[r]]
  /\ At(r, "dispatching")
  /\ UNCHANGED <<registryVars, occurrenceSeq, ticket, current, responseVars, seedVars>>

(* Mutant: a status outside the official ones.                             *)
UnofficialNotification(r, rule) ==
  [occ |-> r, rule |-> rule.id, entity |-> rule.entity, mandatory |-> rule.mandatory,
   status |-> "Enviada", confirmed |-> FALSE, responding |-> FALSE]

NewNotification(r, rule) ==
  [occ |-> r, rule |-> rule.id, entity |-> rule.entity, mandatory |-> rule.mandatory,
   status |-> "Notificada", confirmed |-> FALSE, responding |-> FALSE]

(* Mutant: a refused insert is tried again and again.                      *)
RetryForever(r) == At(r, "dispatching")

(* The refusal leaves the loop and the handler: the request answers 500.   *)
Refused(r) == At(r, "failed")

(* One turn of the loop, first await: the foreign key refuses an entity    *)
(* excluded since the rules were read, and the request fails there.        *)
CreateNotification(r) ==
  /\ stage[r] = "dispatching"
  /\ \E rule \in remaining[r] :
       IF RowExists(rule.entity)
       THEN /\ notifications' = notifications \cup {NewNotification(r, rule)}
            /\ current' = [current EXCEPT ![r] = {rule}]
            /\ At(r, "recording")
       ELSE /\ Refused(r)
            /\ UNCHANGED <<notifications, current>>
  /\ UNCHANGED <<entityStatus, permission, rules, ruleSeq, adminReq, occurrenceSeq,
                 ticket, applicable, remaining, responseVars, seedVars>>

(* Mutants: the event is not inserted; it replaces the ones before it.     *)
Untraced(r, rule)    == timeline[r]
Overwritten(r, rule) == <<Called(rule)>>

(* The timeline after occurrenceTimeline.create.                           *)
Traced(r, rule) == Append(timeline[r], Called(rule))

(* Second await, and the emission that follows it.                         *)
RecordNotification(r) ==
  /\ stage[r] = "recording"
  /\ \E rule \in current[r] :
       /\ timeline' = [timeline EXCEPT ![r] = Traced(r, rule)]
       /\ feed' = [feed EXCEPT ![r] = Append(@, NotifiedMsg(rule))]
       /\ remaining' = [remaining EXCEPT ![r] = @ \ {rule}]
  /\ current' = [current EXCEPT ![r] = {}]
  /\ At(r, "dispatching")
  /\ UNCHANGED <<registryVars, occurrenceSeq, ticket, applicable, occurrences,
                 auditLog, seedVars>>

(* AuditService.record swallows its own errors: the row may be missing.    *)
Audit(r, action) == auditLog' \in {auditLog, auditLog \cup {<<r, action>>}}

(* Mutant: create does not await autoDispatchEntities.                     *)
NotAwaited(r) == TRUE

(* The loop has served every rule that applied.                            *)
LoopOver(r) == remaining[r] = {}

EndDispatch(r) ==
  /\ stage[r] = "dispatching"
  /\ LoopOver(r)
  /\ IF applicable[r] = {} THEN UNCHANGED auditLog ELSE Audit(r, "dispatch")
  /\ At(r, "dispatched")
  /\ UNCHANGED <<registryVars, occurrenceSeq, ticket, applicable, remaining, current,
                 occurrences, timeline, feed, seedVars>>

(* The occurrence is read back and announced to the organization.          *)
Announce(r) ==
  /\ stage[r] = "dispatched"
  /\ feed' = [feed EXCEPT ![r] = Append(@, CreatedMsg)]
  /\ At(r, "announced")
  /\ UNCHANGED <<registryVars, occurrenceSeq, ticket, applicable, remaining, current,
                 occurrences, timeline, auditLog, seedVars>>

AuditCreation(r) ==
  /\ stage[r] = "announced"
  /\ Audit(r, "create")
  /\ At(r, "done")
  /\ UNCHANGED <<registryVars, occurrenceSeq, ticket, applicable, remaining, current,
                 occurrences, timeline, feed, seedVars>>

(* Any awaited statement may be refused, except the audit rows, whose      *)
(* errors are swallowed; nothing written is undone.                        *)
CreationFail(r) ==
  /\ \/ stage[r] \in {"numbered", "inserted", "recording", "dispatched"}
     \/ stage[r] = "dispatching" /\ remaining[r] # {}
  /\ At(r, "failed")
  /\ UNCHANGED <<registryVars, occurrenceSeq, ticket, applicable, remaining, current,
                 responseVars, seedVars>>

-----------------------------------------------------------------------------
(* prisma/seed.ts, which the entry point runs at start-up and an operator  *)
(* may run against a live database; the entry point goes on when it fails. *)
SeedStart ==
  /\ SeedRuns
  /\ seedStage = "off"
  /\ seedStage' = "samples"
  /\ UNCHANGED <<registryVars, occurrenceSeq, creationVars, responseVars, sampleRows>>

(* The sample occurrences, each inserted unless its number is in use.      *)
SeedSample(k) ==
  /\ seedStage = "samples"
  /\ \A j \in Samples : j < k => j \in Taken
  /\ k \notin Taken
  /\ sampleRows' = sampleRows \cup {k}
  /\ UNCHANGED <<registryVars, occurrenceSeq, creationVars, responseVars, seedStage>>

(* Mutant: the counter is set to the number of samples whatever it is.     *)
CounterReset == 2

(* "Contador do INC-#### nunca regride": raised only when it lags.         *)
CounterFloor == IF occurrenceSeq < 2 THEN 2 ELSE occurrenceSeq

SeedCounter ==
  /\ seedStage = "samples"
  /\ Samples \subseteq Taken
  /\ occurrenceSeq' = CounterFloor
  /\ seedStage' = "off"
  /\ UNCHANGED <<registryVars, creationVars, responseVars, sampleRows>>

SeedFail ==
  /\ seedStage = "samples"
  /\ seedStage' = "off"
  /\ UNCHANGED <<registryVars, occurrenceSeq, creationVars, responseVars, sampleRows>>

(* The single Node process stops: every handler in flight is gone.         *)
Restart ==
  /\ stage' = [r \in Request |-> IF InFlight(r) THEN "failed" ELSE stage[r]]
  /\ adminReq' = [a \in AdminRequest |-> Idle]
  /\ UNCHANGED <<entityStatus, permission, rules, ruleSeq, notifications, occurrenceSeq,
                 ticket, applicable, remaining, current, responseVars, seedVars>>

-----------------------------------------------------------------------------
CreationStep(r) ==
  \/ InsertOccurrence(r)   \/ ReadRules(r)   \/ CreateNotification(r)
  \/ RecordNotification(r) \/ EndDispatch(r) \/ Announce(r) \/ AuditCreation(r)

Init == RegistryInit /\ DispatchInit

Next ==
  \/ RegistryNext /\ UNCHANGED dispatchVars
  \/ \E r \in Request : NextIncNumber(r) \/ CreationStep(r) \/ CreationFail(r)
  \/ \E k \in Samples : SeedSample(k)
  \/ SeedStart \/ SeedCounter \/ SeedFail
  \/ Restart

(* Every awaited statement settles, with a result or an error, so a        *)
(* creation in flight keeps being resumed by the event loop.               *)
Fairness == \A r \in Request : WF_vars(CreationStep(r))

Spec     == Init /\ [][Next]_vars
FairSpec == Spec /\ Fairness

-----------------------------------------------------------------------------
(* Properties *)

TypeOK ==
  /\ RegistryTypeOK
  /\ occurrenceSeq \in Nat
  /\ stage         \in [Request -> Stage]
  /\ ticket        \in [Request -> Ticket]
  /\ occurrences   \subseteq Request
  /\ timeline      \in [Request -> Seq(Event)]
  /\ applicable    \in [Request -> SUBSET Rule]
  /\ remaining     \in [Request -> SUBSET Rule]
  /\ current       \in [Request -> SUBSET Rule]
  /\ feed          \in [Request -> Seq(Message)]
  /\ auditLog      \subseteq Request \X {"dispatch", "create"}
  /\ sampleRows    \subseteq Samples
  /\ seedStage     \in {"off", "samples"}

InTimeline(r, e) == \E i \in DOMAIN timeline[r] : timeline[r][i] = e
Sent(r, m)       == \E i \in DOMAIN feed[r] : feed[r][i] = m

(* Two creations never draw the same INC-#### however they interleave with *)
(* each other and with the seed script, so the only insert the unique key  *)
(* can refuse is one whose number a sample occurrence took                 *)
(* (nextIncNumber and the last statement of the samples block).            *)
NumbersDrawnOnce ==
  /\ \A r, s \in Request :
       r # s /\ stage[r] # "idle" /\ stage[s] # "idle"
         => ticket[r].inc # ticket[s].inc
  /\ \A r \in Request :
       stage[r] = "numbered" /\ ticket[r].inc \in Taken => ticket[r].inc \in sampleRows

(* No two occurrences of the organization carry the same number, the       *)
(* samples included (UNIQUE(organizationId, incNumber)).                   *)
NumbersUnique ==
  \A r \in occurrences :
    /\ ticket[r].inc \notin sampleRows
    /\ \A s \in occurrences : r # s => ticket[r].inc # ticket[s].inc

(* The sockets of the organization hear of an occurrence as created once,  *)
(* last, and after one notification message for every rule that applied:   *)
(* a client that gets OCCURRENCE_CREATED can list every entity called.     *)
AnnouncedLast ==
  \A r \in Request : \A i \in DOMAIN feed[r] :
    feed[r][i] = CreatedMsg =>
      /\ i = Len(feed[r])
      /\ \A rule \in applicable[r] :
           \E j \in 1 .. (i - 1) : feed[r][j] = NotifiedMsg(rule)

(* The timeline is the record of what was dispatched: a notification       *)
(* without its 'entidade notificada' event is the one its creation is      *)
(* serving, or was serving when it failed; there is never a second one.    *)
NotificationsTraced ==
  \A n \in notifications :
    \/ \E i \in DOMAIN timeline[n.occ] :
         /\ timeline[n.occ][i].event = "entidade notificada"
         /\ timeline[n.occ][i].rule = n.rule
    \/ /\ stage[n.occ] \in {"recording", "failed"}
       /\ \E rule \in current[n.occ] : rule.id = n.rule

(* Conversely an event 'entidade notificada' has its notification row,     *)
(* unless the entity was permanently excluded since, and no rule is served *)
(* twice by one occurrence.                                                *)
EventsBacked ==
  \A r \in Request : \A i \in DOMAIN timeline[r] :
    LET e == timeline[r][i]
    IN  e.event = "entidade notificada" =>
          /\ \A j \in DOMAIN timeline[r] : timeline[r][j] = e => j = i
          /\ \/ entityStatus[e.entity] = "deleted"
             \/ \E n \in notifications : n.occ = r /\ n.rule = e.rule

(* What the audit log says is true: a 'dispatch' row means every entity    *)
(* that applied was called, there being at least one, and a 'create' row   *)
(* that the creation was announced, although each is written by a later    *)
(* statement than the one it attests.                                      *)
AuditTruthful ==
  /\ \A r \in Request : <<r, "dispatch">> \in auditLog =>
       /\ applicable[r] # {}
       /\ \A rule \in applicable[r] : InTimeline(r, Called(rule))
  /\ \A r \in Request : <<r, "create">> \in auditLog => Sent(r, CreatedMsg)

(* The timeline is only ever extended, by creation or by dispatch          *)
(* ("Timeline imutavel - so INSERT").                                      *)
TimelineAppendOnly ==
  [][\A r \in Request :
       /\ Len(timeline'[r]) >= Len(timeline[r])
       /\ SubSeq(timeline'[r], 1, Len(timeline[r])) = timeline[r]]_vars

(* The counter behind INC-#### never goes back, not even when the seed     *)
(* runs against a live database ("Contador do INC-#### nunca regride").    *)
CounterNeverRegresses == [][occurrenceSeq' >= occurrenceSeq]_vars

(* A creation that got under way is answered: it is never left waiting     *)
(* between two statements, whatever the administrators do to the rules and *)
(* entities it is serving.                                                 *)
CreationSettles ==
  \A r \in Request : InFlight(r) ~> stage[r] \in {"done", "failed"}

(* "Ja existe uma regra para esta entidade e tipo de ocorrencia": an       *)
(* entity has at most one dispatch rule for a type                         *)
(* (NotificationRulesService.create).                                      *)
OneRulePerEntityAndType ==
  \A x, y \in rules : x.entity = y.entity /\ x.type = y.type => x = y

(* A permanent exclusion never takes a dispatched notification with it:    *)
(* it is refused "para preservar o historico" (EntitiesService.hardDelete).*)
DispatchHistoryKept ==
  [][\A n \in notifications : \E m \in notifications' :
       m.occ = n.occ /\ m.rule = n.rule]_vars

(* "Progressao oficial: Notificada -> Em Atendimento -> Confirmada": a     *)
(* notification only moves forward (EntityNotificationsService).           *)
Rank(status) == CASE status \in {"Notificada", "Pendente"} -> 0
                  [] status = "Em Atendimento" -> 1
                  [] status = "Confirmada" -> 2
OfficialProgression ==
  [][\A n \in notifications, m \in notifications' :
       m.occ = n.occ /\ m.rule = n.rule => Rank(m.status) >= Rank(n.status)]_vars
=============================================================================
