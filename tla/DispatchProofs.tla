--------------------------- MODULE DispatchProofs ---------------------------
(***************************************************************************)
(* Proofs about Dispatch, for any number of requests, entities, terminals, *)
(* occurrence types, rules and administrators, with the seed script or     *)
(* without it.                                                             *)
(***************************************************************************)
EXTENDS Dispatch, EntityRegistryProofs

(* The rows and messages a creation writes for a rule it serves.           *)
LEMMA NotificationTyped ==
  ASSUME NEW r \in Request, NEW rule \in Rule
  PROVE  /\ NewNotification(r, rule) \in Notification
         /\ NewNotification(r, rule).entity = rule.entity
BY DEF NewNotification, Notification, NotificationStatus, Rule

(* What a creation appends to its timeline and its messages.               *)
LEMMA EventsTyped ==
  /\ Registered \in Event
  /\ CreatedMsg \in Message
  /\ \A rule \in Rule : Called(rule) \in Event /\ NotifiedMsg(rule) \in Message
<1>1. Registered \in Event /\ CreatedMsg \in Message
  BY DEF Event, Message
<1>2. ASSUME NEW rule \in Rule
      PROVE  Called(rule) \in Event
  BY DEF Called, Event, Rule
<1>3. ASSUME NEW rule \in Rule
      PROVE  NotifiedMsg(rule) \in Message
  BY DEF NotifiedMsg, Message, Rule
<1> QED BY <1>1, <1>2, <1>3

(* One more element in one of the sequences.                               *)
LEMMA Appended ==
  ASSUME NEW S, NEW f \in [Request -> Seq(S)], NEW r \in Request, NEW x \in S
  PROVE  [f EXCEPT ![r] = Append(f[r], x)] \in [Request -> Seq(S)]
<1>1. f[r] \in Seq(S)
  OBVIOUS
<1>2. Append(f[r], x) \in Seq(S)
  BY <1>1
<1> QED BY <1>2

(* The types of the variables are kept by every step.                      *)
LEMMA TypeStep ==
  ASSUME TypeOK, [Next]_vars
  PROVE  TypeOK'
<1> USE DEF TypeOK, At, creationVars, responseVars, seedVars
<1>1. ASSUME RegistryNext, UNCHANGED dispatchVars
      PROVE  TypeOK'
  BY <1>1, RegistryStepTyped DEF dispatchVars
<1>2. ASSUME NEW r \in Request, NextIncNumber(r)
      PROVE  TypeOK'
  <2>1. /\ ticket[r] \in Ticket
        /\ occurrenceSeq + 1 \in Nat
    OBVIOUS
  <2>2. [ticket[r] EXCEPT !.inc = occurrenceSeq + 1] \in Ticket
    BY <2>1 DEF Ticket
  <2>3. ticket' = [ticket EXCEPT ![r] = [ticket[r] EXCEPT !.inc = occurrenceSeq + 1]]
    BY <1>2 DEF NextIncNumber, NextNumber
  <2>4. ticket' \in [Request -> Ticket]
    BY <2>2, <2>3
  <2> QED BY <1>2, <2>4 DEF NextIncNumber, registryVars, RegistryTypeOK, Stage
<1>3. ASSUME NEW r \in Request, InsertOccurrence(r)
      PROVE  TypeOK'
  <2>1. <<Registered>> \in Seq(Event)
    BY EventsTyped
  <2>2. timeline' \in [Request -> Seq(Event)]
    BY <1>3, <2>1 DEF InsertOccurrence
  <2> QED BY <1>3, <2>2 DEF InsertOccurrence, registryVars, RegistryTypeOK, Stage
<1>4. ASSUME NEW r \in Request, ReadRules(r)
      PROVE  TypeOK'
  BY <1>4 DEF ReadRules, registryVars, RegistryTypeOK, Stage
<1>5. ASSUME NEW r \in Request, CreateNotification(r)
      PROVE  TypeOK'
  <2>1. PICK rule \in remaining[r] :
          IF RowExists(rule.entity)
          THEN /\ notifications' = notifications \cup {NewNotification(r, rule)}
               /\ current' = [current EXCEPT ![r] = {rule}]
               /\ At(r, "recording")
          ELSE /\ Refused(r)
               /\ UNCHANGED <<notifications, current>>
    BY <1>5 DEF CreateNotification
  <2>2. rule \in Rule
    OBVIOUS
  <2>3. NewNotification(r, rule) \in Notification
    BY <2>2, NotificationTyped
  <2>4. notifications' \subseteq Notification
    BY <2>1, <2>3 DEF RegistryTypeOK
  <2>5. current' \in [Request -> SUBSET Rule]
    <3>1. {rule} \in SUBSET Rule /\ current \in [Request -> SUBSET Rule]
      BY <2>2
    <3>2. [current EXCEPT ![r] = {rule}] \in [Request -> SUBSET Rule]
      BY <3>1
    <3>3. current' = [current EXCEPT ![r] = {rule}] \/ current' = current
      BY <2>1
    <3> QED BY <3>1, <3>2, <3>3
  <2>6. stage' \in [Request -> Stage]
    BY <2>1 DEF Refused, Stage
  <2> QED BY <1>5, <2>4, <2>5, <2>6 DEF CreateNotification, RegistryTypeOK
<1>6. ASSUME NEW r \in Request, RecordNotification(r)
      PROVE  TypeOK'
  <2>1. PICK rule \in current[r] :
          /\ timeline' = [timeline EXCEPT ![r] = Append(timeline[r], Called(rule))]
          /\ feed' = [feed EXCEPT ![r] = Append(feed[r], NotifiedMsg(rule))]
          /\ remaining' = [remaining EXCEPT ![r] = @ \ {rule}]
    BY <1>6 DEF RecordNotification, Traced
  <2>2. rule \in Rule
    OBVIOUS
  <2>3. timeline' \in [Request -> Seq(Event)]
    BY <2>1, <2>2, EventsTyped, Appended
  <2>4. feed' \in [Request -> Seq(Message)]
    BY <2>1, <2>2, EventsTyped, Appended
  <2>5. remaining' \in [Request -> SUBSET Rule]
    BY <2>1
  <2> QED BY <1>6, <2>3, <2>4, <2>5
          DEF RecordNotification, registryVars, RegistryTypeOK, Stage
<1>7. ASSUME NEW r \in Request, EndDispatch(r)
      PROVE  TypeOK'
  BY <1>7 DEF EndDispatch, Audit, registryVars, RegistryTypeOK, Stage
<1>8. ASSUME NEW r \in Request, Announce(r)
      PROVE  TypeOK'
  <2>1. feed' \in [Request -> Seq(Message)]
    BY <1>8, EventsTyped, Appended DEF Announce
  <2> QED BY <1>8, <2>1 DEF Announce, registryVars, RegistryTypeOK, Stage
<1>9. ASSUME NEW r \in Request, AuditCreation(r)
      PROVE  TypeOK'
  BY <1>9 DEF AuditCreation, Audit, registryVars, RegistryTypeOK, Stage
<1>10. ASSUME NEW r \in Request, CreationFail(r)
       PROVE  TypeOK'
  BY <1>10 DEF CreationFail, registryVars, RegistryTypeOK, Stage
<1>11. ASSUME NEW k \in Samples, SeedSample(k)
       PROVE  TypeOK'
  BY <1>11 DEF SeedSample, registryVars, RegistryTypeOK
<1>12. CASE SeedStart \/ SeedCounter \/ SeedFail
  BY <1>12 DEF SeedStart, SeedCounter, SeedFail, CounterFloor, registryVars, RegistryTypeOK
<1>13. CASE Restart
  BY <1>13, HandlerStates DEF Restart, RegistryTypeOK, Stage
<1>14. CASE UNCHANGED vars
  BY <1>14 DEF vars, dispatchVars, registryVars, RegistryTypeOK
<1> QED
  BY <1>1, <1>2, <1>3, <1>4, <1>5, <1>6, <1>7, <1>8, <1>9, <1>10, <1>11, <1>12, <1>13, <1>14
  DEF Next, CreationStep

(* The initial values have their types.                                    *)
LEMMA TypeInit == Init => TypeOK
<1> SUFFICES ASSUME Init PROVE TypeOK
  OBVIOUS
<1>1. RegistryTypeOK
  BY RegistryInitTyped DEF Init
<1>2. ticket \in [Request -> Ticket]
  BY DEF Init, DispatchInit, Ticket
<1> QED BY <1>1, <1>2 DEF Init, DispatchInit, TypeOK, Stage

(* Type correctness: the columns, the local variables of every handler and *)
(* the messages keep their shape in every behaviour of create, of the      *)
(* administrative handlers, of the seed script and of restarts.            *)
THEOREM DispatchTyped == Spec => []TypeOK
BY TypeInit, TypeStep, PTL DEF Spec

-----------------------------------------------------------------------------
(* The numbers.  That no two creations draw one number is not inductive by *)
(* itself: what makes it so is that every number drawn is at most the      *)
(* counter, which only grows, and that a row is inserted only once its     *)
(* number is drawn.                                                        *)
NumbersInvariant ==
  /\ \A r \in Request : stage[r] # "idle" => ticket[r].inc \in 1 .. occurrenceSeq
  /\ \A r, s \in Request :
       r # s /\ stage[r] # "idle" /\ stage[s] # "idle" => ticket[r].inc # ticket[s].inc
  /\ \A r \in occurrences : stage[r] \notin {"idle", "numbered"}
  /\ NumbersUnique

(* A step that draws no number, inserts no row and sends no creation back  *)
(* to its first two stages keeps the numbers in order.                     *)
LEMMA NumbersKept ==
  ASSUME TypeOK, NumbersInvariant,
         occurrenceSeq' \in Nat, occurrenceSeq' >= occurrenceSeq,
         UNCHANGED <<ticket, occurrences, sampleRows>>,
         \A r \in Request : stage'[r] # stage[r] =>
           stage[r] # "idle" /\ stage'[r] \notin {"idle", "numbered"}
  PROVE  NumbersInvariant'
<1>1. \A r \in Request : stage'[r] # "idle" => stage[r] # "idle"
  OBVIOUS
<1>2. \A r \in Request : ticket[r].inc \in Nat
  BY DEF TypeOK, Ticket
<1>3. \A r \in Request : stage'[r] # "idle" => ticket'[r].inc \in 1 .. occurrenceSeq'
  BY <1>1, <1>2 DEF NumbersInvariant, TypeOK
<1>4. \A r, s \in Request :
        r # s /\ stage'[r] # "idle" /\ stage'[s] # "idle" => ticket'[r].inc # ticket'[s].inc
  BY <1>1 DEF NumbersInvariant
<1>5. \A r \in occurrences' : stage'[r] \notin {"idle", "numbered"}
  BY DEF NumbersInvariant, TypeOK
<1>6. NumbersUnique'
  BY DEF NumbersInvariant, NumbersUnique
<1> QED BY <1>3, <1>4, <1>5, <1>6 DEF NumbersInvariant

(* The counter only grows, whoever writes it.                              *)
LEMMA CounterStep ==
  ASSUME TypeOK, [Next]_vars
  PROVE  occurrenceSeq' \in Nat /\ occurrenceSeq' >= occurrenceSeq
<1>1. occurrenceSeq \in Nat
  BY DEF TypeOK
<1>2. \/ occurrenceSeq' = occurrenceSeq
      \/ occurrenceSeq' = occurrenceSeq + 1
      \/ occurrenceSeq' = CounterFloor
  BY DEF Next, vars, dispatchVars, CreationStep, NextIncNumber, InsertOccurrence, ReadRules,
         CreateNotification, RecordNotification, EndDispatch, Announce, AuditCreation,
         CreationFail, SeedSample, SeedStart, SeedCounter, SeedFail, Restart
<1> QED BY <1>1, <1>2 DEF CounterFloor

(* A draw takes a number above all others; the seed and the other          *)
(* statements leave the numbers in order.                                  *)
LEMMA NumbersStep ==
  ASSUME TypeOK, NumbersInvariant, [Next]_vars
  PROVE  NumbersInvariant'
<1> USE CounterStep
<1>1. ASSUME NEW r \in Request, NextIncNumber(r)
      PROVE  NumbersInvariant'
  <2>1. ticket[r] \in Ticket /\ occurrenceSeq \in Nat
    BY DEF TypeOK
  <2>2. /\ stage[r] = "idle"
        /\ occurrenceSeq' = occurrenceSeq + 1
        /\ ticket'[r].inc = occurrenceSeq + 1
        /\ stage'[r] = "numbered"
        /\ \A s \in Request \ {r} : ticket'[s] = ticket[s] /\ stage'[s] = stage[s]
        /\ UNCHANGED <<occurrences, sampleRows>>
    BY <1>1, <2>1 DEF NextIncNumber, NextNumber, At, TypeOK, responseVars, seedVars, Ticket
  <2>3. r \notin occurrences
    BY <2>2 DEF NumbersInvariant
  <2>4. \A s \in Request \ {r} : stage[s] # "idle" =>
          ticket[s].inc \in Nat /\ ticket[s].inc <= occurrenceSeq /\ ticket[s].inc >= 1
    BY <2>1 DEF NumbersInvariant
  <2>5. \A s \in Request : stage'[s] # "idle" => ticket'[s].inc \in 1 .. occurrenceSeq'
    BY <2>1, <2>2, <2>4
  <2>6. \A s, t \in Request :
          s # t /\ stage'[s] # "idle" /\ stage'[t] # "idle" => ticket'[s].inc # ticket'[t].inc
    <3>1. \A s \in Request \ {r} : stage'[s] # "idle" => ticket'[s].inc # ticket'[r].inc
      BY <2>1, <2>2, <2>4
    <3>2. \A s, t \in Request \ {r} :
            s # t /\ stage'[s] # "idle" /\ stage'[t] # "idle" => ticket'[s].inc # ticket'[t].inc
      BY <2>2 DEF NumbersInvariant
    <3> QED BY <3>1, <3>2
  <2>7. \A s \in occurrences' : stage'[s] \notin {"idle", "numbered"}
    BY <2>2, <2>3 DEF NumbersInvariant, TypeOK
  <2>8. NumbersUnique'
    <3>1. \A s \in occurrences : s \in Request \ {r}
      BY <2>3 DEF TypeOK
    <3>2. \A s \in occurrences : ticket'[s].inc = ticket[s].inc
      BY <2>2, <3>1
    <3> QED BY <2>2, <3>2 DEF NumbersInvariant, NumbersUnique
  <2> QED BY <2>5, <2>6, <2>7, <2>8 DEF NumbersInvariant
<1>2. ASSUME NEW r \in Request, InsertOccurrence(r)
      PROVE  NumbersInvariant'
  <2>1. CASE ticket[r].inc \in Taken
    BY <1>2, <2>1, NumbersKept DEF InsertOccurrence, At, TypeOK, seedVars
  <2>2. CASE ticket[r].inc \notin Taken
    <3>1. /\ stage[r] = "numbered" /\ stage' = [stage EXCEPT ![r] = "inserted"]
          /\ occurrences' = occurrences \cup {r}
          /\ UNCHANGED <<occurrenceSeq, ticket, sampleRows>>
      BY <1>2, <2>2 DEF InsertOccurrence, At, seedVars
    <3>2. ticket[r].inc \notin sampleRows /\ \A s \in occurrences : ticket[r].inc # ticket[s].inc
      BY <2>2 DEF Taken
    <3>3. NumbersUnique'
      BY <3>1, <3>2 DEF NumbersInvariant, NumbersUnique
    <3>4. \A s \in Request : stage'[s] # "idle" => stage[s] # "idle"
      BY <3>1 DEF TypeOK
    <3>5. \A s \in occurrences' : stage'[s] \notin {"idle", "numbered"}
      BY <3>1 DEF NumbersInvariant, TypeOK
    <3> QED BY <3>1, <3>3, <3>4, <3>5 DEF NumbersInvariant
  <2> QED BY <2>1, <2>2
<1>3. ASSUME NEW r \in Request,
             ReadRules(r) \/ CreateNotification(r) \/ RecordNotification(r) \/ EndDispatch(r)
               \/ Announce(r) \/ AuditCreation(r) \/ CreationFail(r)
      PROVE  NumbersInvariant'
  <2>1. UNCHANGED <<ticket, occurrences, sampleRows>>
    BY <1>3 DEF ReadRules, CreateNotification, RecordNotification, EndDispatch, Announce,
                AuditCreation, CreationFail, responseVars, seedVars
  <2>2. /\ stage[r] # "idle"
        /\ \E s \in Stage \ {"idle", "numbered"} : stage' = [stage EXCEPT ![r] = s]
    BY <1>3 DEF ReadRules, CreateNotification, RecordNotification, EndDispatch, Announce,
                AuditCreation, CreationFail, At, Refused, Stage
  <2> QED BY <2>1, <2>2, NumbersKept DEF TypeOK
<1>4. ASSUME NEW k \in Samples, SeedSample(k)
      PROVE  NumbersInvariant'
  <2>1. /\ UNCHANGED <<occurrenceSeq, stage, ticket, occurrences>>
        /\ sampleRows' = sampleRows \cup {k}
        /\ \A r \in occurrences : ticket[r].inc # k
    BY <1>4 DEF SeedSample, Taken, creationVars, responseVars
  <2>2. NumbersUnique'
    BY <2>1 DEF NumbersInvariant, NumbersUnique
  <2> QED BY <2>1, <2>2 DEF NumbersInvariant
<1>5. CASE \/ RegistryNext /\ UNCHANGED dispatchVars
           \/ SeedStart \/ SeedCounter \/ SeedFail
           \/ UNCHANGED vars
  BY <1>5, NumbersKept DEF SeedStart, SeedCounter, SeedFail, vars, dispatchVars,
                           creationVars, responseVars, seedVars
<1>6. CASE Restart
  BY <1>6, NumbersKept DEF Restart, InFlight, TypeOK, responseVars, seedVars
<1> QED BY <1>1, <1>2, <1>3, <1>4, <1>5, <1>6 DEF Next, CreationStep

(* No number is drawn to begin with.                                       *)
LEMMA NumbersInit == Init => NumbersInvariant
BY DEF Init, DispatchInit, NumbersInvariant, NumbersUnique

(* A creation about to insert its row finds its number free, or taken by a *)
(* sample occurrence: the rows of the other creations bear other numbers.  *)
LEMMA NumbersInvariantSuffices ==
  ASSUME TypeOK, NumbersInvariant
  PROVE  NumbersDrawnOnce /\ NumbersUnique
<1>1. ASSUME NEW r \in Request, stage[r] = "numbered", ticket[r].inc \in Taken
      PROVE  ticket[r].inc \in sampleRows
  <2>1. \A s \in occurrences : s \in Request /\ s # r /\ stage[s] # "idle"
    BY <1>1 DEF NumbersInvariant, TypeOK
  <2>2. \A s \in occurrences : ticket[s].inc # ticket[r].inc
    BY <1>1, <2>1 DEF NumbersInvariant
  <2> QED BY <1>1, <2>2 DEF Taken
<1> QED BY <1>1 DEF NumbersInvariant, NumbersDrawnOnce

(* No two creations ever hold the same INC-####, whatever interleaving of  *)
(* creations, seed script and restarts, for any number of requests.        *)
THEOREM DispatchNumbersDrawnOnce == Spec => []NumbersDrawnOnce
<1>1. Init => TypeOK /\ NumbersInvariant
  BY TypeInit, NumbersInit
<1>2. TypeOK /\ NumbersInvariant /\ [Next]_vars => (TypeOK /\ NumbersInvariant)'
  BY TypeStep, NumbersStep
<1>3. TypeOK /\ NumbersInvariant => NumbersDrawnOnce
  BY NumbersInvariantSuffices
<1> QED BY <1>1, <1>2, <1>3, PTL DEF Spec

(* No two occurrences are stored under one number, the samples included.   *)
THEOREM DispatchNumbersUnique == Spec => []NumbersUnique
<1>1. Init => TypeOK /\ NumbersInvariant
  BY TypeInit, NumbersInit
<1>2. TypeOK /\ NumbersInvariant /\ [Next]_vars => (TypeOK /\ NumbersInvariant)'
  BY TypeStep, NumbersStep
<1>3. TypeOK /\ NumbersInvariant => NumbersUnique
  BY NumbersInvariantSuffices
<1> QED BY <1>1, <1>2, <1>3, PTL DEF Spec

(* The counter behind the numbers never goes back, the seed run on a live  *)
(* database included.                                                      *)
THEOREM DispatchCounterNeverRegresses == Spec => CounterNeverRegresses
<1>1. TypeOK /\ [Next]_vars => [occurrenceSeq' >= occurrenceSeq]_vars
  BY CounterStep
<1> QED BY <1>1, DispatchTyped, PTL DEF Spec, CounterNeverRegresses

-----------------------------------------------------------------------------
(* The tables.  The invariant is inductive over the registry's own steps;  *)
(* a creation adds one notification, of an entity that is still there.     *)
LEMMA RowsStep ==
  ASSUME TypeOK, NoOrphanRows, [Next]_vars
  PROVE  NoOrphanRows'
<1>1. CASE RegistryNext
  BY <1>1, RegistryStepRows DEF TypeOK
<1>2. ASSUME NEW r \in Request, CreateNotification(r)
      PROVE  NoOrphanRows'
  <2>1. PICK rule \in remaining[r] :
          \/ UNCHANGED notifications
          \/ RowExists(rule.entity) /\ notifications' = notifications \cup {NewNotification(r, rule)}
    BY <1>2 DEF CreateNotification
  <2>2. UNCHANGED <<entityStatus, permission, rules>>
    BY <1>2 DEF CreateNotification
  <2>3. NewNotification(r, rule).entity = rule.entity
    BY DEF NewNotification
  <2>4. \A n \in notifications' : RowExists(n.entity)
    BY <2>1, <2>3 DEF NoOrphanRows
  <2> QED BY <2>2, <2>4 DEF NoOrphanRows, RowExists
<1>3. CASE UNCHANGED <<entityStatus, permission, rules, notifications>>
  BY <1>3 DEF NoOrphanRows, RowExists
<1>4. \/ RegistryNext
      \/ \E r \in Request : CreateNotification(r)
      \/ UNCHANGED <<entityStatus, permission, rules, notifications>>
  BY DEF Next, CreationStep, NextIncNumber, InsertOccurrence, ReadRules, RecordNotification,
         EndDispatch, Announce, AuditCreation, CreationFail, SeedSample, SeedStart,
         SeedCounter, SeedFail, Restart, vars, registryVars
<1> QED BY <1>1, <1>2, <1>3, <1>4

(* No permission, rule or notification row outlives its entity, however    *)
(* many administrators and creations work on it at once.                   *)
THEOREM DispatchNoOrphanRows == Spec => []NoOrphanRows
<1>1. Init => TypeOK /\ NoOrphanRows
  BY TypeInit, RegistryInitTyped DEF Init
<1>2. TypeOK /\ NoOrphanRows /\ [Next]_vars => (TypeOK /\ NoOrphanRows)'
  BY TypeStep, RowsStep
<1> QED BY <1>1, <1>2, PTL DEF Spec

-----------------------------------------------------------------------------
(* The rules.  The check and the insert are two statements, so a pair of   *)
(* requests may leave two rules for one entity and type; that is the only  *)
(* way.  As long as no two requests in flight create the same rule, what   *)
(* the first statement found is still so at the second: of the others,     *)
(* none adds a rule.                                                       *)
CreatedAlone ==
  \A a, b \in AdminRequest :
    adminReq[a].op = "createRule" /\ adminReq[b].op = "createRule"
      /\ adminReq[a].entity = adminReq[b].entity /\ adminReq[a].type = adminReq[b].type
    => a = b

StillFree ==
  \A a \in AdminRequest : adminReq[a].op = "createRule" =>
    NoRuleYet(adminReq[a].entity, adminReq[a].type)

(* A step whose rules are old ones, changed at most in what they demand,   *)
(* and whose requests in flight are old ones or no creations.              *)
LEMMA RulesKept ==
  ASSUME TypeOK, OneRulePerEntityAndType, StillFree,
         \A x \in rules' : \E y \in rules : x.entity = y.entity /\ x.type = y.type,
         \A x, y \in rules' : x.entity = y.entity /\ x.type = y.type /\ x # y =>
           x \in rules /\ y \in rules,
         \A a \in AdminRequest :
           adminReq'[a] = adminReq[a] \/ adminReq'[a].op # "createRule"
  PROVE  OneRulePerEntityAndType' /\ StillFree'
<1>1. OneRulePerEntityAndType'
  BY DEF OneRulePerEntityAndType
<1>2. ASSUME NEW a \in AdminRequest, adminReq'[a].op = "createRule"
      PROVE  NoRuleYet(adminReq[a].entity, adminReq[a].type)'
  <2>1. adminReq'[a] = adminReq[a]
    BY <1>2
  <2>2. NoRuleYet(adminReq[a].entity, adminReq[a].type)
    BY <1>2, <2>1 DEF StillFree
  <2> QED BY <2>1, <2>2 DEF NoRuleYet
<1> QED BY <1>1, <1>2 DEF StillFree

(* What the first statement of a creation found holds until its second,    *)
(* whatever step comes in between.                                         *)
LEMMA RulesStep ==
  ASSUME TypeOK, OneRulePerEntityAndType, StillFree, CreatedAlone, [Next]_vars
  PROVE  OneRulePerEntityAndType' /\ StillFree'
<1> USE DEF TypeOK, RegistryTypeOK, Become
<1>1. ASSUME NEW a \in AdminRequest, NEW e \in Entity, NEW type \in OccType,
             NEW m \in Mandatory, CheckRule(a, e, type, m)
      PROVE  OneRulePerEntityAndType' /\ StillFree'
  <2>1. UNCHANGED rules /\ NoRuleYet(e, type)
    BY <1>1 DEF CheckRule
  <2>2. /\ adminReq'[a].entity = e /\ adminReq'[a].type = type
        /\ \A b \in AdminRequest : b # a => adminReq'[b] = adminReq[b]
    BY <1>1 DEF CheckRule
  <2> QED BY <2>1, <2>2 DEF OneRulePerEntityAndType, StillFree, NoRuleYet
<1>2. ASSUME NEW a \in AdminRequest, InsertRule(a)
      PROVE  OneRulePerEntityAndType' /\ StillFree'
  <2> DEFINE q == adminReq[a]
             new == [id |-> ruleSeq', entity |-> q.entity, type |-> q.type,
                     mandatory |-> q.mandatory]
  <2>1. /\ q.op = "createRule"
        /\ UNCHANGED rules \/ rules' = rules \cup {new}
        /\ adminReq'[a] = Idle
        /\ \A b \in AdminRequest : b # a => adminReq'[b] = adminReq[b]
    BY <1>2 DEF InsertRule
  <2>2. NoRuleYet(q.entity, q.type)
    BY <2>1 DEF StillFree
  <2>3. new.entity = q.entity /\ new.type = q.type
    OBVIOUS
  <2> HIDE DEF new
  <2>4. OneRulePerEntityAndType'
    BY <2>1, <2>2, <2>3 DEF OneRulePerEntityAndType, NoRuleYet
  <2>5. ASSUME NEW b \in AdminRequest, adminReq'[b].op = "createRule"
        PROVE  NoRuleYet(adminReq[b].entity, adminReq[b].type)'
    <3>1. b # a /\ adminReq'[b] = adminReq[b]
      BY <2>1, <2>5 DEF Idle
    <3>2. NoRuleYet(adminReq[b].entity, adminReq[b].type)
      BY <2>5, <3>1 DEF StillFree
    <3>3. adminReq[b].entity # q.entity \/ adminReq[b].type # q.type
      BY <2>1, <2>5, <3>1 DEF CreatedAlone
    <3> QED BY <2>1, <2>3, <3>1, <3>2, <3>3 DEF NoRuleYet
  <2> QED BY <2>4, <2>5 DEF StillFree
<1>3. ASSUME NEW x \in rules, NEW m \in Mandatory, SetMandatory(x, m)
      PROVE  OneRulePerEntityAndType' /\ StillFree'
  <2> DEFINE y == [x EXCEPT !.mandatory = m]
  <2>1. y.entity = x.entity /\ y.type = x.type
    BY DEF Rule
  <2>2. rules' = (rules \ {x}) \cup {y} /\ UNCHANGED adminReq
    BY <1>3 DEF SetMandatory
  <2> HIDE DEF y
  <2>3. \A z \in rules : z.entity = x.entity /\ z.type = x.type => z = x
    BY DEF OneRulePerEntityAndType
  <2> QED BY <2>1, <2>2, <2>3, RulesKept
<1>4. ASSUME rules' \subseteq rules,
             \A a \in AdminRequest :
               adminReq'[a] = adminReq[a] \/ adminReq'[a].op # "createRule"
      PROVE  OneRulePerEntityAndType' /\ StillFree'
  BY <1>4, RulesKept
<1>5. ASSUME NEW a \in AdminRequest, CountRows(a)
      PROVE  adminReq'[a].op # "createRule"
             /\ \A b \in AdminRequest : b # a => adminReq'[b] = adminReq[b]
  <2>1. PICK table \in adminReq[a].uncounted :
          adminReq' = [adminReq EXCEPT ![a] =
             IF RowsOf(adminReq[a].entity, table) = {}
             THEN [adminReq[a] EXCEPT !.uncounted = @ \ {table}] ELSE Idle]
    BY <1>5 DEF CountRows
  <2>2. [adminReq[a] EXCEPT !.uncounted = @ \ {table}].op # "createRule"
    BY <1>5, DeleteEntityState DEF CountRows
  <2> QED BY <2>1, <2>2 DEF Idle
<1>6. ASSUME NEW a \in AdminRequest,
             \/ \E e \in Entity : StartHardDelete(a, e)
             \/ CountRows(a) \/ HardDelete(a) \/ AdminFail(a)
      PROVE  OneRulePerEntityAndType' /\ StillFree'
  <2>1. rules' \subseteq rules
    BY <1>6 DEF StartHardDelete, CountRows, HardDelete, Survivors, AdminFail
  <2>2. \A b \in AdminRequest :
          adminReq'[b] = adminReq[b] \/ adminReq'[b].op # "createRule"
    BY <1>5, <1>6 DEF StartHardDelete, HardDelete, AdminFail, Idle
  <2> QED BY <2>1, <2>2, <1>4
<1>7. CASE UNCHANGED <<rules, adminReq>>
  BY <1>4, <1>7
<1>8. CASE Restart
  BY <1>4, <1>8 DEF Restart, Idle
<1>9. CASE \E x \in rules : RemoveRule(x)
  BY <1>4, <1>9 DEF RemoveRule
<1>10. CASE RegistryNext
  <2>1. \/ UNCHANGED <<rules, adminReq>>
        \/ \E x \in rules : RemoveRule(x) \/ \E m \in Mandatory : SetMandatory(x, m)
        \/ \E a \in AdminRequest :
             \/ \E e \in Entity : StartHardDelete(a, e)
             \/ \E e \in Entity, type \in OccType, m \in Mandatory : CheckRule(a, e, type, m)
             \/ CountRows(a) \/ HardDelete(a) \/ InsertRule(a) \/ AdminFail(a)
    BY <1>10 DEF RegistryNext, CreateEntity, UpdateEntity, RemoveEntity, SetPermission,
                 UpdateNotification
  <2> QED BY <2>1, <1>1, <1>2, <1>3, <1>6, <1>7, <1>9
<1>11. RegistryNext \/ Restart \/ UNCHANGED <<rules, adminReq>>
  BY DEF Next, CreationStep, NextIncNumber, InsertOccurrence, ReadRules, CreateNotification,
         RecordNotification, EndDispatch, Announce, AuditCreation, CreationFail, SeedSample,
         SeedStart, SeedCounter, SeedFail, vars, registryVars
<1> QED BY <1>7, <1>8, <1>10, <1>11

(* "Ja existe uma regra para esta entidade e tipo de ocorrencia" holds in  *)
(* every behaviour in which no two requests create the same rule at once:  *)
(* whatever else the administrators change, remove or exclude between the  *)
(* check and the insert, an entity has at most one rule for a type.        *)
THEOREM DispatchOneRule == Spec /\ []CreatedAlone => []OneRulePerEntityAndType
<1>1. Init => OneRulePerEntityAndType /\ StillFree
  BY DEF Init, RegistryInit, Idle, OneRulePerEntityAndType, StillFree
<1>2. TypeOK /\ OneRulePerEntityAndType /\ StillFree /\ CreatedAlone /\ [Next]_vars
        => (OneRulePerEntityAndType /\ StillFree)'
  BY RulesStep
<1> QED BY <1>1, <1>2, DispatchTyped, PTL DEF Spec

-----------------------------------------------------------------------------
(* The history.  An exclusion counts the notifications of its entity and   *)
(* deletes in a later statement, so a notification inserted in between     *)
(* goes with the cascade; that is the only way one ever goes.  As long as  *)
(* no creation still has to call an entity whose notifications an          *)
(* exclusion has counted, the count is true when the delete is sent.       *)
CountedNone(a) ==
  adminReq[a].op = "deleteEntity" /\ "notifications" \notin adminReq[a].uncounted

NoneOvertaken ==
  \A a \in AdminRequest, r \in Request :
    CountedNone(a) /\ stage[r] = "dispatching"
      => \A rule \in remaining[r] : rule.entity # adminReq[a].entity

CountedOut ==
  \A a \in AdminRequest : CountedNone(a) =>
    \A n \in notifications : n.entity # adminReq[a].entity

NotificationsStay ==
  \A n \in notifications : \E m \in notifications' : m.occ = n.occ /\ m.rule = n.rule

(* A step whose notifications are of the entities of the old ones, and     *)
(* whose exclusions are old ones or have not counted yet.                  *)
LEMMA CountsKept ==
  ASSUME CountedOut,
         \A n \in notifications' : \E m \in notifications : n.entity = m.entity,
         \A a \in AdminRequest : CountedNone(a)' => CountedNone(a) /\ adminReq'[a] = adminReq[a]
  PROVE  CountedOut'
BY DEF CountedOut

(* What an exclusion counted holds until it deletes, and its delete then   *)
(* takes no notification.                                                  *)
LEMMA HistoryStep ==
  ASSUME TypeOK, CountedOut, NoneOvertaken, [Next]_vars
  PROVE  CountedOut' /\ NotificationsStay
<1>0. /\ adminReq \in [AdminRequest -> HandlerState] /\ notifications \subseteq Notification
      /\ remaining \in [Request -> SUBSET Rule]
  BY DEF TypeOK, RegistryTypeOK
<1>1. UNCHANGED notifications => NotificationsStay
  BY DEF NotificationsStay
<1>2. ASSUME UNCHANGED notifications,
             \A a \in AdminRequest : adminReq'[a] = adminReq[a] \/ ~ CountedNone(a)'
      PROVE  CountedOut' /\ NotificationsStay
  <2>1. \A a \in AdminRequest : CountedNone(a)' => CountedNone(a) /\ adminReq'[a] = adminReq[a]
    BY <1>2 DEF CountedNone
  <2> QED BY <1>1, <1>2, <2>1, CountsKept
<1>3. ASSUME NEW a \in AdminRequest, CountRows(a)
      PROVE  CountedOut' /\ NotificationsStay
  <2>1. PICK table \in adminReq[a].uncounted :
          adminReq' = [adminReq EXCEPT ![a] =
             IF RowsOf(adminReq[a].entity, table) = {}
             THEN [adminReq[a] EXCEPT !.uncounted = @ \ {table}] ELSE Idle]
    BY <1>3 DEF CountRows, Become
  <2> DEFINE q == [adminReq[a] EXCEPT !.uncounted = @ \ {table}]
  <2>2. q.entity = adminReq[a].entity /\ q.uncounted = adminReq[a].uncounted \ {table}
        /\ q.op = "deleteEntity" /\ adminReq[a].op = "deleteEntity"
    BY <1>0, <1>3, DeleteEntityState DEF CountRows
  <2> HIDE DEF q
  <2>3. /\ UNCHANGED notifications
        /\ \A b \in AdminRequest : b # a => adminReq'[b] = adminReq[b]
    BY <1>0, <1>3, <2>1 DEF CountRows
  <2>4. adminReq'[a] = Idle \/ (adminReq'[a] = q /\ RowsOf(adminReq[a].entity, table) = {})
    BY <1>0, <2>1 DEF q
  <2>5. ASSUME CountedNone(a)'
        PROVE  \A n \in notifications : n.entity # adminReq'[a].entity
    <3>1. /\ adminReq'[a] = q /\ RowsOf(adminReq[a].entity, table) = {}
          /\ "notifications" \notin q.uncounted
      BY <2>4, <2>5 DEF CountedNone, Idle
    <3>2. CASE table = "notifications"
      <4>1. {n \in notifications : n.entity = adminReq[a].entity} = {}
        BY <3>1, <3>2 DEF RowsOf
      <4> QED BY <2>2, <3>1, <4>1
    <3>3. CASE table # "notifications"
      <4>1. CountedNone(a)
        BY <2>2, <3>1, <3>3 DEF CountedNone
      <4> QED BY <2>2, <3>1, <4>1 DEF CountedOut
    <3> QED BY <3>2, <3>3
  <2>6. ASSUME NEW b \in AdminRequest, b # a, CountedNone(b)'
        PROVE  \A n \in notifications : n.entity # adminReq'[b].entity
    BY <2>3, <2>6 DEF CountedOut, CountedNone
  <2>7. CountedOut'
    BY <2>3, <2>5, <2>6 DEF CountedOut
  <2> QED BY <1>1, <2>3, <2>7
<1>4. ASSUME NEW a \in AdminRequest, HardDelete(a)
      PROVE  CountedOut' /\ NotificationsStay
  <2>1. /\ CountedNone(a) /\ adminReq' = [adminReq EXCEPT ![a] = Idle]
        /\ UNCHANGED notifications \/ notifications' = Survivors(notifications, adminReq[a].entity)
    BY <1>4 DEF HardDelete, CountedNone, Become
  <2>2. UNCHANGED notifications
    BY <2>1 DEF CountedOut, Survivors
  <2>3. \A b \in AdminRequest : adminReq'[b] = adminReq[b] \/ ~ CountedNone(b)'
    BY <1>0, <2>1 DEF CountedNone, Idle
  <2> QED BY <1>2, <2>2, <2>3
<1>5. ASSUME NEW a \in AdminRequest,
             \/ \E e \in Entity : StartHardDelete(a, e)
             \/ \E e \in Entity, type \in OccType, m \in Mandatory : CheckRule(a, e, type, m)
             \/ InsertRule(a) \/ AdminFail(a)
      PROVE  CountedOut' /\ NotificationsStay
  <2>1. UNCHANGED notifications
    BY <1>5, Zenon DEF StartHardDelete, CheckRule, InsertRule, AdminFail
  <2>2. \E s : adminReq' = [adminReq EXCEPT ![a] = s]
               /\ (s.op # "deleteEntity" \/ "notifications" \in s.uncounted)
    <3>1. CASE \E e \in Entity : StartHardDelete(a, e)
      <4>1. PICK e \in Entity :
              adminReq' = [adminReq EXCEPT ![a] =
                [op |-> "deleteEntity", entity |-> e, uncounted |-> Table]]
        BY <3>1, Zenon DEF StartHardDelete, Become
      <4>2. "notifications" \in [op |-> "deleteEntity", entity |-> e, uncounted |-> Table].uncounted
        BY DEF Table
      <4> QED BY <4>1, <4>2
    <3>2. CASE \E e \in Entity, type \in OccType, m \in Mandatory : CheckRule(a, e, type, m)
      <4>1. PICK e \in Entity, type \in OccType, m \in Mandatory :
              adminReq' = [adminReq EXCEPT ![a] =
                [op |-> "createRule", entity |-> e, type |-> type, mandatory |-> m]]
        BY <3>2, Zenon DEF CheckRule, Become
      <4>2. [op |-> "createRule", entity |-> e, type |-> type, mandatory |-> m].op # "deleteEntity"
        OBVIOUS
      <4> QED BY <4>1, <4>2
    <3>3. CASE InsertRule(a) \/ AdminFail(a)
      <4>1. adminReq' = [adminReq EXCEPT ![a] = Idle] /\ Idle.op # "deleteEntity"
        BY <3>3 DEF InsertRule, AdminFail, Become, Idle
      <4> QED BY <4>1
    <3> QED BY <1>5, <3>1, <3>2, <3>3
  <2>3. \A b \in AdminRequest : adminReq'[b] = adminReq[b] \/ ~ CountedNone(b)'
    BY <1>0, <2>2 DEF CountedNone
  <2> QED BY <1>2, <2>1, <2>3
<1>6. ASSUME NEW n \in notifications, NEW status \in ResponseStatus, UpdateNotification(n, status)
      PROVE  CountedOut' /\ NotificationsStay
  <2> DEFINE m == [n EXCEPT !.status     = status,
                            !.confirmed  = @ \/ status = "Confirmada",
                            !.responding = @ \/ status = "Em Atendimento"]
  <2>1. notifications' = (notifications \ {n}) \cup {m} /\ UNCHANGED adminReq
    BY <1>6 DEF UpdateNotification
  <2>2. m.occ = n.occ /\ m.rule = n.rule /\ m.entity = n.entity
    BY <1>0 DEF Notification
  <2> HIDE DEF m
  <2>3. NotificationsStay
    BY <2>1, <2>2 DEF NotificationsStay
  <2>4. \A k \in notifications' : \E l \in notifications : k.entity = l.entity
    BY <2>1, <2>2
  <2>5. CountedOut'
    BY <2>1, <2>4, CountsKept DEF CountedNone
  <2> QED BY <2>3, <2>5
<1>7. ASSUME NEW r \in Request, CreateNotification(r)
      PROVE  CountedOut' /\ NotificationsStay
  <2>1. /\ stage[r] = "dispatching" /\ UNCHANGED adminReq
        /\ \/ UNCHANGED notifications
           \/ \E rule \in remaining[r] :
                notifications' = notifications \cup {NewNotification(r, rule)}
    BY <1>7 DEF CreateNotification
  <2>2. CASE UNCHANGED notifications
    BY <1>2, <2>1, <2>2
  <2>3. ASSUME NEW rule \in remaining[r],
               notifications' = notifications \cup {NewNotification(r, rule)}
        PROVE  CountedOut' /\ NotificationsStay
    <3>1. NewNotification(r, rule).entity = rule.entity
      BY DEF NewNotification
    <3>2. \A a \in AdminRequest : CountedNone(a) => rule.entity # adminReq[a].entity
      BY <2>1 DEF NoneOvertaken
    <3>3. CountedOut'
      BY <2>1, <2>3, <3>1, <3>2 DEF CountedOut, CountedNone
    <3>4. NotificationsStay
      BY <2>3 DEF NotificationsStay
    <3> QED BY <3>3, <3>4
  <2> QED BY <2>1, <2>2, <2>3
<1>8. CASE UNCHANGED <<notifications, adminReq>>
  BY <1>2, <1>8
<1>9. CASE Restart
  <2>1. UNCHANGED notifications /\ \A a \in AdminRequest : adminReq'[a] = Idle
    BY <1>9 DEF Restart
  <2> QED BY <1>2, <2>1 DEF CountedNone, Idle
<1>10. CASE RegistryNext
  <2>1. \/ UNCHANGED <<notifications, adminReq>>
        \/ \E n \in notifications, status \in ResponseStatus : UpdateNotification(n, status)
        \/ \E a \in AdminRequest :
             \/ \E e \in Entity : StartHardDelete(a, e)
             \/ \E e \in Entity, type \in OccType, m \in Mandatory : CheckRule(a, e, type, m)
             \/ CountRows(a) \/ HardDelete(a) \/ InsertRule(a) \/ AdminFail(a)
    BY <1>10 DEF RegistryNext, CreateEntity, UpdateEntity, RemoveEntity, SetPermission,
                 RemoveRule, SetMandatory
  <2> QED BY <2>1, <1>3, <1>4, <1>5, <1>6, <1>8
<1>11. \/ RegistryNext \/ Restart \/ UNCHANGED <<notifications, adminReq>>
       \/ \E r \in Request : CreateNotification(r)
  BY DEF Next, CreationStep, NextIncNumber, InsertOccurrence, ReadRules,
         RecordNotification, EndDispatch, Announce, AuditCreation, CreationFail, SeedSample,
         SeedStart, SeedCounter, SeedFail, vars, registryVars
<1> QED BY <1>7, <1>8, <1>9, <1>10, <1>11

(* A permanent exclusion keeps the history ("para preservar o historico")  *)
(* in every behaviour in which no creation still has to call an entity     *)
(* whose notifications the exclusion has counted: whatever else goes on    *)
(* between the counts and the delete, no notification is ever lost.        *)
THEOREM DispatchHistory == Spec /\ []NoneOvertaken => DispatchHistoryKept
<1>1. Init => CountedOut
  BY DEF Init, RegistryInit, CountedOut
<1>2. TypeOK /\ CountedOut /\ NoneOvertaken /\ [Next]_vars => CountedOut' /\ NotificationsStay
  BY HistoryStep
<1>3. NotificationsStay => [\A n \in notifications : \E m \in notifications' :
                              m.occ = n.occ /\ m.rule = n.rule]_vars
  BY DEF NotificationsStay
<1> QED BY <1>1, <1>2, <1>3, DispatchTyped, PTL DEF Spec, DispatchHistoryKept
=============================================================================
