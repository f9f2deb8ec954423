------------------------ MODULE DispatchCallOutProofs ------------------------
(***************************************************************************)
(* Proofs about what a creation tells: its timeline, its notifications,    *)
(* its messages, the audit log, and the contract of CallOut it implements, *)
(* for any number of requests, entities, rules and administrators.         *)
(*                                                                         *)
(* None of these properties is inductive by itself: each compares two      *)
(* tables that two statements write.  What relates them is the position of *)
(* the loop: the rules already served, applicable less remaining, and the  *)
(* one being served, current.                                              *)
(***************************************************************************)
EXTENDS DispatchCallOut, DispatchProofs, SequenceTheorems, FiniteSetTheorems

Served(r)   == applicable[r] \ remaining[r]
Inserted(r) == Served(r) \cup current[r]

(* Where the loop can stand at each stage of a creation.                   *)
LoopOf(r) ==
  /\ remaining[r] \subseteq applicable[r]
  /\ current[r] \subseteq remaining[r]
  /\ \A x, y \in current[r] : x = y
  /\ current[r] # {} => stage[r] \in {"recording", "failed"}
  /\ stage[r] \in {"idle", "numbered", "inserted"} => applicable[r] = {}
  /\ stage[r] \in {"dispatched", "announced", "done"} => remaining[r] = {}
  /\ stage[r] \in {"idle", "numbered"} => r \notin occurrences
  /\ r \notin occurrences =>
       applicable[r] = {} /\ stage[r] \in {"idle", "numbered", "failed"}
  /\ \A x, y \in applicable[r] : x.id = y.id => x = y

LoopInvariant == \A r \in Request : LoopOf(r)

(* The timeline tells of the rules served, of no other and of each once.   *)
TimelineOf(r) ==
  /\ \A i \in DOMAIN timeline[r] :
       timeline[r][i].event = "entidade notificada" =>
         \E x \in Served(r) : timeline[r][i] = Called(x)
  /\ \A x \in Served(r) : InTimeline(r, Called(x))
  /\ \A i, j \in DOMAIN timeline[r] : timeline[r][i] = timeline[r][j] => i = j
  /\ r \notin occurrences => timeline[r] = <<>>

(* The sockets too; and what they hear of last is the creation.            *)
FeedOf(r) ==
  /\ \A x \in Served(r) : Sent(r, NotifiedMsg(x))
  /\ \A i \in DOMAIN feed[r] : feed[r][i] = CreatedMsg =>
       /\ i = Len(feed[r])
       /\ stage[r] \in {"announced", "done", "failed"}
       /\ remaining[r] = {} /\ r \in occurrences
  /\ stage[r] \in {"announced", "done"} => Sent(r, CreatedMsg)

AuditOf(r) ==
  /\ <<r, "dispatch">> \in auditLog => applicable[r] # {} /\ remaining[r] = {}
  /\ <<r, "create">> \in auditLog => Sent(r, CreatedMsg)

TalesInvariant == \A r \in Request : TimelineOf(r) /\ FeedOf(r) /\ AuditOf(r)

(* The notifications are those of the rules served or being served.        *)
NotificationsInvariant ==
  /\ \A n \in notifications :
       \E x \in Inserted(n.occ) : x.id = n.rule /\ x.entity = n.entity
  /\ \A r \in Request : \A x \in Inserted(r) :
       \/ entityStatus[x.entity] = "deleted"
       \/ \E n \in notifications : n.occ = r /\ n.rule = x.id /\ n.entity = x.entity

-----------------------------------------------------------------------------
(* The ids of the rules in use: a new row takes the next id, and the other *)
(* statements keep the id of the row they write over, or take rows away.   *)
LEMMA RuleIdsStep ==
  ASSUME TypeOK, RuleIdsFresh, [Next]_vars
  PROVE  RuleIdsFresh'
<1>1. ASSUME NEW a \in AdminRequest, InsertRule(a)
      PROVE  RuleIdsFresh'
  <2>1. ruleSeq \in Nat /\ rules \subseteq Rule
    BY DEF TypeOK, RegistryTypeOK
  <2>2. PICK y : /\ y.id = ruleSeq + 1
                 /\ \/ ruleSeq' = ruleSeq + 1 /\ rules' = rules \cup {y}
                    \/ UNCHANGED <<rules, ruleSeq>>
    <3> DEFINE q == adminReq[a]
               new == [id |-> ruleSeq + 1, entity |-> q.entity, type |-> q.type,
                       mandatory |-> q.mandatory]
    <3>1. \/ ruleSeq' = ruleSeq + 1 /\ rules' = rules \cup {new}
          \/ UNCHANGED <<rules, ruleSeq>>
      BY <1>1 DEF InsertRule
    <3>2. new.id = ruleSeq + 1
      OBVIOUS
    <3> QED BY <3>1, <3>2
  <2>3. \A x \in rules : x.id \in 1 .. ruleSeq /\ x.id # ruleSeq + 1
    BY <2>1 DEF RuleIdsFresh
  <2> QED BY <2>1, <2>2, <2>3 DEF RuleIdsFresh
<1>2. ASSUME NEW x \in rules, NEW m \in Mandatory, SetMandatory(x, m)
      PROVE  RuleIdsFresh'
  <2>1. PICK y : y.id = x.id /\ rules' = (rules \ {x}) \cup {y} /\ ruleSeq' = ruleSeq
    <3>1. [x EXCEPT !.mandatory = m].id = x.id
      BY ChangedRule, RegistryAssumption DEF TypeOK, RegistryTypeOK
    <3> QED BY <1>2, <3>1 DEF SetMandatory
  <2>2. \A z \in rules : z.id \in 1 .. ruleSeq /\ (z.id = x.id => z = x)
    BY DEF RuleIdsFresh
  <2> QED BY <2>1, <2>2 DEF RuleIdsFresh
<1>3. CASE rules' \subseteq rules /\ ruleSeq' = ruleSeq
  BY <1>3 DEF RuleIdsFresh
<1>4. CASE RegistryNext
  <2>1. \/ \E a \in AdminRequest : InsertRule(a)
        \/ \E x \in rules, m \in Mandatory : SetMandatory(x, m)
        \/ rules' \subseteq rules /\ ruleSeq' = ruleSeq
    BY <1>4 DEF RegistryNext, CreateEntity, UpdateEntity, RemoveEntity, SetPermission,
                StartHardDelete, CheckRule, CountRows, HardDelete, Survivors, AdminFail,
                RemoveRule, UpdateNotification
  <2> QED BY <1>1, <1>2, <1>3, <2>1
<1>5. CASE UNCHANGED <<rules, ruleSeq>>
  BY <1>3, <1>5
<1> QED
  BY <1>4, <1>5
  DEF Next, CreationStep, NextIncNumber, InsertOccurrence, ReadRules, CreateNotification,
      RecordNotification, EndDispatch, Announce, AuditCreation, CreationFail, SeedSample,
      SeedStart, SeedCounter, SeedFail, Restart, vars, registryVars

-----------------------------------------------------------------------------
(* What two creations share is the tables of the registry: a step of one   *)
(* leaves the others where they stand and what they told.                  *)
Untouched(s) ==
  /\ stage'[s] = stage[s]
  /\ applicable'[s] = applicable[s]
  /\ remaining'[s] = remaining[s]
  /\ current'[s] = current[s]
  /\ timeline'[s] = timeline[s]
  /\ feed'[s] = feed[s]
  /\ (s \in occurrences') <=> (s \in occurrences)
  /\ \A a : (<<s, a>> \in auditLog') <=> (<<s, a>> \in auditLog)

ToldBy(r) == TimelineOf(r) /\ FeedOf(r) /\ AuditOf(r)

(* What is true of a creation stays true in a step that leaves its rows,   *)
(* its messages and its loop alone.                                        *)
LEMMA UntouchedKept ==
  ASSUME NEW s \in Request, Untouched(s), LoopOf(s), ToldBy(s)
  PROVE  LoopOf(s)' /\ ToldBy(s)'
<1> USE DEF Untouched
<1>1. LoopOf(s)'
  BY DEF LoopOf
<1>2. TimelineOf(s)'
  <2>1. timeline'[s] = timeline[s] /\ Served(s)' = Served(s)
    BY DEF Served
  <2>2. s \notin occurrences' => s \notin occurrences
    OBVIOUS
  <2>3. \A x \in Served(s) : InTimeline(s, Called(x))'
    BY <2>1 DEF ToldBy, TimelineOf, InTimeline
  <2>4. \A i \in DOMAIN timeline'[s] :
          timeline'[s][i].event = "entidade notificada" =>
            \E x \in Served(s) : timeline'[s][i] = Called(x)
    <3>1. \A i \in DOMAIN timeline[s] :
            timeline[s][i].event = "entidade notificada" =>
              \E x \in Served(s) : timeline[s][i] = Called(x)
      BY Zenon DEF ToldBy, TimelineOf
    <3> QED BY <2>1, <3>1
  <2>5. /\ \A i, j \in DOMAIN timeline'[s] : timeline'[s][i] = timeline'[s][j] => i = j
        /\ s \notin occurrences' => timeline'[s] = <<>>
    BY <2>1, <2>2, Zenon DEF ToldBy, TimelineOf
  <2> QED BY <2>1, <2>3, <2>4, <2>5 DEF TimelineOf
<1>3. FeedOf(s)' /\ AuditOf(s)'
  BY DEF ToldBy, FeedOf, AuditOf, Served, Sent
<1> QED BY <1>1, <1>2, <1>3 DEF ToldBy

(* A statement of one creation leaves every other creation alone.          *)
LEMMA OthersUntouched ==
  ASSUME TypeOK, NEW r \in Request, NEW s \in Request, s # r,
         NextIncNumber(r) \/ CreationStep(r) \/ CreationFail(r)
  PROVE  Untouched(s)
<1> USE DEF TypeOK, At, responseVars, Untouched
<1>1. CASE NextIncNumber(r) \/ InsertOccurrence(r) \/ ReadRules(r) \/ CreationFail(r)
  BY <1>1 DEF NextIncNumber, InsertOccurrence, ReadRules, CreationFail
<1>2. CASE CreateNotification(r) \/ RecordNotification(r)
  BY <1>2 DEF CreateNotification, RecordNotification, Refused
<1>3. CASE EndDispatch(r) \/ Announce(r) \/ AuditCreation(r)
  BY <1>3 DEF EndDispatch, Announce, AuditCreation, Audit
<1> QED BY <1>1, <1>2, <1>3 DEF CreationStep

(* Every step is one of a creation, a restart, or leaves all of them.      *)
LEMMA Steps ==
  ASSUME [Next]_vars
  PROVE  \/ \E r \in Request : NextIncNumber(r) \/ CreationStep(r) \/ CreationFail(r)
         \/ Restart
         \/ /\ UNCHANGED <<stage, applicable, remaining, current, responseVars>>
            /\ RegistryNext \/ UNCHANGED registryVars
BY DEF Next, SeedSample, SeedStart, SeedCounter, SeedFail, vars, dispatchVars, creationVars

-----------------------------------------------------------------------------
(* One more event at the end: what was said before is still said.          *)
LEMMA OneMore ==
  ASSUME NEW S, NEW s \in Seq(S), NEW e \in S, NEW t, t = Append(s, e)
  PROVE  /\ t \in Seq(S)
         /\ Len(s) \in Nat /\ Len(t) = Len(s) + 1
         /\ DOMAIN s = 1 .. Len(s)
         /\ DOMAIN t = 1 .. (Len(s) + 1)
         /\ t[Len(s) + 1] = e
         /\ \A i \in DOMAIN s : i \in DOMAIN t /\ t[i] = s[i]
         /\ \A i \in DOMAIN t : i = Len(s) + 1 \/ (i \in DOMAIN s /\ t[i] = s[i])
OBVIOUS

(* The events and messages of two rules read by one creation differ, and   *)
(* none is the opening event or the announcement.                          *)
LEMMA EventsDiffer ==
  ASSUME NEW x \in Rule, NEW y \in Rule
  PROVE  /\ Called(x).event = "entidade notificada"
         /\ Called(x).rule = x.id /\ Called(x).entity = x.entity
         /\ Called(x) = Called(y) => x.id = y.id
         /\ Registered.event # "entidade notificada"
         /\ NotifiedMsg(x) # CreatedMsg
BY DEF Called, Registered, NotifiedMsg, CreatedMsg, Rule

(* The step of a creation that serves a rule: its event and its message    *)
(* are added and the rule leaves the loop.                                 *)
LEMMA RecordTold ==
  ASSUME TypeOK, NEW r \in Request, LoopOf(r), ToldBy(r), RecordNotification(r)
  PROVE  LoopOf(r)' /\ ToldBy(r)'
<1>1. PICK rule \in current[r] :
        /\ timeline'[r] = Append(timeline[r], Called(rule))
        /\ feed'[r] = Append(feed[r], NotifiedMsg(rule))
        /\ remaining'[r] = remaining[r] \ {rule}
  BY DEF RecordNotification, Traced, TypeOK
<1>2. /\ stage[r] = "recording" /\ stage'[r] = "dispatching"
      /\ current'[r] = {}
      /\ UNCHANGED <<applicable, occurrences, auditLog>>
  BY DEF RecordNotification, At, TypeOK
<1>3. /\ rule \in remaining[r] /\ rule \in applicable[r] /\ rule \in Rule
      /\ applicable[r] \subseteq Rule
      /\ remaining[r] \subseteq applicable[r]
      /\ r \in occurrences
  BY <1>2 DEF LoopOf, TypeOK
<1>4. Served(r)' = Served(r) \cup {rule}
  BY <1>1, <1>2, <1>3 DEF Served
<1>5. /\ timeline[r] \in Seq(Event) /\ Called(rule) \in Event
      /\ feed[r] \in Seq(Message) /\ NotifiedMsg(rule) \in Message
  BY <1>3, EventsTyped DEF TypeOK
<1> DEFINE n == Len(timeline[r]) + 1
           m == Len(feed[r]) + 1
<1>6. /\ DOMAIN timeline[r] = 1 .. Len(timeline[r])
      /\ n \in DOMAIN timeline'[r] /\ timeline'[r][n] = Called(rule)
      /\ n \notin DOMAIN timeline[r]
      /\ \A i \in DOMAIN timeline[r] :
           i \in DOMAIN timeline'[r] /\ timeline'[r][i] = timeline[r][i]
      /\ \A i \in DOMAIN timeline'[r] :
           i = n \/ (i \in DOMAIN timeline[r] /\ timeline'[r][i] = timeline[r][i])
  BY <1>1, <1>5, OneMore
<1>7. /\ m \in DOMAIN feed'[r] /\ feed'[r][m] = NotifiedMsg(rule)
      /\ \A i \in DOMAIN feed[r] : i \in DOMAIN feed'[r] /\ feed'[r][i] = feed[r][i]
      /\ \A i \in DOMAIN feed'[r] :
           i = m \/ (i \in DOMAIN feed[r] /\ feed'[r][i] = feed[r][i])
  BY <1>1, <1>5, OneMore
<1> HIDE DEF n, m
<1>8. LoopOf(r)'
  BY <1>1, <1>2, <1>3 DEF LoopOf
<1>9. TimelineOf(r)'
  <2>1. \A i \in DOMAIN timeline[r] : timeline[r][i] # Called(rule)
    <3> SUFFICES ASSUME NEW i \in DOMAIN timeline[r], timeline[r][i] = Called(rule)
                 PROVE  FALSE
      OBVIOUS
    <3>1. timeline[r][i].event = "entidade notificada"
      BY <1>3, EventsDiffer
    <3>2. PICK x \in Served(r) : timeline[r][i] = Called(x)
      BY <3>1 DEF ToldBy, TimelineOf
    <3>3. x \in applicable[r] /\ x \in Rule /\ x # rule
      BY <1>3, <3>2 DEF Served
    <3>4. x.id = rule.id
      BY <1>3, <3>2, <3>3, EventsDiffer
    <3> QED BY <1>3, <3>3, <3>4 DEF LoopOf
  <2>2. \A i \in DOMAIN timeline'[r] :
          timeline'[r][i].event = "entidade notificada" =>
            \E x \in Served(r) \cup {rule} : timeline'[r][i] = Called(x)
    <3>1. \A i \in DOMAIN timeline[r] :
            timeline[r][i].event = "entidade notificada" =>
              \E x \in Served(r) : timeline[r][i] = Called(x)
      BY Zenon DEF ToldBy, TimelineOf
    <3> QED BY <1>6, <3>1, Zenon
  <2>3. \A x \in Served(r) \cup {rule} :
          \E i \in DOMAIN timeline'[r] : timeline'[r][i] = Called(x)
    BY <1>6 DEF ToldBy, TimelineOf, InTimeline
  <2>4. \A i, j \in DOMAIN timeline'[r] : timeline'[r][i] = timeline'[r][j] => i = j
    <3>1. \A i, j \in DOMAIN timeline[r] : timeline[r][i] = timeline[r][j] => i = j
      BY Zenon DEF ToldBy, TimelineOf
    <3> SUFFICES ASSUME NEW i \in DOMAIN timeline'[r], NEW j \in DOMAIN timeline'[r],
                        timeline'[r][i] = timeline'[r][j]
                 PROVE  i = j
      OBVIOUS
    <3>2. \/ i \in DOMAIN timeline[r] /\ j \in DOMAIN timeline[r]
          \/ i = n /\ j = n
      BY <1>6, <2>1
    <3>3. timeline[r][i] = timeline[r][j] \/ i = j
      BY <1>6, <3>2
    <3> QED BY <3>1, <3>2, <3>3, Zenon
  <2> QED BY <1>2, <1>3, <1>4, <2>2, <2>3, <2>4 DEF TimelineOf, InTimeline
<1>10. FeedOf(r)'
  <2>1. \A i \in DOMAIN feed'[r] : feed'[r][i] # CreatedMsg
    BY <1>2, <1>3, <1>7, EventsDiffer DEF ToldBy, FeedOf
  <2>2. \A x \in Served(r) \cup {rule} :
          \E i \in DOMAIN feed'[r] : feed'[r][i] = NotifiedMsg(x)
    BY <1>7 DEF ToldBy, FeedOf, Sent
  <2> QED BY <1>2, <1>4, <2>1, <2>2 DEF FeedOf, Sent
<1>11. AuditOf(r)'
  BY <1>2, <1>3 DEF ToldBy, AuditOf, FeedOf, Sent
<1> QED BY <1>8, <1>9, <1>10, <1>11 DEF ToldBy

(* The announcement, after the loop.                                       *)
LEMMA AnnounceTold ==
  ASSUME TypeOK, NEW r \in Request, LoopOf(r), ToldBy(r), Announce(r)
  PROVE  LoopOf(r)' /\ ToldBy(r)'
<1>1. /\ stage[r] = "dispatched" /\ stage'[r] = "announced"
      /\ feed'[r] = Append(feed[r], CreatedMsg)
      /\ UNCHANGED <<applicable, remaining, current, occurrences, timeline, auditLog>>
  BY DEF Announce, At, TypeOK
<1>2. feed[r] \in Seq(Message) /\ CreatedMsg \in Message
  BY EventsTyped DEF TypeOK
<1> DEFINE m == Len(feed[r]) + 1
<1>3. /\ m \in DOMAIN feed'[r] /\ feed'[r][m] = CreatedMsg /\ m = Len(feed'[r])
      /\ \A i \in DOMAIN feed[r] : i \in DOMAIN feed'[r] /\ feed'[r][i] = feed[r][i]
      /\ \A i \in DOMAIN feed'[r] :
           i = m \/ (i \in DOMAIN feed[r] /\ feed'[r][i] = feed[r][i])
  BY <1>1, <1>2, OneMore
<1> HIDE DEF m
<1>4. LoopOf(r)'
  BY <1>1 DEF LoopOf
<1>5. TimelineOf(r)'
  BY <1>1 DEF ToldBy, TimelineOf, Served, InTimeline
<1>6. FeedOf(r)'
  <2>1. remaining'[r] = {} /\ r \in occurrences'
    BY <1>1 DEF LoopOf
  <2>2. \A x \in Served(r)' : Sent(r, NotifiedMsg(x))'
    BY <1>1, <1>3 DEF ToldBy, FeedOf, Served, Sent
  <2>3. \A i \in DOMAIN feed'[r] : feed'[r][i] = CreatedMsg => i = m
    BY <1>1, <1>3 DEF ToldBy, FeedOf
  <2> QED BY <1>1, <1>3, <2>1, <2>2, <2>3 DEF FeedOf, Sent
<1>7. AuditOf(r)'
  BY <1>1, <1>3 DEF ToldBy, AuditOf, Sent
<1> QED BY <1>4, <1>5, <1>6, <1>7 DEF ToldBy

(* Every other step of a creation: nothing is served by it.                *)
LEMMA CreationTold ==
  ASSUME TypeOK, RuleIdsFresh, NEW r \in Request, LoopOf(r), ToldBy(r),
         NextIncNumber(r) \/ CreationStep(r) \/ CreationFail(r)
  PROVE  LoopOf(r)' /\ ToldBy(r)'
<1> USE DEF TypeOK, At, responseVars
<1>1. ASSUME timeline'[r] = timeline[r] \/ (timeline[r] = <<>> /\ timeline'[r] = <<Registered>>),
             Served(r)' = Served(r), Served(r) = {} \/ timeline'[r] = timeline[r],
             r \in occurrences' \/ (r \notin occurrences /\ timeline'[r] = timeline[r])
      PROVE  TimelineOf(r)'
  <2>1. CASE timeline'[r] = timeline[r]
    <3>1. \A i \in DOMAIN timeline[r] :
            timeline[r][i].event = "entidade notificada" =>
              \E x \in Served(r) : timeline[r][i] = Called(x)
      BY Zenon DEF ToldBy, TimelineOf
    <3>2. \A x \in Served(r) : \E i \in DOMAIN timeline[r] : timeline[r][i] = Called(x)
      BY DEF ToldBy, TimelineOf, InTimeline
    <3>3. /\ \A i, j \in DOMAIN timeline[r] : timeline[r][i] = timeline[r][j] => i = j
          /\ r \notin occurrences' => timeline[r] = <<>>
      BY <1>1, Zenon DEF ToldBy, TimelineOf
    <3>4. \A i \in DOMAIN timeline'[r] :
            timeline'[r][i].event = "entidade notificada" =>
              \E x \in Served(r)' : timeline'[r][i] = Called(x)
      BY <1>1, <2>1, <3>1
    <3>5. \A x \in Served(r)' : InTimeline(r, Called(x))'
      BY <1>1, <2>1, <3>2 DEF InTimeline
    <3>6. /\ \A i, j \in DOMAIN timeline'[r] : timeline'[r][i] = timeline'[r][j] => i = j
          /\ r \notin occurrences' => timeline'[r] = <<>>
      BY <2>1, <3>3
    <3> QED BY <3>4, <3>5, <3>6 DEF TimelineOf
  <2>2. CASE Served(r) = {} /\ timeline'[r] = <<Registered>>
    <3>1. DOMAIN timeline'[r] = {1} /\ timeline'[r][1] = Registered /\ Served(r)' = {}
      BY <1>1, <2>2
    <3>2. Registered.event # "entidade notificada"
      BY DEF Registered
    <3>3. r \notin occurrences' => timeline'[r] = <<>>
      <4>1. r \notin occurrences => timeline[r] = <<>>
        BY Zenon DEF ToldBy, TimelineOf
      <4> QED BY <1>1, <4>1
    <3>4. \A i \in DOMAIN timeline'[r] :
            i = 1 /\ timeline'[r][i].event # "entidade notificada"
      BY <3>1, <3>2
    <3>5. \A i, j \in DOMAIN timeline'[r] : timeline'[r][i] = timeline'[r][j] => i = j
      BY <3>4
    <3> QED BY <3>1, <3>3, <3>4, <3>5, Zenon DEF TimelineOf
  <2> QED BY <1>1, <2>1, <2>2
<1>2. ASSUME feed'[r] = feed[r], Served(r)' = Served(r),
             \A i \in DOMAIN feed[r] : feed[r][i] = CreatedMsg =>
               /\ stage'[r] \in {"announced", "done", "failed"}
               /\ remaining'[r] = {} /\ r \in occurrences',
             stage'[r] \in {"announced", "done"} => Sent(r, CreatedMsg)
      PROVE  FeedOf(r)'
  BY <1>2 DEF ToldBy, FeedOf, Sent
<1>3. ASSUME feed'[r] = feed[r], UNCHANGED auditLog,
             <<r, "dispatch">> \notin auditLog \/ UNCHANGED <<applicable, remaining>>
      PROVE  AuditOf(r)'
  BY <1>3 DEF ToldBy, AuditOf, Sent
<1>4. CASE NextIncNumber(r) \/ CreationFail(r)
  <2>1. /\ \/ stage[r] = "idle" /\ stage'[r] = "numbered"
           \/ /\ stage[r] \in {"numbered", "inserted", "dispatching", "recording", "dispatched"}
              /\ stage'[r] = "failed"
        /\ UNCHANGED <<applicable, remaining, current, occurrences, timeline, feed, auditLog>>
    BY <1>4 DEF NextIncNumber, CreationFail
  <2>2. LoopOf(r)'
    BY <2>1 DEF LoopOf
  <2>3. Served(r)' = Served(r)
    BY <2>1 DEF Served
  <2>4. TimelineOf(r)'
    <3>1. r \notin occurrences => timeline[r] = <<>>
      BY Zenon DEF ToldBy, TimelineOf
    <3> QED BY <1>1, <2>1, <2>3, <3>1
  <2>5. FeedOf(r)'
    BY <1>2, <2>1, <2>3 DEF ToldBy, FeedOf
  <2> QED BY <1>3, <2>1, <2>2, <2>4, <2>5 DEF ToldBy
<1>5. CASE InsertOccurrence(r)
  <2>1. /\ stage[r] = "numbered" /\ r \notin occurrences
        /\ \/ stage'[r] = "failed" /\ UNCHANGED <<occurrences, timeline>>
           \/ stage'[r] = "inserted" /\ r \in occurrences' /\ timeline'[r] = <<Registered>>
        /\ UNCHANGED <<applicable, remaining, current, feed, auditLog>>
    BY <1>5 DEF InsertOccurrence, LoopOf
  <2>2. LoopOf(r)'
    BY <2>1 DEF LoopOf
  <2>3. Served(r) = {} /\ Served(r)' = Served(r) /\ timeline[r] = <<>>
    BY <2>1 DEF LoopOf, Served, ToldBy, TimelineOf
  <2>4. TimelineOf(r)'
    BY <1>1, <2>1, <2>3
  <2>5. FeedOf(r)'
    BY <1>2, <2>1, <2>3 DEF ToldBy, FeedOf
  <2> QED BY <1>3, <2>1, <2>2, <2>4, <2>5 DEF ToldBy
<1>6. CASE ReadRules(r)
  <2>1. /\ stage[r] = "inserted" /\ stage'[r] = "dispatching"
        /\ applicable'[r] \subseteq rules /\ remaining'[r] = applicable'[r]
        /\ UNCHANGED <<current, occurrences, timeline, feed, auditLog>>
    BY <1>6 DEF ReadRules
  <2>2. /\ applicable[r] = {} /\ remaining[r] = {} /\ current[r] = {} /\ r \in occurrences
    BY <2>1 DEF LoopOf
  <2>3. LoopOf(r)'
    BY <2>1, <2>2 DEF LoopOf, RuleIdsFresh
  <2>4. Served(r) = {} /\ Served(r)' = Served(r)
    BY <2>1, <2>2 DEF Served
  <2>5. TimelineOf(r)'
    BY <1>1, <2>1, <2>2, <2>4
  <2>6. FeedOf(r)'
    BY <1>2, <2>1, <2>4 DEF ToldBy, FeedOf
  <2>7. <<r, "dispatch">> \notin auditLog
    BY <2>2 DEF ToldBy, AuditOf
  <2> QED BY <1>3, <2>1, <2>3, <2>5, <2>6, <2>7 DEF ToldBy
<1>7. CASE CreateNotification(r)
  <2>1. PICK rule \in remaining[r] :
          \/ current'[r] = {rule} /\ stage'[r] = "recording"
          \/ current'[r] = current[r] /\ stage'[r] = "failed"
    BY <1>7 DEF CreateNotification, Refused
  <2>2. /\ stage[r] = "dispatching"
        /\ UNCHANGED <<applicable, remaining, occurrences, timeline, feed, auditLog>>
    BY <1>7 DEF CreateNotification
  <2>3. LoopOf(r)'
    BY <2>1, <2>2 DEF LoopOf
  <2>4. Served(r)' = Served(r) /\ r \in occurrences
    BY <2>2 DEF Served, LoopOf
  <2>5. TimelineOf(r)'
    BY <1>1, <2>2, <2>4
  <2>6. FeedOf(r)'
    BY <1>2, <2>1, <2>2, <2>4 DEF ToldBy, FeedOf
  <2> QED BY <1>3, <2>2, <2>3, <2>5, <2>6 DEF ToldBy
<1>8. CASE EndDispatch(r) \/ AuditCreation(r)
  <2>1. /\ \/ /\ stage[r] = "dispatching" /\ stage'[r] = "dispatched" /\ remaining[r] = {}
              /\ \/ UNCHANGED auditLog
                 \/ applicable[r] # {} /\ auditLog' = auditLog \cup {<<r, "dispatch">>}
           \/ /\ stage[r] = "announced" /\ stage'[r] = "done"
              /\ auditLog' = auditLog \/ auditLog' = auditLog \cup {<<r, "create">>}
        /\ UNCHANGED <<applicable, remaining, current, occurrences, timeline, feed>>
    BY <1>8 DEF EndDispatch, AuditCreation, Audit, LoopOver
  <2>2. LoopOf(r)'
    BY <2>1 DEF LoopOf
  <2>3. Served(r)' = Served(r) /\ r \in occurrences
    BY <2>1 DEF Served, LoopOf
  <2>4. TimelineOf(r)'
    BY <1>1, <2>1, <2>3
  <2>5. FeedOf(r)'
    BY <1>2, <2>1, <2>3 DEF ToldBy, FeedOf
  <2>6. AuditOf(r)'
    BY <2>1 DEF ToldBy, FeedOf, AuditOf, Sent
  <2> QED BY <2>2, <2>4, <2>5, <2>6 DEF ToldBy
<1> QED
  BY <1>4, <1>5, <1>6, <1>7, <1>8, RecordTold, AnnounceTold DEF CreationStep

(* A restart ends every creation in flight where it stands.                *)
LEMMA RestartTold ==
  ASSUME TypeOK, NEW r \in Request, LoopOf(r), ToldBy(r), Restart
  PROVE  LoopOf(r)' /\ ToldBy(r)'
<1>1. /\ stage'[r] = stage[r] \/ (stage[r] \notin {"idle", "done"} /\ stage'[r] = "failed")
      /\ UNCHANGED <<applicable, remaining, current, occurrences, timeline, feed, auditLog>>
  BY DEF Restart, InFlight, responseVars, TypeOK
<1>2. LoopOf(r)'
  BY <1>1 DEF LoopOf
<1>3. TimelineOf(r)' /\ AuditOf(r)'
  BY <1>1 DEF ToldBy, TimelineOf, AuditOf, Served, InTimeline, Sent
<1>4. FeedOf(r)'
  BY <1>1 DEF ToldBy, FeedOf, Served, Sent
<1> QED BY <1>2, <1>3, <1>4 DEF ToldBy

(* Every step keeps, for every creation, the place of its loop and what it *)
(* told.                                                                   *)
LEMMA TalesStep ==
  ASSUME TypeOK, RuleIdsFresh, LoopInvariant, TalesInvariant, [Next]_vars
  PROVE  LoopInvariant' /\ TalesInvariant'
<1> SUFFICES ASSUME NEW s \in Request
             PROVE  LoopOf(s)' /\ ToldBy(s)'
  BY DEF LoopInvariant, TalesInvariant, ToldBy
<1>1. LoopOf(s) /\ ToldBy(s)
  BY DEF LoopInvariant, TalesInvariant, ToldBy
<1>2. ASSUME NEW r \in Request, NextIncNumber(r) \/ CreationStep(r) \/ CreationFail(r)
      PROVE  LoopOf(s)' /\ ToldBy(s)'
  <2>1. CASE r = s
    BY <1>1, <1>2, <2>1, CreationTold
  <2>2. CASE r # s
    BY <1>1, <1>2, <2>2, OthersUntouched, UntouchedKept
  <2> QED BY <2>1, <2>2
<1>3. CASE Restart
  BY <1>1, <1>3, RestartTold
<1>4. CASE UNCHANGED <<stage, applicable, remaining, current, responseVars>>
  BY <1>1, <1>4, UntouchedKept DEF Untouched, responseVars
<1> QED BY <1>2, <1>3, <1>4, Steps

-----------------------------------------------------------------------------
(* The notifications.  Only the first await of a turn of the loop adds to  *)
(* the rules whose notification was inserted; the second one moves a rule  *)
(* from being served to served.                                            *)
LEMMA InsertedKept ==
  ASSUME TypeOK, LoopInvariant, [Next]_vars,
         ~ \E r \in Request : CreateNotification(r), NEW s \in Request
  PROVE  Inserted(s)' = Inserted(s)
<1> USE DEF TypeOK, At
<1>1. LoopOf(s)
  BY DEF LoopInvariant
<1>2. ASSUME RecordNotification(s)
      PROVE  Inserted(s)' = Inserted(s)
  <2>1. PICK rule \in current[s] : remaining'[s] = remaining[s] \ {rule}
    BY <1>2 DEF RecordNotification
  <2>2. current'[s] = {} /\ applicable'[s] = applicable[s]
    BY <1>2 DEF RecordNotification
  <2>3. current[s] = {rule} /\ rule \in remaining[s] /\ rule \in applicable[s]
    BY <1>1, <2>1 DEF LoopOf
  <2> QED BY <2>1, <2>2, <2>3 DEF Inserted, Served
<1>3. ASSUME ReadRules(s)
      PROVE  Inserted(s)' = Inserted(s)
  <2>1. applicable[s] = {} /\ remaining[s] = {} /\ current[s] = {}
    BY <1>1, <1>3 DEF ReadRules, LoopOf
  <2>2. remaining'[s] = applicable'[s] /\ current'[s] = {}
    BY <1>3, <2>1 DEF ReadRules
  <2> QED BY <2>1, <2>2 DEF Inserted, Served
<1>4. CASE /\ applicable'[s] = applicable[s]
           /\ remaining'[s] = remaining[s]
           /\ current'[s] = current[s]
  BY <1>4 DEF Inserted, Served
<1>5. ASSUME NEW r \in Request, NextIncNumber(r) \/ CreationStep(r) \/ CreationFail(r)
      PROVE  Inserted(s)' = Inserted(s)
  <2>1. CASE r # s
    BY <1>4, <1>5, <2>1, OthersUntouched DEF Untouched
  <2>2. CASE r = s
    BY <1>2, <1>3, <1>4, <1>5, <2>2
    DEF CreationStep, NextIncNumber, InsertOccurrence, EndDispatch, Announce, AuditCreation,
        CreationFail
  <2> QED BY <2>1, <2>2
<1>6. CASE Restart
  BY <1>4, <1>6 DEF Restart
<1> QED BY <1>4, <1>5, <1>6, Steps

(* The administrators' statements leave every notification a row of its    *)
(* occurrence, rule and entity, or exclude the entity for good.            *)
LEMMA RegistryKeepsNotifications ==
  ASSUME TypeOK, RegistryNext \/ UNCHANGED registryVars
  PROVE  /\ \A e \in Entity : entityStatus[e] = "deleted" => entityStatus'[e] = "deleted"
         /\ \A m \in notifications' : \E n \in notifications :
              m.occ = n.occ /\ m.rule = n.rule /\ m.entity = n.entity
         /\ \A n \in notifications :
              \/ entityStatus'[n.entity] = "deleted"
              \/ \E m \in notifications' :
                   m.occ = n.occ /\ m.rule = n.rule /\ m.entity = n.entity
<1> USE DEF TypeOK, RegistryTypeOK
<1>1. ASSUME NEW n \in notifications, NEW status \in ResponseStatus,
             UpdateNotification(n, status)
      PROVE  UNCHANGED entityStatus /\
             \E m : /\ m.occ = n.occ /\ m.rule = n.rule /\ m.entity = n.entity
                    /\ notifications' = (notifications \ {n}) \cup {m}
  <2> DEFINE c == n.confirmed \/ status = "Confirmada"
             d == n.responding \/ status = "Em Atendimento"
             m == [n EXCEPT !.status = status, !.confirmed = c, !.responding = d]
  <2>1. notifications' = (notifications \ {n}) \cup {m} /\ UNCHANGED entityStatus
    BY <1>1 DEF UpdateNotification
  <2>2. m.occ = n.occ /\ m.rule = n.rule /\ m.entity = n.entity
    <3>1. n \in Notification
      OBVIOUS
    <3> QED BY <3>1 DEF Notification
  <2> HIDE DEF m
  <2> QED BY <2>1, <2>2
<1>2. ASSUME NEW a \in AdminRequest, HardDelete(a)
      PROVE  \/ UNCHANGED <<entityStatus, notifications>>
             \/ \E e \in Entity : /\ entityStatus' = [entityStatus EXCEPT ![e] = "deleted"]
                                  /\ notifications' = {n \in notifications : n.entity # e}
  BY <1>2, DeleteEntityState DEF HardDelete, Survivors
<1>3. CASE \E a \in AdminRequest : HardDelete(a)
  <2>1. \A n \in notifications : n.entity \in Entity
    BY DEF Notification
  <2> QED BY <1>2, <1>3, <2>1
<1>4. CASE \E n \in notifications, status \in ResponseStatus : UpdateNotification(n, status)
  BY <1>1, <1>4
<1>5. CASE /\ \A e \in Entity : entityStatus[e] = "deleted" => entityStatus'[e] = "deleted"
           /\ UNCHANGED notifications
  BY <1>5
<1>6. CASE UNCHANGED registryVars
  BY <1>5, <1>6 DEF registryVars
<1>7. CASE RegistryNext
  <2>1. \/ \E a \in AdminRequest : HardDelete(a)
        \/ \E n \in notifications, status \in ResponseStatus : UpdateNotification(n, status)
        \/ /\ \A e \in Entity : entityStatus[e] = "deleted" => entityStatus'[e] = "deleted"
           /\ UNCHANGED notifications
    BY <1>7 DEF RegistryNext, CreateEntity, UpdateEntity, RemoveEntity, SetPermission,
                StartHardDelete, CheckRule, CountRows, InsertRule, AdminFail, RemoveRule,
                SetMandatory, RowExists
  <2> QED BY <1>3, <1>4, <1>5, <2>1
<1> QED BY <1>6, <1>7

(* Every step keeps the notifications those of the rules served or being   *)
(* served: CreateNotification adds the one of the rule it takes up, and a  *)
(* row goes only with its entity.                                          *)
LEMMA NotificationsStep ==
  ASSUME TypeOK, LoopInvariant, NotificationsInvariant, [Next]_vars
  PROVE  NotificationsInvariant'
<1> USE DEF TypeOK, RegistryTypeOK
<1>1. ASSUME NEW r \in Request, CreateNotification(r)
      PROVE  NotificationsInvariant'
  <2>1. PICK rule \in remaining[r] :
          \/ /\ notifications' = notifications \cup {NewNotification(r, rule)}
             /\ current' = [current EXCEPT ![r] = {rule}]
          \/ UNCHANGED <<notifications, current>>
    BY <1>1 DEF CreateNotification
  <2>2. /\ stage[r] = "dispatching"
        /\ UNCHANGED <<entityStatus, applicable, remaining>>
    BY <1>1 DEF CreateNotification
  <2>3. current[r] = {}
    BY <2>2 DEF LoopInvariant, LoopOf
  <2>4. CASE UNCHANGED <<notifications, current>>
    BY <2>2, <2>4 DEF NotificationsInvariant, Inserted, Served
  <2>5. CASE /\ notifications' = notifications \cup {NewNotification(r, rule)}
             /\ current' = [current EXCEPT ![r] = {rule}]
    <3> DEFINE new == NewNotification(r, rule)
    <3>1. new.occ = r /\ new.rule = rule.id /\ new.entity = rule.entity
      BY DEF NewNotification
    <3> HIDE DEF new
    <3>2. /\ Inserted(r)' = Inserted(r) \cup {rule}
          /\ \A s \in Request : s # r => Inserted(s)' = Inserted(s)
      BY <2>2, <2>3, <2>5 DEF Inserted, Served
    <3>3. \A n \in notifications : n.occ \in Request
      BY DEF Notification
    <3>4. notifications' = notifications \cup {new}
      BY <2>5 DEF new
    <3>5. \A n \in notifications' :
            \E x \in Inserted(n.occ)' : x.id = n.rule /\ x.entity = n.entity
      <4>1. \A n \in notifications :
              \E x \in Inserted(n.occ)' : x.id = n.rule /\ x.entity = n.entity
        <5> SUFFICES ASSUME NEW n \in notifications
                     PROVE  \E x \in Inserted(n.occ)' : x.id = n.rule /\ x.entity = n.entity
          OBVIOUS
        <5>1. Inserted(n.occ) \subseteq Inserted(n.occ)'
          BY <3>2, <3>3
        <5>2. PICK x \in Inserted(n.occ) : x.id = n.rule /\ x.entity = n.entity
          BY DEF NotificationsInvariant
        <5> QED BY <5>1, <5>2
      <4>2. \E x \in Inserted(new.occ)' : x.id = new.rule /\ x.entity = new.entity
        <5>1. rule \in Inserted(r)'
          BY <3>2
        <5> QED BY <3>1, <5>1, Zenon
      <4> QED BY <3>4, <4>1, <4>2, Zenon
    <3>6. \A s \in Request : \A x \in Inserted(s)' :
            \/ entityStatus'[x.entity] = "deleted"
            \/ \E n \in notifications' : n.occ = s /\ n.rule = x.id /\ n.entity = x.entity
      <4>1. \A s \in Request : \A x \in Inserted(s)' :
              x \in Inserted(s) \/ (s = r /\ x = rule)
        BY <3>2
      <4>2. \A s \in Request : \A x \in Inserted(s) :
              \/ entityStatus'[x.entity] = "deleted"
              \/ \E n \in notifications' : n.occ = s /\ n.rule = x.id /\ n.entity = x.entity
        <5> SUFFICES ASSUME NEW s \in Request, NEW x \in Inserted(s)
                     PROVE  \/ entityStatus[x.entity] = "deleted"
                            \/ \E n \in notifications :
                                 n.occ = s /\ n.rule = x.id /\ n.entity = x.entity
          BY <2>2, <3>4
        <5> QED BY Zenon DEF NotificationsInvariant
      <4>3. new \in notifications'
        BY <3>4
      <4>4. ASSUME NEW s \in Request, NEW x \in Inserted(s)', s = r, x = rule
            PROVE  \E n \in notifications' : n.occ = s /\ n.rule = x.id /\ n.entity = x.entity
        BY <3>1, <4>3, <4>4, Zenon
      <4> SUFFICES ASSUME NEW s \in Request, NEW x \in Inserted(s)'
                   PROVE  \/ entityStatus'[x.entity] = "deleted"
                          \/ \E n \in notifications' :
                               n.occ = s /\ n.rule = x.id /\ n.entity = x.entity
        OBVIOUS
      <4>5. CASE x \in Inserted(s)
        BY <4>2, <4>5, Zenon
      <4>6. CASE s = r /\ x = rule
        BY <4>4, <4>6, Zenon
      <4> QED BY <4>1, <4>5, <4>6, Zenon
    <3> QED BY <3>5, <3>6 DEF NotificationsInvariant
  <2> QED BY <2>1, <2>4, <2>5
<1>2. ASSUME ~ \E r \in Request : CreateNotification(r)
      PROVE  NotificationsInvariant'
  <2>1. \A s \in Request : Inserted(s)' = Inserted(s)
    BY <1>2, InsertedKept
  <2>2. RegistryNext \/ UNCHANGED <<entityStatus, notifications>>
    BY <1>2 DEF Next, CreationStep, NextIncNumber, InsertOccurrence, ReadRules,
         RecordNotification, EndDispatch, Announce, AuditCreation, CreationFail, SeedSample,
         SeedStart, SeedCounter, SeedFail, Restart, vars, registryVars
  <2>3. CASE UNCHANGED <<entityStatus, notifications>>
    <3>1. \A n \in notifications : n.occ \in Request
      BY DEF Notification
    <3>2. \A n \in notifications : Inserted(n.occ)' = Inserted(n.occ)
      BY <2>1, <3>1
    <3>3. UNCHANGED <<entityStatus, notifications>>
      BY <2>3
    <3>4. \A n \in notifications :
            \E x \in Inserted(n.occ)' : x.id = n.rule /\ x.entity = n.entity
      BY <3>2 DEF NotificationsInvariant
    <3>5. \A s \in Request : \A x \in Inserted(s)' :
            \/ entityStatus[x.entity] = "deleted"
            \/ \E n \in notifications : n.occ = s /\ n.rule = x.id /\ n.entity = x.entity
      BY <2>1 DEF NotificationsInvariant
    <3> QED BY <3>3, <3>4, <3>5 DEF NotificationsInvariant
  <2>4. CASE RegistryNext
    <3>1. \A n \in notifications : n.occ \in Request
      BY DEF Notification
    <3>2. \A s \in Request : Inserted(s) \subseteq Rule
      BY DEF LoopInvariant, LoopOf, Inserted, Served
    <3>3. \A s \in Request : \A x \in Inserted(s) : x.entity \in Entity
      BY <3>2 DEF Rule
    <3>4. \A m \in notifications' :
            \E x \in Inserted(m.occ)' : x.id = m.rule /\ x.entity = m.entity
      <4> SUFFICES ASSUME NEW m \in notifications'
                   PROVE  \E x \in Inserted(m.occ)' : x.id = m.rule /\ x.entity = m.entity
        OBVIOUS
      <4>1. PICK n \in notifications :
              m.occ = n.occ /\ m.rule = n.rule /\ m.entity = n.entity
        BY <2>4, RegistryKeepsNotifications
      <4>2. PICK x \in Inserted(n.occ) : x.id = n.rule /\ x.entity = n.entity
        BY DEF NotificationsInvariant
      <4> QED BY <2>1, <3>1, <4>1, <4>2
    <3>5. \A s \in Request : \A x \in Inserted(s)' :
            \/ entityStatus'[x.entity] = "deleted"
            \/ \E n \in notifications' : n.occ = s /\ n.rule = x.id /\ n.entity = x.entity
      <4> SUFFICES ASSUME NEW s \in Request, NEW x \in Inserted(s)
                   PROVE  \/ entityStatus'[x.entity] = "deleted"
                          \/ \E n \in notifications' :
                               n.occ = s /\ n.rule = x.id /\ n.entity = x.entity
        BY <2>1
      <4>1. CASE entityStatus[x.entity] = "deleted"
        BY <2>4, <3>3, <4>1, RegistryKeepsNotifications
      <4>2. ASSUME NEW n \in notifications,
                   n.occ = s /\ n.rule = x.id /\ n.entity = x.entity
            PROVE  \/ entityStatus'[x.entity] = "deleted"
                   \/ \E m \in notifications' :
                        m.occ = s /\ m.rule = x.id /\ m.entity = x.entity
        <5>1. \/ entityStatus'[n.entity] = "deleted"
              \/ \E m \in notifications' :
                   m.occ = n.occ /\ m.rule = n.rule /\ m.entity = n.entity
          BY <2>4, RegistryKeepsNotifications
        <5> QED BY <4>2, <5>1, Zenon
      <4> QED BY <4>1, <4>2 DEF NotificationsInvariant
    <3> QED BY <3>4, <3>5 DEF NotificationsInvariant
  <2> QED BY <2>2, <2>3, <2>4
<1> QED BY <1>1, <1>2

-----------------------------------------------------------------------------
(* The inductive invariant.                                                *)
CreationInvariant ==
  /\ TypeOK
  /\ RuleIdsFresh
  /\ LoopInvariant
  /\ TalesInvariant
  /\ NotificationsInvariant

(* Before the first request nothing is told and nobody is called.          *)
LEMMA CreationInvariantInit == Init => CreationInvariant
<1> SUFFICES ASSUME Init PROVE CreationInvariant
  OBVIOUS
<1> USE DEF Init, RegistryInit, DispatchInit
<1>1. RuleIdsFresh
  BY DEF RuleIdsFresh
<1>2. LoopInvariant
  BY DEF LoopInvariant, LoopOf
<1>3. ASSUME NEW r \in Request
      PROVE  TimelineOf(r) /\ FeedOf(r) /\ AuditOf(r)
  <2>1. Served(r) = {} /\ DOMAIN timeline[r] = {} /\ DOMAIN feed[r] = {}
    BY DEF Served
  <2>2. TimelineOf(r)
    BY <2>1 DEF TimelineOf
  <2>3. FeedOf(r)
    BY <2>1 DEF FeedOf
  <2> QED BY <2>2, <2>3 DEF AuditOf
<1>4. NotificationsInvariant
  BY DEF NotificationsInvariant, Inserted, Served
<1> QED BY TypeInit, <1>1, <1>2, <1>3, <1>4 DEF CreationInvariant, TalesInvariant

(* Each conjunct was treated above.                                        *)
LEMMA CreationInvariantStep == CreationInvariant /\ [Next]_vars => CreationInvariant'
BY TypeStep, RuleIdsStep, TalesStep, NotificationsStep DEF CreationInvariant

(* The invariant of every behaviour.                                       *)
LEMMA CreationInvariantHolds == Spec => []CreationInvariant
BY CreationInvariantInit, CreationInvariantStep, PTL DEF Spec

(* The sockets of the organization hear of an occurrence as created once,  *)
(* last, and after one message for every entity called: an early answer of *)
(* create, or an announcement before the loop, would break it.             *)
THEOREM DispatchAnnouncedLast == Spec => []AnnouncedLast
<1>1. CreationInvariant => AnnouncedLast
  <2> SUFFICES ASSUME CreationInvariant, NEW r \in Request,
                      NEW i \in DOMAIN feed[r], feed[r][i] = CreatedMsg
               PROVE  /\ i = Len(feed[r])
                      /\ \A rule \in applicable[r] :
                           \E j \in 1 .. (i - 1) : feed[r][j] = NotifiedMsg(rule)
    BY DEF AnnouncedLast
  <2>1. FeedOf(r) /\ LoopOf(r)
    BY DEF CreationInvariant, TalesInvariant, LoopInvariant
  <2>2. i = Len(feed[r]) /\ remaining[r] = {}
    BY <2>1 DEF FeedOf
  <2>3. ASSUME NEW rule \in applicable[r]
        PROVE  \E j \in 1 .. (i - 1) : feed[r][j] = NotifiedMsg(rule)
    <3>1. PICK j \in DOMAIN feed[r] : feed[r][j] = NotifiedMsg(rule)
      BY <2>1, <2>2 DEF FeedOf, Served, Sent
    <3>2. rule \in Rule /\ feed[r] \in Seq(Message)
      BY DEF CreationInvariant, TypeOK
    <3>3. j # i
      BY <3>1, <3>2, EventsDiffer
    <3>4. i \in 1 .. Len(feed[r]) /\ j \in 1 .. Len(feed[r]) /\ Len(feed[r]) \in Nat
      BY <3>2
    <3> QED BY <2>2, <3>1, <3>3, <3>4
  <2> QED BY <2>2, <2>3
<1> QED BY <1>1, CreationInvariantHolds, PTL

(* A notification row without its timeline event is the one being served,  *)
(* or that was served when the creation failed: the two are written by two *)
(* statements with no transaction around them.                             *)
THEOREM DispatchNotificationsTraced == Spec => []NotificationsTraced
<1>1. CreationInvariant => NotificationsTraced
  <2> SUFFICES ASSUME CreationInvariant, NEW n \in notifications
               PROVE  \/ \E i \in DOMAIN timeline[n.occ] :
                           /\ timeline[n.occ][i].event = "entidade notificada"
                           /\ timeline[n.occ][i].rule = n.rule
                      \/ /\ stage[n.occ] \in {"recording", "failed"}
                         /\ \E rule \in current[n.occ] : rule.id = n.rule
    BY DEF NotificationsTraced
  <2> DEFINE r == n.occ
  <2>1. r \in Request
    BY DEF CreationInvariant, TypeOK, RegistryTypeOK, Notification
  <2>2. PICK x \in Inserted(r) : x.id = n.rule /\ x.entity = n.entity
    BY DEF CreationInvariant, NotificationsInvariant
  <2>3. LoopOf(r) /\ TimelineOf(r) /\ applicable[r] \subseteq Rule
    BY <2>1 DEF CreationInvariant, LoopInvariant, TalesInvariant, TypeOK
  <2> HIDE DEF r
  <2>4. CASE x \in current[r]
    BY <2>2, <2>3, <2>4 DEF LoopOf, r
  <2>5. CASE x \in Served(r)
    <3>1. PICK i \in DOMAIN timeline[r] : timeline[r][i] = Called(x)
      BY <2>3, <2>5 DEF TimelineOf, InTimeline
    <3>2. Called(x).event = "entidade notificada" /\ Called(x).rule = n.rule
      BY <2>2, <2>3, <2>5, EventsDiffer DEF Served
    <3>3. timeline[r][i].event = "entidade notificada" /\ timeline[r][i].rule = n.rule
      BY <3>1, <3>2, Zenon
    <3> QED BY <3>3 DEF r
  <2> QED BY <2>2, <2>4, <2>5 DEF Inserted
<1> QED BY <1>1, CreationInvariantHolds, PTL

(* An event 'entidade notificada' is told once and has its notification    *)
(* row, unless the entity was excluded for good since.                     *)
THEOREM DispatchEventsBacked == Spec => []EventsBacked
<1>1. CreationInvariant => EventsBacked
  <2> SUFFICES ASSUME CreationInvariant, NEW r \in Request, NEW i \in DOMAIN timeline[r],
                      timeline[r][i].event = "entidade notificada"
               PROVE  /\ \A j \in DOMAIN timeline[r] :
                           timeline[r][j] = timeline[r][i] => j = i
                      /\ \/ entityStatus[timeline[r][i].entity] = "deleted"
                         \/ \E n \in notifications :
                              n.occ = r /\ n.rule = timeline[r][i].rule
    BY Zenon DEF EventsBacked
  <2>1. TimelineOf(r) /\ LoopOf(r) /\ applicable[r] \subseteq Rule
    BY DEF CreationInvariant, TalesInvariant, LoopInvariant, TypeOK
  <2>2. PICK x \in Served(r) : timeline[r][i] = Called(x)
    BY <2>1, Zenon DEF TimelineOf
  <2>3. \A j \in DOMAIN timeline[r] : timeline[r][j] = timeline[r][i] => j = i
    BY <2>1, Zenon DEF TimelineOf
  <2>4. timeline[r][i].rule = x.id /\ timeline[r][i].entity = x.entity
    <3>1. Called(x).rule = x.id /\ Called(x).entity = x.entity
      BY <2>1, EventsDiffer DEF Served
    <3> QED BY <2>2, <3>1, Zenon
  <2>5. \/ entityStatus[x.entity] = "deleted"
        \/ \E n \in notifications : n.occ = r /\ n.rule = x.id
    BY DEF CreationInvariant, NotificationsInvariant, Inserted
  <2> QED BY <2>3, <2>4, <2>5, Zenon
<1> QED BY <1>1, CreationInvariantHolds, PTL

(* What the audit log says of a dispatch and of a creation is true, though *)
(* it is written by a later statement than the one it attests.             *)
THEOREM DispatchAuditTruthful == Spec => []AuditTruthful
<1>1. CreationInvariant => AuditTruthful
  <2> SUFFICES ASSUME CreationInvariant, NEW r \in Request
               PROVE  /\ <<r, "dispatch">> \in auditLog =>
                           /\ applicable[r] # {}
                           /\ \A rule \in applicable[r] : InTimeline(r, Called(rule))
                      /\ <<r, "create">> \in auditLog => Sent(r, CreatedMsg)
    BY DEF AuditTruthful
  <2>1. TimelineOf(r) /\ AuditOf(r)
    BY DEF CreationInvariant, TalesInvariant
  <2> QED BY <2>1 DEF AuditOf, TimelineOf, Served
<1> QED BY <1>1, CreationInvariantHolds, PTL

-----------------------------------------------------------------------------
(* One more event leaves the sequence a prefix.                            *)
LEMMA AppendKeepsPrefix ==
  ASSUME NEW S, NEW s \in Seq(S), NEW e \in S
  PROVE  /\ Len(Append(s, e)) >= Len(s)
         /\ SubSeq(Append(s, e), 1, Len(s)) = s
BY SubSeqProperties, SeqEqual

(* No statement of a creation rewrites or drops an event: the timeline is  *)
(* inserted with its first event while it is empty, and extended since.    *)
THEOREM DispatchTimelineAppendOnly == Spec => TimelineAppendOnly
<1>1. ASSUME CreationInvariant, [Next]_vars, NEW r \in Request
      PROVE  /\ Len(timeline'[r]) >= Len(timeline[r])
             /\ SubSeq(timeline'[r], 1, Len(timeline[r])) = timeline[r]
  <2>1. timeline \in [Request -> Seq(Event)] /\ timeline[r] \in Seq(Event)
    BY <1>1 DEF CreationInvariant, TypeOK
  <2>2. CASE timeline'[r] = timeline[r]
    BY <2>1, <2>2, SubSeqFull
  <2>3. ASSUME NEW e \in Event, timeline'[r] = Append(timeline[r], e)
        PROVE  /\ Len(timeline'[r]) >= Len(timeline[r])
               /\ SubSeq(timeline'[r], 1, Len(timeline[r])) = timeline[r]
    BY <2>1, <2>3, AppendKeepsPrefix
  <2>4. ASSUME InsertOccurrence(r), timeline'[r] # timeline[r]
        PROVE  timeline'[r] = Append(timeline[r], Registered)
    <3>1. stage[r] = "numbered" /\ timeline'[r] = <<Registered>>
      BY <2>1, <2>4 DEF InsertOccurrence
    <3>2. timeline[r] = <<>>
      BY <1>1, <3>1 DEF CreationInvariant, LoopInvariant, LoopOf, TalesInvariant, TimelineOf
    <3> QED BY <3>1, <3>2
  <2>5. ASSUME RecordNotification(r)
        PROVE  \E e \in Event : timeline'[r] = Append(timeline[r], e)
    <3>1. PICK rule \in current[r] : timeline'[r] = Append(timeline[r], Called(rule))
      BY <2>1, <2>5 DEF RecordNotification, Traced
    <3>2. rule \in Rule
      BY <1>1 DEF CreationInvariant, TypeOK
    <3> QED BY <3>1, <3>2, EventsTyped
  <2>6. ASSUME NEW s \in Request, NextIncNumber(s) \/ CreationStep(s) \/ CreationFail(s)
        PROVE  timeline'[r] = timeline[r] \/ InsertOccurrence(r) \/ RecordNotification(r)
    <3>1. CASE s # r
      BY <1>1, <2>6, <3>1, OthersUntouched DEF CreationInvariant, Untouched
    <3>2. CASE s = r
      BY <2>6, <3>2 DEF CreationStep, NextIncNumber, ReadRules, CreateNotification,
                        EndDispatch, Announce, AuditCreation, CreationFail, responseVars
    <3> QED BY <3>1, <3>2
  <2>7. timeline'[r] = timeline[r] \/ InsertOccurrence(r) \/ RecordNotification(r)
    BY <1>1, <2>6, Steps DEF Restart, responseVars
  <2> QED BY <2>2, <2>3, <2>4, <2>5, <2>7, EventsTyped
<1>2. CreationInvariant /\ [Next]_vars =>
        [\A r \in Request :
           /\ Len(timeline'[r]) >= Len(timeline[r])
           /\ SubSeq(timeline'[r], 1, Len(timeline[r])) = timeline[r]]_vars
  BY <1>1
<1> QED BY <1>2, CreationInvariantHolds, PTL DEF Spec, TimelineAppendOnly

-----------------------------------------------------------------------------
(* The refinement.  The calls a creation has made, read off its timeline,  *)
(* are the rules it has served.                                            *)
CallFacts ==
  \A r \in Request :
    /\ CallsMade(r) = Served(r) /\ applicable[r] \subseteq Rule
    /\ remaining[r] \subseteq applicable[r]
    /\ Sent(r, CreatedMsg) =>
         /\ CallPhase(r) = "announced" /\ remaining[r] = {} /\ r \in occurrences
         /\ stage[r] \in {"announced", "done", "failed"}
    /\ stage[r] \in {"announced", "done"} => Sent(r, CreatedMsg)
    /\ r \notin occurrences => CallPhase(r) = "none" /\ ~ Sent(r, CreatedMsg)
    /\ r \in occurrences /\ ~ Sent(r, CreatedMsg) =>
         \/ stage[r] = "inserted" /\ CallPhase(r) = "open"
         \/ stage[r] = "failed" /\ CallPhase(r) = "abandoned"
         \/ /\ stage[r] \in {"dispatching", "recording", "dispatched"}
            /\ CallPhase(r) = "calling"

(* The invariant gives the phase of each occurrence in the contract, and   *)
(* the calls made.                                                         *)
LEMMA CallFactsNow == CreationInvariant => CallFacts
<1> SUFFICES ASSUME CreationInvariant, NEW r \in Request
             PROVE  /\ CallsMade(r) = Served(r) /\ applicable[r] \subseteq Rule
                    /\ remaining[r] \subseteq applicable[r]
                    /\ Sent(r, CreatedMsg) =>
                         /\ CallPhase(r) = "announced" /\ remaining[r] = {} /\ r \in occurrences
                         /\ stage[r] \in {"announced", "done", "failed"}
                    /\ stage[r] \in {"announced", "done"} => Sent(r, CreatedMsg)
                    /\ r \notin occurrences => CallPhase(r) = "none" /\ ~ Sent(r, CreatedMsg)
                    /\ r \in occurrences /\ ~ Sent(r, CreatedMsg) =>
                         \/ stage[r] = "inserted" /\ CallPhase(r) = "open"
                         \/ stage[r] = "failed" /\ CallPhase(r) = "abandoned"
                         \/ /\ stage[r] \in {"dispatching", "recording", "dispatched"}
                            /\ CallPhase(r) = "calling"
  BY DEF CallFacts
<1>1. /\ TimelineOf(r) /\ FeedOf(r) /\ LoopOf(r)
      /\ applicable[r] \subseteq Rule /\ stage[r] \in Stage
  BY DEF CreationInvariant, TalesInvariant, LoopInvariant, TypeOK
<1>2. ASSUME NEW x \in applicable[r], InTimeline(r, Called(x))
      PROVE  x \in Served(r)
  <2>1. PICK i \in DOMAIN timeline[r] : timeline[r][i] = Called(x)
    BY <1>2 DEF InTimeline
  <2>2. Called(x).event = "entidade notificada"
    BY <1>1, EventsDiffer
  <2>3. timeline[r][i].event = "entidade notificada"
    BY <2>1, <2>2, Zenon
  <2>4. PICK y \in Served(r) : timeline[r][i] = Called(y)
    BY <1>1, <2>3, Zenon DEF TimelineOf
  <2>5. y \in applicable[r] /\ Called(x) = Called(y)
    BY <2>1, <2>4 DEF Served
  <2>6. x.id = y.id
    BY <1>1, <2>5, EventsDiffer
  <2> QED BY <1>1, <2>4, <2>5, <2>6 DEF LoopOf
<1>3. \A x \in Served(r) : x \in applicable[r] /\ InTimeline(r, Called(x))
  BY <1>1 DEF TimelineOf, Served
<1>4. CallsMade(r) = Served(r)
  BY <1>2, <1>3 DEF CallsMade
<1>5. /\ Sent(r, CreatedMsg) =>
           /\ remaining[r] = {} /\ r \in occurrences
           /\ stage[r] \in {"announced", "done", "failed"}
      /\ stage[r] \in {"announced", "done"} => Sent(r, CreatedMsg)
  BY <1>1 DEF FeedOf, Sent
<1>6. r \in occurrences /\ ~ Sent(r, CreatedMsg) =>
        stage[r] \in {"inserted", "dispatching", "recording", "dispatched", "failed"}
  BY <1>1 DEF FeedOf, LoopOf, Stage
<1>7. remaining[r] \subseteq applicable[r]
  BY <1>1 DEF LoopOf
<1> QED BY <1>1, <1>4, <1>5, <1>6, <1>7 DEF CallPhase

(* The same after a step.                                                  *)
LEMMA CallFactsNext == CreationInvariant' => CallFacts'
BY CallFactsNow, PTL

(* How one step of a creation moves its occurrence in the contract.        *)
Stays(r) ==
  /\ CallPhase(r)' = CallPhase(r)
  /\ applicable'[r] = applicable[r]
  /\ CallsMade(r)' = CallsMade(r)

(* A statement of a creation leaves its occurrence where it stands in the  *)
(* contract, or opens it, decides its calls, makes one of them, announces  *)
(* it or abandons it.                                                      *)
LEMMA ContractMoves ==
  ASSUME CreationInvariant, CreationInvariant', NEW r \in Request,
         NextIncNumber(r) \/ CreationStep(r) \/ CreationFail(r)
  PROVE  \/ Stays(r)
         \/ /\ CallPhase(r) = "none" /\ CallPhase(r)' = "open"
            /\ applicable'[r] = applicable[r] /\ CallsMade(r)' = CallsMade(r)
         \/ /\ CallPhase(r) = "open" /\ CallPhase(r)' = "calling"
            /\ CallsMade(r)' = CallsMade(r)
         \/ /\ CallPhase(r) = "calling" /\ CallPhase(r)' = "calling"
            /\ applicable'[r] = applicable[r]
            /\ \E x \in applicable[r] \ CallsMade(r) : CallsMade(r)' = CallsMade(r) \cup {x}
         \/ /\ CallPhase(r) = "calling" /\ CallPhase(r)' = "announced"
            /\ CallsMade(r) = applicable[r]
            /\ applicable'[r] = applicable[r] /\ CallsMade(r)' = CallsMade(r)
         \/ /\ CallPhase(r) \in {"open", "calling"} /\ CallPhase(r)' = "abandoned"
            /\ applicable'[r] = applicable[r] /\ CallsMade(r)' = CallsMade(r)
<1> USE DEF CreationInvariant, TypeOK, At, responseVars, Stays
<1>1. CallFacts /\ CallFacts'
  BY CallFactsNow, CallFactsNext
<1>2. /\ CallsMade(r) = Served(r) /\ CallsMade(r)' = Served(r)'
      /\ LoopOf(r)
  BY <1>1 DEF CallFacts, LoopInvariant
<1>3. UNCHANGED <<applicable, remaining>> =>
        applicable'[r] = applicable[r] /\ CallsMade(r)' = CallsMade(r)
  BY <1>2 DEF Served
<1>4. UNCHANGED feed => Sent(r, CreatedMsg)' = Sent(r, CreatedMsg)
  BY DEF Sent
<1>5. CASE NextIncNumber(r)
  <2>1. /\ stage[r] = "idle" /\ stage'[r] = "numbered"
        /\ UNCHANGED <<applicable, remaining, occurrences>>
    BY <1>5 DEF NextIncNumber
  <2>2. r \notin occurrences /\ r \notin occurrences'
    BY <1>2, <2>1 DEF LoopOf
  <2> QED BY <1>1, <1>3, <2>1, <2>2 DEF CallFacts
<1>6. CASE InsertOccurrence(r)
  <2>1. /\ stage[r] = "numbered" /\ stage'[r] \in {"failed", "inserted"}
        /\ stage'[r] = "inserted" => r \in occurrences'
        /\ stage'[r] = "failed" => UNCHANGED occurrences
        /\ UNCHANGED <<applicable, remaining, feed>>
    BY <1>6 DEF InsertOccurrence
  <2>2. r \notin occurrences
    BY <1>2, <2>1 DEF LoopOf
  <2>3. CallPhase(r) = "none" /\ ~ Sent(r, CreatedMsg) /\ ~ Sent(r, CreatedMsg)'
    BY <1>1, <1>4, <2>1, <2>2 DEF CallFacts
  <2>4. CASE stage'[r] = "inserted"
    <3>1. CallPhase(r)' = "open"
      BY <1>1, <2>1, <2>3, <2>4 DEF CallFacts
    <3> QED BY <1>3, <2>1, <2>3, <3>1
  <2>5. CASE stage'[r] = "failed"
    <3>1. CallPhase(r)' = "none"
      BY <1>1, <2>1, <2>2, <2>5 DEF CallFacts
    <3> QED BY <1>3, <2>1, <2>3, <3>1
  <2> QED BY <2>1, <2>4, <2>5
<1>7. CASE ReadRules(r)
  <2>1. /\ stage[r] = "inserted" /\ stage'[r] = "dispatching"
        /\ remaining'[r] = applicable'[r] /\ UNCHANGED occurrences
    BY <1>7 DEF ReadRules
  <2>2. r \in occurrences /\ applicable[r] = {}
    BY <1>2, <2>1 DEF LoopOf
  <2>3. CallPhase(r) = "open" /\ CallPhase(r)' = "calling"
    BY <1>1, <2>1, <2>2 DEF CallFacts
  <2>4. CallsMade(r)' = CallsMade(r)
    BY <1>2, <2>1, <2>2 DEF Served
  <2> QED BY <2>3, <2>4
<1>8. CASE CreateNotification(r)
  <2>1. /\ stage[r] = "dispatching" /\ stage'[r] \in {"recording", "failed"}
        /\ UNCHANGED <<applicable, remaining, occurrences, feed>>
    BY <1>8 DEF CreateNotification, Refused
  <2>2. r \in occurrences /\ r \in occurrences'
    BY <1>2, <2>1 DEF LoopOf
  <2>3. CallPhase(r) = "calling" /\ ~ Sent(r, CreatedMsg)'
    BY <1>1, <1>4, <2>1, <2>2 DEF CallFacts
  <2>4. CallPhase(r)' \in {"calling", "abandoned"}
    BY <1>1, <2>1, <2>2, <2>3 DEF CallFacts
  <2> QED BY <1>3, <2>1, <2>3, <2>4
<1>9. CASE RecordNotification(r)
  <2>1. PICK rule \in current[r] : remaining'[r] = remaining[r] \ {rule}
    BY <1>9 DEF RecordNotification
  <2>2. /\ stage[r] = "recording" /\ stage'[r] = "dispatching"
        /\ UNCHANGED <<applicable, occurrences>>
    BY <1>9 DEF RecordNotification
  <2>3. r \in occurrences /\ rule \in applicable[r] /\ rule \in remaining[r]
    BY <1>2, <2>2 DEF LoopOf
  <2>4. CallPhase(r) = "calling" /\ CallPhase(r)' = "calling"
    BY <1>1, <2>2, <2>3 DEF CallFacts
  <2>5. rule \in applicable[r] \ CallsMade(r) /\ CallsMade(r)' = CallsMade(r) \cup {rule}
    BY <1>2, <2>1, <2>2, <2>3 DEF Served
  <2>6. applicable'[r] = applicable[r]
    BY <2>2
  <2> QED BY <2>4, <2>5, <2>6
<1>10. CASE EndDispatch(r) \/ AuditCreation(r)
  <2>1. /\ \/ stage[r] = "dispatching" /\ stage'[r] = "dispatched"
           \/ stage[r] = "announced" /\ stage'[r] = "done"
        /\ UNCHANGED <<applicable, remaining, occurrences>>
    BY <1>10 DEF EndDispatch, AuditCreation
  <2>2. r \in occurrences
    BY <1>2, <2>1 DEF LoopOf
  <2>3. CallPhase(r)' = CallPhase(r)
    BY <1>1, <2>1, <2>2 DEF CallFacts
  <2> QED BY <1>3, <2>1, <2>3
<1>11. CASE Announce(r)
  <2>1. /\ stage[r] = "dispatched" /\ stage'[r] = "announced"
        /\ UNCHANGED <<applicable, remaining, occurrences>>
    BY <1>11 DEF Announce
  <2>2. r \in occurrences /\ remaining[r] = {}
    BY <1>2, <2>1 DEF LoopOf
  <2>3. CallPhase(r) = "calling" /\ CallPhase(r)' = "announced"
    BY <1>1, <2>1, <2>2 DEF CallFacts
  <2>4. CallsMade(r) = applicable[r]
    BY <1>2, <2>2 DEF Served
  <2> QED BY <1>3, <2>1, <2>3, <2>4
<1>12. CASE CreationFail(r)
  <2>1. /\ stage[r] \in {"numbered", "inserted", "dispatching", "recording", "dispatched"}
        /\ stage'[r] = "failed"
        /\ UNCHANGED <<applicable, remaining, occurrences, feed>>
    BY <1>12 DEF CreationFail
  <2>2. stage[r] = "numbered" <=> r \notin occurrences
    BY <1>2, <2>1 DEF LoopOf
  <2>3. CASE r \notin occurrences
    <3>1. CallPhase(r)' = CallPhase(r)
      BY <1>1, <2>1, <2>3 DEF CallFacts
    <3> QED BY <1>3, <2>1, <3>1
  <2>4. CASE r \in occurrences
    <3>1. CallPhase(r) \in {"open", "calling"} /\ ~ Sent(r, CreatedMsg)'
      BY <1>1, <1>4, <2>1, <2>2, <2>4 DEF CallFacts
    <3>2. CallPhase(r)' = "abandoned"
      BY <1>1, <2>1, <2>4, <3>1 DEF CallFacts
    <3> QED BY <1>3, <2>1, <3>1, <3>2
  <2> QED BY <2>3, <2>4
<1> QED
  BY <1>5, <1>6, <1>7, <1>8, <1>9, <1>10, <1>11, <1>12 DEF CreationStep

(* A statement of one creation leaves the other occurrences where they     *)
(* stand in the contract.                                                  *)
LEMMA OthersStay ==
  ASSUME TypeOK, NEW r \in Request, NEW s \in Request, s # r,
         NextIncNumber(r) \/ CreationStep(r) \/ CreationFail(r)
  PROVE  Stays(s)
<1>1. Untouched(s)
  BY OthersUntouched
<1> QED
  BY <1>1 DEF Stays, Untouched, CallPhase, CallsMade, Sent, InTimeline

(* Every step is one the contract allows, or none of its business.         *)
LEMMA ContractStep ==
  ASSUME CreationInvariant, CreationInvariant', [Next]_vars
  PROVE  [Contract!Next]_(Contract!callVars)
<1> DEFINE phase  == [r \in Request |-> CallPhase(r)]
           called == [r \in Request |-> CallsMade(r)]
<1>1. applicable \in [Request -> SUBSET Rule] /\ applicable' \in [Request -> SUBSET Rule]
  BY DEF CreationInvariant, TypeOK
<1>2. CASE \A r \in Request : Stays(r)
  <2>1. phase' = phase /\ called' = called /\ applicable' = applicable
    BY <1>1, <1>2 DEF Stays
  <2> QED BY <2>1 DEF Contract!callVars
<1>3. ASSUME NEW r \in Request, NextIncNumber(r) \/ CreationStep(r) \/ CreationFail(r)
      PROVE  [Contract!Next]_(Contract!callVars)
  <2>1. \A s \in Request : s # r => Stays(s)
    BY <1>3, OthersStay DEF CreationInvariant
  <2>2. /\ \A s \in Request : s # r =>
             phase'[s] = phase[s] /\ applicable'[s] = applicable[s] /\ called'[s] = called[s]
        /\ phase[r] = CallPhase(r) /\ phase'[r] = CallPhase(r)'
        /\ called[r] = CallsMade(r) /\ called'[r] = CallsMade(r)'
        /\ DOMAIN phase = Request /\ DOMAIN called = Request
        /\ DOMAIN phase' = Request /\ DOMAIN called' = Request
    BY <2>1 DEF Stays
  <2>3. phase = [s \in Request |-> phase[s]] /\ phase' = [s \in Request |-> phase'[s]]
        /\ called = [s \in Request |-> called[s]] /\ called' = [s \in Request |-> called'[s]]
    OBVIOUS
  <2>4. /\ Contract!Open(r) <=>
             /\ phase[r] = "none" /\ phase' = [phase EXCEPT ![r] = "open"]
             /\ UNCHANGED <<applicable, called>>
        /\ Contract!Decide(r) <=>
             /\ phase[r] = "open" /\ phase' = [phase EXCEPT ![r] = "calling"]
             /\ applicable' \in [Request -> SUBSET Rule]
             /\ \A s \in Request \ {r} : applicable'[s] = applicable[s]
             /\ UNCHANGED called
        /\ Contract!MakeCall(r) <=>
             /\ phase[r] = "calling"
             /\ \E x \in applicable[r] \ called[r] :
                  called' = [called EXCEPT ![r] = @ \cup {x}]
             /\ UNCHANGED <<phase, applicable>>
        /\ Contract!Announce(r) <=>
             /\ phase[r] = "calling" /\ called[r] = applicable[r]
             /\ phase' = [phase EXCEPT ![r] = "announced"]
             /\ UNCHANGED <<applicable, called>>
        /\ Contract!Abandon({r}) <=>
             /\ \A s \in {r} : phase[s] \in {"open", "calling"}
             /\ phase' = [s \in Request |-> IF s \in {r} THEN "abandoned" ELSE phase[s]]
             /\ UNCHANGED <<applicable, called>>
    BY DEF Contract!Open, Contract!Decide, Contract!MakeCall, Contract!Announce,
           Contract!Abandon
  <2>5. Contract!Open(r) \/ Contract!Decide(r) \/ Contract!MakeCall(r)
          \/ Contract!Announce(r) \/ Contract!Abandon({r}) => Contract!Next
    BY DEF Contract!Next
  <2> HIDE DEF phase, called
  <2>6. /\ phase'[r] = phase[r] => phase' = phase
        /\ called'[r] = called[r] => called' = called
        /\ applicable'[r] = applicable[r] => applicable' = applicable
        /\ \A v : phase'[r] = v => phase' = [phase EXCEPT ![r] = v]
        /\ \A v : called'[r] = v => called' = [called EXCEPT ![r] = v]
    BY <1>1, <2>2, <2>3
  <2>7. ASSUME CallPhase(r) = "none", CallPhase(r)' = "open",
               applicable'[r] = applicable[r], CallsMade(r)' = CallsMade(r)
        PROVE  Contract!Open(r)
    BY <2>2, <2>4, <2>6, <2>7
  <2>8. ASSUME CallPhase(r) = "open", CallPhase(r)' = "calling", CallsMade(r)' = CallsMade(r)
        PROVE  Contract!Decide(r)
    BY <1>1, <2>2, <2>4, <2>6, <2>8
  <2>9. ASSUME CallPhase(r) = "calling", CallPhase(r)' = "calling",
               applicable'[r] = applicable[r],
               NEW x \in applicable[r] \ CallsMade(r),
               CallsMade(r)' = CallsMade(r) \cup {x}
        PROVE  Contract!MakeCall(r)
    BY <2>2, <2>4, <2>6, <2>9
  <2>10. ASSUME CallPhase(r) = "calling", CallPhase(r)' = "announced",
                CallsMade(r) = applicable[r],
                applicable'[r] = applicable[r], CallsMade(r)' = CallsMade(r)
         PROVE  Contract!Announce(r)
    BY <2>2, <2>4, <2>6, <2>10
  <2>11. ASSUME CallPhase(r) \in {"open", "calling"}, CallPhase(r)' = "abandoned",
                applicable'[r] = applicable[r], CallsMade(r)' = CallsMade(r)
         PROVE  Contract!Abandon({r})
    <3>1. phase' = [s \in Request |-> IF s \in {r} THEN "abandoned" ELSE phase[s]]
      BY <2>2, <2>3, <2>11
    <3>2. phase[r] \in {"open", "calling"} /\ UNCHANGED <<applicable, called>>
      BY <2>2, <2>6, <2>11
    <3> QED BY <2>4, <3>1, <3>2
  <2>12. CASE Stays(r)
    BY <1>2, <2>1, <2>12
  <2> QED
    BY <1>3, <2>5, <2>7, <2>8, <2>9, <2>10, <2>11, <2>12, ContractMoves
<1>4. CASE Restart
  <2> DEFINE S == {r \in Request : CallPhase(r) \in {"open", "calling"}}
  <2>1. CallFacts /\ CallFacts'
    BY CallFactsNow, CallFactsNext
  <2>2. ASSUME NEW r \in Request
        PROVE  /\ CallPhase(r)' = IF r \in S THEN "abandoned" ELSE CallPhase(r)
               /\ CallsMade(r)' = CallsMade(r)
    <3>1. /\ UNCHANGED <<applicable, remaining, occurrences, feed>>
          /\ Served(r)' = Served(r)
          /\ Sent(r, CreatedMsg)' = Sent(r, CreatedMsg)
          /\ stage'[r] = IF InFlight(r) THEN "failed" ELSE stage[r]
      BY <1>4 DEF Restart, responseVars, Served, Sent
    <3>2. CASE r \notin occurrences \/ Sent(r, CreatedMsg)
      BY <2>1, <3>1, <3>2 DEF CallFacts
    <3>3. CASE r \in occurrences /\ ~ Sent(r, CreatedMsg)
      <4>1. stage'[r] = "failed"
        BY <2>1, <3>1, <3>3 DEF CallFacts, InFlight
      <4>2. CallPhase(r)' = "abandoned" /\ CallPhase(r) \in {"open", "calling", "abandoned"}
        BY <2>1, <3>1, <3>3, <4>1 DEF CallFacts
      <4>3. CallsMade(r)' = CallsMade(r)
        BY <2>1, <3>1 DEF CallFacts
      <4> QED BY <4>2, <4>3
    <3> QED BY <3>2, <3>3
  <2>3. /\ \A r \in S : phase[r] \in {"open", "calling"}
        /\ phase' = [r \in Request |-> IF r \in S THEN "abandoned" ELSE phase[r]]
        /\ called' = called
        /\ UNCHANGED applicable
    BY <1>4, <2>2 DEF Restart
  <2>4. Contract!Abandon(S)
    BY <2>3 DEF Contract!Abandon
  <2>5. S \in SUBSET Request
    OBVIOUS
  <2> HIDE DEF S
  <2> QED BY <2>4, <2>5 DEF Contract!Next
<1>5. CASE UNCHANGED <<stage, applicable, remaining, current, responseVars>>
  BY <1>2, <1>5 DEF Stays, CallPhase, CallsMade, Sent, InTimeline, responseVars
<1> QED BY <1>3, <1>4, <1>5, Steps

(* No occurrence is open to begin with.                                    *)
LEMMA ContractInit == Init => Contract!Init
<1> SUFFICES ASSUME Init PROVE Contract!Init
  OBVIOUS
<1>1. ASSUME NEW r \in Request
      PROVE  CallPhase(r) = "none" /\ CallsMade(r) = {}
  BY DEF Init, DispatchInit, CallPhase, CallsMade, Sent
<1> QED BY <1>1 DEF Init, DispatchInit, Contract!Init

(* Opening an occurrence keeps the promise made to the control room: the   *)
(* calls owed are decided by one reading of the rules and never change,    *)
(* they are made one at a time, and the occurrence is announced only when  *)
(* none is missing, failures and restarts included.                        *)
THEOREM DispatchImplementsCallOut == Spec => ImplementsCallOut
BY CreationInvariantHolds, ContractInit, ContractStep, PTL
DEF Spec, ImplementsCallOut, Contract!Spec
-----------------------------------------------------------------------------
(* The safety half of CreationSettles: how far a creation has to go, by    *)
(* the statements ahead of the loop and the awaits left in it, two for     *)
(* each rule still to serve.                                               *)
Ahead(r) ==
  CASE stage[r] = "numbered" -> 4
    [] stage[r] = "inserted" -> 3
    [] stage[r] \in {"dispatching", "recording"} -> 2
    [] stage[r] = "dispatched" -> 1
    [] OTHER -> 0

Awaits(r) == 2 * Cardinality(remaining[r]) + (IF stage[r] = "dispatching" THEN 1 ELSE 0)

Nearer(r) ==
  \/ Ahead(r)' < Ahead(r)
  \/ Ahead(r)' = Ahead(r) /\ Awaits(r)' < Awaits(r)

(* A statement of its own takes a creation nearer to its answer or ends it *)
(* there; nothing another actor does sets it back.                         *)
CreationDescends ==
  [][\A r \in Request : InFlight(r) =>
       \/ ~ InFlight(r)'
       \/ Nearer(r)
       \/ ~ CreationStep(r) /\ UNCHANGED <<stage[r], remaining[r]>>]_vars

(* The measure is a pair of numbers, and in the loop there is a rule whose *)
(* event is to be written whenever that is the statement to come: the      *)
(* other statements wait for nothing but their stage.                      *)
DescentGrounded ==
  \A r \in Request : InFlight(r) =>
    /\ Ahead(r) \in Nat /\ Awaits(r) \in Nat
    /\ stage[r] = "recording" => current[r] # {}

(* A creation reads finitely many rules, for every rule has its number.    *)
LoopFinite ==
  \A r \in Request :
    /\ IsFiniteSet(applicable[r])
    /\ stage[r] = "recording" => current[r] # {}

LEMMA RulesFinite ==
  ASSUME TypeOK, RuleIdsFresh
  PROVE  IsFiniteSet(rules)
<1> DEFINE id == [x \in rules |-> x.id]
<1>1. ruleSeq \in Nat
  BY DEF TypeOK, RegistryTypeOK
<1>2. IsFiniteSet(1 .. ruleSeq)
  BY <1>1, FS_Interval
<1>3. id \in Injection(rules, 1 .. ruleSeq)
  BY DEF RuleIdsFresh, Injection, IsInjective
<1> QED BY <1>2, <1>3, FS_Injection DEF ExistsInjection

(* What a creation reads is some of the rules there are, and it goes from  *)
(* the insert of a notification to its event with the rule in hand.        *)
LEMMA LoopFiniteStep ==
  ASSUME CreationInvariant, LoopFinite, [Next]_vars
  PROVE  LoopFinite'
<1> SUFFICES ASSUME NEW r \in Request
             PROVE  /\ IsFiniteSet(applicable'[r])
                    /\ stage'[r] = "recording" => current'[r] # {}
  BY DEF LoopFinite
<1> USE DEF CreationInvariant
<1>0. /\ stage \in [Request -> Stage]
      /\ applicable \in [Request -> SUBSET Rule] /\ current \in [Request -> SUBSET Rule]
      /\ IsFiniteSet(applicable[r])
      /\ stage[r] = "recording" => current[r] # {}
  BY DEF TypeOK, LoopFinite
<1>1. CASE ReadRules(r)
  <2>1. applicable'[r] \in SUBSET rules /\ stage'[r] = "dispatching"
    BY <1>0, <1>1 DEF ReadRules, At
  <2> QED BY <2>1, RulesFinite, FS_Subset
<1>2. CASE CreateNotification(r)
  BY <1>0, <1>2 DEF CreateNotification, Refused, At
<1>3. CASE NextIncNumber(r) \/ InsertOccurrence(r) \/ CreationFail(r)
  BY <1>0, <1>3 DEF NextIncNumber, InsertOccurrence, CreationFail, At
<1>4. CASE RecordNotification(r)
  BY <1>0, <1>4 DEF RecordNotification, At
<1>5. CASE EndDispatch(r) \/ Announce(r) \/ AuditCreation(r)
  BY <1>0, <1>5 DEF EndDispatch, Announce, AuditCreation, At
<1>6. ASSUME Untouched(r)
      PROVE  /\ IsFiniteSet(applicable'[r])
             /\ stage'[r] = "recording" => current'[r] # {}
  BY <1>0, <1>6 DEF Untouched
<1>7. CASE Restart
  BY <1>0, <1>7 DEF Restart
<1>8. ASSUME UNCHANGED <<stage, applicable, remaining, current, responseVars>>
      PROVE  Untouched(r)
  BY <1>8 DEF Untouched, responseVars
<1> QED BY <1>1, <1>2, <1>3, <1>4, <1>5, <1>6, <1>7, <1>8, Steps, OthersUntouched DEF CreationStep

(* One statement of a creation in flight.                                  *)
LEMMA StatementDescends ==
  ASSUME CreationInvariant, LoopFinite, NEW r \in Request, InFlight(r), CreationStep(r)
  PROVE  ~ InFlight(r)' \/ Nearer(r)
<1> USE DEF InFlight
<1>0. /\ stage \in [Request -> Stage] /\ remaining \in [Request -> SUBSET Rule]
      /\ current[r] \subseteq remaining[r]
      /\ IsFiniteSet(remaining[r]) /\ Cardinality(remaining[r]) \in Nat
  <2>1. remaining[r] \in SUBSET applicable[r] /\ current[r] \subseteq remaining[r]
    BY DEF CreationInvariant, LoopInvariant, LoopOf
  <2>2. IsFiniteSet(remaining[r]) /\ Cardinality(remaining[r]) \in Nat
    BY <2>1, FS_Subset, FS_CardinalityType DEF LoopFinite
  <2> QED BY <2>1, <2>2 DEF CreationInvariant, TypeOK
<1>1. CASE InsertOccurrence(r) \/ ReadRules(r) \/ EndDispatch(r) \/ Announce(r) \/ AuditCreation(r)
  BY <1>0, <1>1 DEF InsertOccurrence, ReadRules, EndDispatch, Announce, AuditCreation, At,
                    Nearer, Ahead
<1>2. CASE CreateNotification(r)
  <2>1. stage[r] = "dispatching" /\ stage'[r] \in {"recording", "failed"} /\ remaining'[r] = remaining[r]
    BY <1>0, <1>2 DEF CreateNotification, Refused, At
  <2>2. CASE stage'[r] = "recording"
    <3>1. Ahead(r)' = Ahead(r) /\ Awaits(r) = Awaits(r)' + 1 /\ Awaits(r)' \in Int
      BY <1>0, <2>1, <2>2 DEF Ahead, Awaits
    <3> QED BY <3>1 DEF Nearer
  <2> QED BY <2>1, <2>2
<1>3. CASE RecordNotification(r)
  <2>1. PICK rule \in current[r] : remaining'[r] = remaining[r] \ {rule}
    BY <1>0, <1>3 DEF RecordNotification
  <2>2. stage[r] = "recording" /\ stage'[r] = "dispatching"
    BY <1>0, <1>3 DEF RecordNotification, At
  <2>3. Cardinality(remaining'[r]) = Cardinality(remaining[r]) - 1
    BY <1>0, <2>1, FS_RemoveElement
  <2>4. Ahead(r)' = Ahead(r) /\ Awaits(r) = Awaits(r)' + 1 /\ Awaits(r)' \in Int
    BY <1>0, <2>2, <2>3 DEF Ahead, Awaits
  <2> QED BY <2>4 DEF Nearer
<1> QED BY <1>1, <1>2, <1>3 DEF CreationStep

(* The loop invariant of the measure.                                      *)
LEMMA LoopFiniteHolds == Spec => []LoopFinite
<1>1. Init => LoopFinite
  BY FS_EmptySet DEF Init, DispatchInit, LoopFinite
<1>2. CreationInvariant /\ LoopFinite /\ [Next]_vars => LoopFinite'
  BY LoopFiniteStep
<1> QED BY <1>1, <1>2, CreationInvariantHolds, PTL DEF Spec

(* create: every statement a creation sends brings it nearer to its        *)
(* answer, however many rules apply and whatever administrators, other     *)
(* creations, the seed and restarts do: no creation goes round its loop    *)
(* for ever.  With the fairness of FairSpec it settles.                    *)
THEOREM DispatchCreationDescends == Spec => CreationDescends /\ []DescentGrounded
<1>1. ASSUME CreationInvariant, LoopFinite, [Next]_vars, NEW r \in Request, InFlight(r)
      PROVE  \/ ~ InFlight(r)'
             \/ Nearer(r)
             \/ ~ CreationStep(r) /\ UNCHANGED <<stage[r], remaining[r]>>
  <2>1. CASE CreationStep(r)
    BY <1>1, <2>1, StatementDescends
  <2>2. CASE NextIncNumber(r) \/ CreationFail(r)
    BY <1>1, <2>2 DEF NextIncNumber, CreationFail, At, InFlight, CreationInvariant, TypeOK
  <2>3. ASSUME NEW s \in Request, s # r,
               NextIncNumber(s) \/ CreationStep(s) \/ CreationFail(s)
        PROVE  UNCHANGED <<stage[r], remaining[r]>>
    BY <1>1, <2>3, OthersUntouched DEF CreationInvariant, Untouched
  <2>4. CASE Restart
    BY <2>4 DEF Restart, InFlight
  <2> QED BY <1>1, <2>1, <2>2, <2>3, <2>4, Steps
<1>2. CreationInvariant /\ LoopFinite /\ [Next]_vars =>
        [\A r \in Request : InFlight(r) =>
           \/ ~ InFlight(r)'
           \/ Nearer(r)
           \/ ~ CreationStep(r) /\ UNCHANGED <<stage[r], remaining[r]>>]_vars
  BY <1>1
<1>3. CreationInvariant /\ LoopFinite => DescentGrounded
  <2> SUFFICES ASSUME CreationInvariant, LoopFinite, NEW r \in Request
               PROVE  /\ Ahead(r) \in Nat /\ Awaits(r) \in Nat
                      /\ stage[r] = "recording" => current[r] # {}
    BY DEF DescentGrounded
  <2>1. Cardinality(remaining[r]) \in Nat
    <3>1. remaining[r] \in SUBSET applicable[r]
      BY DEF CreationInvariant, LoopInvariant, LoopOf
    <3> QED BY <3>1, FS_Subset, FS_CardinalityType DEF LoopFinite
  <2> QED BY <2>1 DEF LoopFinite, Ahead, Awaits
<1> QED BY <1>2, <1>3, CreationInvariantHolds, LoopFiniteHolds, PTL DEF Spec, CreationDescends
=============================================================================
