--------------------------- MODULE SituationRoomProofs ---------------------------
(***************************************************************************)
(* Proofs about SituationRoom, for any number of occurrences, plans and    *)
(* requests in flight, timelines and checklists of any length.             *)
(***************************************************************************)
EXTENDS SituationRoomCaseFile, FiniteSetTheorems, SequenceTheorems, WellFoundedInduction, TLAPS

(* A position is below the number of items created so far, so that the     *)
(* last position of a checklist is there to be read.                       *)
OrdersCounted ==
  /\ \A x \in items : x.order < itemSeq
  /\ \A h \in Handler : room[h].op = "item" => room[h].order <= itemSeq

(* An occurrence has rows only once it is opened, and requests only work   *)
(* on opened ones.                                                         *)
OpenedFirst ==
  /\ \A o \in Occurrence : ~ Opened(o) => timeline[o] = <<>> /\ ItemsOf(o) = {}
  /\ \A h \in Handler : room[h] # Idle => Opened(room[h].occ)

(* A status of an occurrence that its timeline tells of.                   *)
Told(o, s) == \E i \in StatusRows(o) : timeline[o][i].to = s

(* The rows whose previousStatus no earlier row gives.                     *)
Unexplained(o) ==
  {i \in StatusRows(o) :
     \A j \in StatusRows(o) : j < i => timeline[o][j].to # timeline[o][i].from}

(* One status, the one the occurrence was opened with, explains all that   *)
(* the timeline does not: in rows, in the column, in what requests read.   *)
StartsFrom(o, start) ==
  /\ \A i \in Unexplained(o) : timeline[o][i].from = start
  /\ Opened(o) => status[o] = start \/ Told(o, status[o])
  /\ \A h \in Handler : room[h].op = "status" /\ room[h].occ = o
                          => room[h].from = start \/ Told(o, room[h].from)
OneStart == \A o \in Occurrence : \E start \in Status : StartsFrom(o, start)

StatusInvariant == OpenedFirst /\ StatusFollowsTimeline /\ ResolvedAtAccounted /\ OneStart

(* The plan steps of a checklist, in a form that needs no counting.        *)
StepsOf(o) == {x \in ItemsOf(o) : x.from # NoPlan}
Numbered(o) ==
  /\ \E n \in Nat : {x.order : x \in StepsOf(o)} = 0 .. (n - 1)
  /\ \A x, y \in StepsOf(o) : x.order = y.order => x = y
LastPlan(o) ==
  \A x \in StepsOf(o) : \E i \in PlanRows(o) :
    /\ \A j \in PlanRows(o) : j <= i
    /\ timeline[o][i].plan = x.from
ChecklistInvariant == \A o \in Occurrence : Numbered(o) /\ LastPlan(o)

-----------------------------------------------------------------------------
(* Events and their fields.                                                *)
LEMMA EventFacts ==
  /\ Opening \in Event /\ Opening.event = "opening"
  /\ \A t \in EventType : PostedEvent(t) \in Event
  /\ \A t : PostedEvent(t).event = "posted" /\ PostedEvent(t).type = t
  /\ \A p \in Plan : PlanEvent(p) \in Event
  /\ \A p : PlanEvent(p).event = "plan" /\ PlanEvent(p).plan = p
  /\ \A s, t \in Status : StatusEvent(s, t) \in Event
  /\ \A s, t : /\ StatusEvent(s, t).event = "status"
               /\ StatusEvent(s, t).from = s /\ StatusEvent(s, t).to = t
               /\ StatusEvent(s, t).type = StatusType(t)
<1>1. /\ Opening \in Event
      /\ \A t \in EventType : PostedEvent(t) \in Event
      /\ \A p \in Plan : PlanEvent(p) \in Event
      /\ \A s, t \in Status : StatusEvent(s, t) \in Event
  BY DEF Event
<1>2. /\ Opening.event = "opening"
      /\ \A t : PostedEvent(t).event = "posted" /\ PostedEvent(t).type = t
      /\ \A p : PlanEvent(p).event = "plan" /\ PlanEvent(p).plan = p
  BY DEF Opening, PostedEvent, PlanEvent
<1>3. \A s, t : /\ StatusEvent(s, t).event = "status"
               /\ StatusEvent(s, t).from = s /\ StatusEvent(s, t).to = t
               /\ StatusEvent(s, t).type = StatusType(t)
  BY DEF StatusEvent
<1> QED BY <1>1, <1>2, <1>3

(* An event is of one of the four kinds.                                   *)
LEMMA EventKinds ==
  ASSUME NEW e \in Event
  PROVE  e.event \in {"opening", "status", "plan", "posted"}
<1>1. \/ e = Opening
      \/ \E from, to \in Status : e = StatusEvent(from, to)
      \/ \E p \in Plan : e = PlanEvent(p)
      \/ \E t \in EventType : e = PostedEvent(t)
  BY DEF Event
<1>2. /\ Opening.event = "opening"
      /\ \A t : PostedEvent(t).event = "posted"
      /\ \A p : PlanEvent(p).event = "plan"
      /\ \A s, t : StatusEvent(s, t).event = "status"
  BY EventFacts, Zenon
<1> QED BY <1>1, <1>2, Zenon

(* The local states a request passes through are states of HandlerState.   *)
LEMMA HandlerStates ==
  /\ Idle \in HandlerState
  /\ \A o \in Occurrence, s, t \in Status :
       /\ [op |-> "status", occ |-> o, from |-> s, to |-> t] \in HandlerState
       /\ [op |-> "announce", occ |-> o, to |-> t] \in HandlerState
  /\ \A o \in Occurrence, p \in Plan, n \in Nat :
       [op |-> "plan", occ |-> o, plan |-> p, steps |-> n] \in HandlerState
  /\ \A o \in Occurrence, n \in Nat : [op |-> "item", occ |-> o, order |-> n] \in HandlerState
  /\ \A o \in Occurrence, n \in Nat, d \in BOOLEAN :
       [op |-> "tick", occ |-> o, id |-> n, done |-> d] \in HandlerState
BY DEF HandlerState, Idle

(* What is known of a request's local state from the step it is to take.   *)
LEMMA StateFields ==
  ASSUME NEW q \in HandlerState
  PROVE  /\ q.op \in {"idle", "status", "announce", "plan", "item", "tick"}
         /\ q.op = "idle" <=> q = Idle
         /\ q # Idle => q.occ \in Occurrence
         /\ q.op = "status" => q.from \in Status /\ q.to \in Status
         /\ q.op = "announce" => q.to \in Status
         /\ q.op = "plan" => q.plan \in Plan /\ q.steps \in Nat
         /\ q.op = "item" => q.order \in Nat
         /\ q.op = "tick" => q.id \in Nat /\ q.done \in BOOLEAN
BY DEF HandlerState, Idle

(* A request's new local state keeps every request well typed.             *)
LEMMA BecomeTyped ==
  ASSUME room \in [Handler -> HandlerState], NEW h \in Handler, NEW s \in HandlerState,
         Become(h, s)
  PROVE  room' \in [Handler -> HandlerState]
BY DEF Become

(* One more event makes a timeline.                                        *)
LEMMA ExtendedTyped ==
  ASSUME timeline \in [Occurrence -> Seq(Event)], NEW o \in Occurrence, NEW e \in Event
  PROVE  [timeline EXCEPT ![o] = Extended(o, e)] \in [Occurrence -> Seq(Event)]
<1>1. Extended(o, e) \in Seq(Event)
  BY DEF Extended
<1> QED BY <1>1

(* A set of numbers that is not empty has a least one; with a bound, it    *)
(* has a greatest one.                                                     *)
LEMMA LeastNumber ==
  ASSUME NEW S \in SUBSET Nat, S # {}
  PROVE  \E x \in S : \A y \in S : x <= y
<1> DEFINE R == OpToRel(<, Nat)
<1>1. IsWellFoundedOn(R, Nat)
  BY NatLessThanWellFounded
<1>2. \A x, y \in Nat : <<x, y>> \in R <=> x < y
  BY DEF OpToRel
<1> HIDE DEF R
<1>3. \E x \in S : \A y \in S : ~ (<<y, x>> \in R)
  BY <1>1, WFMin
<1>4. \E x \in S : \A y \in S : ~ (y < x)
  BY <1>2, <1>3, Zenon
<1> QED BY <1>4

(* A set of numbers that has a bound has a greatest one.                   *)
LEMMA GreatestNumber ==
  ASSUME NEW S \in SUBSET Nat, S # {}, NEW b \in Nat, \A x \in S : x <= b
  PROVE  \E x \in S : \A y \in S : y <= x
<1> DEFINE T == {b - x : x \in S}
<1>1. T \subseteq Nat /\ T # {}
  <2>1. PICK x \in S : TRUE
    OBVIOUS
  <2>2. b - x \in T
    BY <2>1, Zenon
  <2> QED BY <2>2
<1>2. PICK m \in T : \A y \in T : m <= y
  BY <1>1, LeastNumber
<1>3. PICK x \in S : m = b - x
  OBVIOUS
<1>4. \A y \in S : y <= x
  BY <1>2, <1>3
<1> QED BY <1>4

(* The position a new item is given is the number after the last one.      *)
LEMMA NextOrder ==
  ASSUME TypeOK, OrdersCounted, NEW o, ItemsOf(o) # {}
  PROVE  LET last == CHOOSE n \in {x.order : x \in ItemsOf(o)} : \A x \in ItemsOf(o) : x.order <= n
         IN  last \in Nat /\ last < itemSeq /\ \A x \in ItemsOf(o) : x.order <= last
<1> DEFINE S == {x.order : x \in ItemsOf(o)}
<1>1. \A x \in ItemsOf(o) : x.order \in Nat /\ x.order < itemSeq
  BY DEF TypeOK, OrdersCounted, ItemsOf, Item
<1>2. S \in SUBSET Nat /\ S # {} /\ \A n \in S : n < itemSeq
  <2>1. PICK x \in ItemsOf(o) : TRUE
    OBVIOUS
  <2>2. x.order \in S
    BY <2>1, Zenon
  <2> QED BY <1>1, <2>2
<1>3. itemSeq \in Nat /\ \A n \in S : n <= itemSeq
  <2>1. itemSeq \in Nat
    BY DEF TypeOK
  <2> HIDE DEF S
  <2> QED BY <1>2, <2>1
<1>4. \E n \in S : \A m \in S : m <= n
  <2> HIDE DEF S
  <2> QED BY <1>2, <1>3, GreatestNumber
<1>5. \A x \in ItemsOf(o) : x.order \in S
  BY Zenon
<1>6. \E n \in S : \A x \in ItemsOf(o) : x.order <= n
  BY <1>4, <1>5, Zenon
<1> DEFINE last == CHOOSE n \in S : \A x \in ItemsOf(o) : x.order <= n
<1>7. last \in S /\ \A x \in ItemsOf(o) : x.order <= last
  BY <1>6, Zenon
<1> QED BY <1>2, <1>7

-----------------------------------------------------------------------------
(* Nothing has happened to any occurrence before the first request.        *)
LEMMA InitTyped == Init => TypeOK /\ OrdersCounted
<1> SUFFICES ASSUME Init
             PROVE  TypeOK /\ OrdersCounted
  OBVIOUS
<1>1. room \in [Handler -> HandlerState]
  BY HandlerStates DEF Init
<1>2. timeline \in [Occurrence -> Seq(Event)] /\ statusNews \in [Occurrence -> Seq(Status)]
  BY DEF Init
<1>3. \A h \in Handler : room[h].op = "idle"
  BY DEF Init, Idle
<1> QED BY <1>1, <1>2, <1>3 DEF Init, TypeOK, OrdersCounted

(* Every operation on an occurrence and every read keeps the tables and    *)
(* the requests well typed.                                                *)
LEMMA StepTyped ==
  ASSUME TypeOK, OrdersCounted, Next
  PROVE  TypeOK' /\ OrdersCounted'
<1> DEFINE Good == TypeOK' /\ OrdersCounted'
<1>0. /\ room \in [Handler -> HandlerState] /\ timeline \in [Occurrence -> Seq(Event)]
      /\ itemSeq \in Nat /\ items \subseteq Item
  BY DEF TypeOK
<1> USE DEF occurrenceVars, checklistVars
<1>1. ASSUME NEW h \in Handler, NEW s \in HandlerState, Become(h, s),
             s.op = "item" => s.order <= itemSeq,
             UNCHANGED <<occurrenceVars, checklistVars, plans, statusNews>>
      PROVE  Good
  <2>1. room' \in [Handler -> HandlerState]
    BY <1>0, <1>1, BecomeTyped
  <2>2. \A g \in Handler : room'[g].op = "item" => room'[g].order <= itemSeq
    BY <1>0, <1>1 DEF Become, OrdersCounted
  <2> QED BY <1>1, <2>1, <2>2 DEF TypeOK, OrdersCounted
<1>2. ASSUME NEW o \in Occurrence, NEW s \in OpenedAs, Open(o, s)
      PROVE  Good
  <2>1. timeline' \in [Occurrence -> Seq(Event)]
    BY <1>0, <1>2, EventFacts DEF Open
  <2>2. status' \in [Occurrence -> Status \cup {"unopened"}]
    BY <1>2, RoomAssumption DEF Open, TypeOK
  <2> QED BY <1>2, <2>1, <2>2 DEF Open, TypeOK, OrdersCounted
<1>3. ASSUME NEW o \in Occurrence, NEW t \in TypesPosted, AddTimelineEvent(o, t)
      PROVE  Good
  <2>1. timeline' \in [Occurrence -> Seq(Event)]
    <3>1. PostedEvent(t) \in Event
      BY EventFacts, RoomAssumption
    <3> QED BY <1>0, <1>3, <3>1, ExtendedTyped DEF AddTimelineEvent
  <2> QED BY <1>3, <2>1 DEF AddTimelineEvent, TypeOK, OrdersCounted
<1>4. ASSUME NEW o \in Occurrence, Remove(o)
      PROVE  Good
  BY <1>4 DEF Remove, TypeOK, OrdersCounted
<1>5. ASSUME NEW h \in Handler, NEW o \in Occurrence, NEW s \in StatusAsked, ReadStatus(h, o, s)
      PROVE  Good
  <2> DEFINE q == [op |-> "status", occ |-> o, from |-> status[o], to |-> s]
  <2>1. status[o] \in Status /\ s \in Status
    BY <1>5, RoomAssumption DEF ReadStatus, Opened, TypeOK
  <2>2. q \in HandlerState /\ q.op # "item"
    BY <2>1, HandlerStates
  <2>3. Become(h, q) /\ UNCHANGED <<occurrenceVars, checklistVars, plans, statusNews>>
    BY <1>5 DEF ReadStatus
  <2> HIDE DEF q, Good
  <2> QED BY <1>1, <2>2, <2>3
<1>6. ASSUME NEW h \in Handler, NEW o \in Occurrence, NEW p \in Plan, ReadPlan(h, o, p)
      PROVE  Good
  <2> DEFINE q == [op |-> "plan", occ |-> o, plan |-> p, steps |-> plans[p].steps]
  <2>1. plans[p].steps \in Nat
    BY DEF TypeOK
  <2>2. q \in HandlerState /\ q.op # "item"
    BY <2>1, HandlerStates
  <2>3. Become(h, q) /\ UNCHANGED <<occurrenceVars, checklistVars, plans, statusNews>>
    BY <1>6 DEF ReadPlan
  <2> HIDE DEF q, Good
  <2> QED BY <1>1, <2>2, <2>3
<1>7. ASSUME NEW h \in Handler, NEW o \in Occurrence, ReadLastOrder(h, o)
      PROVE  Good
  <2> DEFINE last == CHOOSE n \in {x.order : x \in ItemsOf(o)} : \A x \in ItemsOf(o) : x.order <= n
             order == IF ItemsOf(o) = {} THEN 0 ELSE 1 + last
             q == [op |-> "item", occ |-> o, order |-> order]
  <2>1. order \in Nat /\ order <= itemSeq
    <3>1. CASE ItemsOf(o) = {}
      BY <1>0, <3>1
    <3>2. CASE ItemsOf(o) # {}
      <4>1. last \in Nat /\ last < itemSeq
        BY <3>2, NextOrder
      <4> HIDE DEF last
      <4> QED BY <1>0, <3>2, <4>1
    <3> QED BY <3>1, <3>2
  <2>2. Become(h, q) /\ UNCHANGED <<occurrenceVars, checklistVars, plans, statusNews>>
    BY <1>7 DEF ReadLastOrder
  <2> HIDE DEF order
  <2>3. q \in HandlerState /\ q.order <= itemSeq
    BY <2>1, HandlerStates
  <2> HIDE DEF q, Good
  <2> QED BY <1>1, <2>2, <2>3
<1>8. ASSUME NEW h \in Handler, NEW x \in items, NEW d \in BOOLEAN, ReadItem(h, x, d)
      PROVE  Good
  <2> DEFINE q == [op |-> "tick", occ |-> x.occ, id |-> x.id, done |-> d]
  <2>1. x.occ \in Occurrence /\ x.id \in Nat
    BY DEF TypeOK, Item
  <2>2. q \in HandlerState /\ q.op # "item"
    BY <2>1, HandlerStates
  <2>3. Become(h, q) /\ UNCHANGED <<occurrenceVars, checklistVars, plans, statusNews>>
    BY <1>8 DEF ReadItem
  <2> HIDE DEF q, Good
  <2> QED BY <1>1, <2>2, <2>3
<1>9. ASSUME NEW h \in Handler, WriteStatus(h)
      PROVE  Good
  <2> DEFINE q == room[h]
             s == [op |-> "announce", occ |-> q.occ, to |-> q.to]
  <2>1. q.op = "status" /\ q # Idle
    BY <1>9 DEF WriteStatus, Idle
  <2>2. q.occ \in Occurrence /\ q.from \in Status /\ q.to \in Status
    BY <1>0, <2>1, StateFields
  <2>3. s \in HandlerState /\ s.op # "item"
    BY <2>2, HandlerStates
  <2>4. /\ Become(h, s)
        /\ status' = [status EXCEPT ![q.occ] = q.to]
        /\ resolvedAt' = [resolvedAt EXCEPT ![q.occ] = ResolvedNow(q.occ, q.to)]
        /\ timeline' = [timeline EXCEPT ![q.occ] = Extended(q.occ, StatusEvent(q.from, q.to))]
        /\ UNCHANGED <<active, checklistVars, plans, statusNews>>
    BY <1>9 DEF WriteStatus, NewStatus, StatusRow
  <2>5. StatusEvent(q.from, q.to) \in Event
    BY <2>2, EventFacts
  <2>6. ResolvedNow(q.occ, q.to) \in BOOLEAN
    BY <2>2 DEF ResolvedNow, TypeOK
  <2> HIDE DEF q, s
  <2>7. timeline' \in [Occurrence -> Seq(Event)]
    BY <1>0, <2>2, <2>4, <2>5, ExtendedTyped
  <2>8. room' \in [Handler -> HandlerState]
    BY <1>0, <2>3, <2>4, BecomeTyped
  <2>9. \A g \in Handler : room'[g].op = "item" => room'[g].order <= itemSeq
    BY <1>0, <2>3, <2>4 DEF Become, OrdersCounted
  <2> QED BY <2>2, <2>4, <2>6, <2>7, <2>8, <2>9 DEF TypeOK, OrdersCounted
<1>10. ASSUME NEW h \in Handler, AnnounceStatus(h)
       PROVE  Good
  <2> DEFINE q == room[h]
  <2>1. q.op = "announce" /\ q # Idle
    BY <1>10 DEF AnnounceStatus, Idle
  <2>2. q.occ \in Occurrence /\ q.to \in Status
    BY <1>0, <2>1, StateFields
  <2>3. /\ Become(h, Idle)
        /\ statusNews' = [statusNews EXCEPT ![q.occ] = Append(statusNews[q.occ], q.to)]
        /\ UNCHANGED <<occurrenceVars, checklistVars, plans>>
    BY <1>10 DEF AnnounceStatus, NewsOf
  <2> HIDE DEF q
  <2>4. statusNews' \in [Occurrence -> Seq(Status)]
    <3>1. Append(statusNews[q.occ], q.to) \in Seq(Status)
      BY <2>2 DEF TypeOK
    <3> QED BY <2>3, <3>1 DEF TypeOK
  <2>5. room' \in [Handler -> HandlerState]
    BY <1>0, <2>3, HandlerStates, BecomeTyped
  <2>6. \A g \in Handler : room'[g].op = "item" => room'[g].order <= itemSeq
    BY <1>0, <2>3 DEF Become, OrdersCounted, Idle
  <2> QED BY <2>3, <2>4, <2>5, <2>6 DEF TypeOK, OrdersCounted
<1>11. ASSUME NEW h \in Handler, ActivatePlan(h)
       PROVE  Good
  <2> DEFINE q == room[h]
  <2>1. q.op = "plan" /\ q # Idle
    BY <1>11 DEF ActivatePlan, Idle
  <2>2. q.occ \in Occurrence /\ q.plan \in Plan /\ q.steps \in Nat
    BY <1>0, <2>1, StateFields
  <2>3. /\ Become(h, Idle)
        /\ items' = ItemsElsewhere(q.occ) \cup PlanItems(q.occ, q.plan, q.steps)
        /\ itemSeq' = itemSeq + q.steps
        /\ timeline' = [timeline EXCEPT ![q.occ] = Extended(q.occ, PlanEvent(q.plan))]
        /\ UNCHANGED <<status, resolvedAt, active, plans, statusNews>>
    BY <1>11 DEF ActivatePlan
  <2>4. timeline' \in [Occurrence -> Seq(Event)]
    BY <1>0, <2>2, <2>3, EventFacts, ExtendedTyped
  <2>5. room' \in [Handler -> HandlerState]
    BY <1>0, <2>3, HandlerStates, BecomeTyped
  <2>6. itemSeq' \in Nat /\ itemSeq <= itemSeq'
    BY <1>0, <2>2, <2>3
  <2>7. \A g \in Handler : room'[g].op = "item" => room'[g].order <= itemSeq'
    <3> SUFFICES ASSUME NEW g \in Handler, room'[g].op = "item"
                 PROVE  room'[g].order <= itemSeq'
      OBVIOUS
    <3>1. room'[g] = room[g]
      BY <1>0, <2>3 DEF Become, Idle
    <3>2. room[g].order \in Nat /\ room[g].order <= itemSeq
      BY <1>0, <3>1, StateFields DEF OrdersCounted
    <3> QED BY <1>0, <2>6, <3>1, <3>2
  <2>8. ASSUME NEW x \in PlanItems(q.occ, q.plan, q.steps)
        PROVE  x \in Item /\ x.order < itemSeq'
    <3>1. PICK i \in 0 .. (q.steps - 1) :
            x = [id |-> itemSeq + i + 1, occ |-> q.occ, order |-> i, from |-> q.plan, done |-> FALSE]
      BY <2>8, Zenon DEF PlanItems
    <3>2. i \in Nat /\ itemSeq + i + 1 \in Nat /\ i < itemSeq'
      BY <1>0, <2>2, <2>3
    <3> QED BY <2>2, <3>1, <3>2 DEF Item
  <2> HIDE DEF q
  <2>9. ASSUME NEW x \in ItemsElsewhere(q.occ)
        PROVE  x \in Item /\ x.order < itemSeq'
    <3>1. x \in items /\ x.order \in Nat /\ x.order < itemSeq
      BY <1>0, <2>9 DEF ItemsElsewhere, OrdersCounted, Item
    <3> QED BY <1>0, <2>6, <3>1
  <2>10. \A x \in items' : x \in Item /\ x.order < itemSeq'
    BY <2>3, <2>8, <2>9
  <2> QED BY <2>3, <2>4, <2>5, <2>6, <2>7, <2>10 DEF TypeOK, OrdersCounted
<1>12. ASSUME NEW h \in Handler, InsertItem(h)
       PROVE  Good
  <2> DEFINE q == room[h]
             x == [id |-> itemSeq', occ |-> q.occ, order |-> q.order, from |-> NoPlan,
                   done |-> FALSE]
  <2>1. q.op = "item" /\ q # Idle
    BY <1>12 DEF InsertItem, Idle
  <2>2. q.occ \in Occurrence /\ q.order \in Nat /\ q.order <= itemSeq
    BY <1>0, <2>1, StateFields DEF OrdersCounted
  <2>3. /\ Become(h, Idle)
        /\ items' = items \cup {x}
        /\ itemSeq' = itemSeq + 1
        /\ UNCHANGED <<occurrenceVars, plans, statusNews>>
    BY <1>12 DEF InsertItem
  <2>4. itemSeq' \in Nat /\ x \in Item /\ x.order < itemSeq'
    BY <1>0, <2>2, <2>3 DEF Item
  <2> HIDE DEF q, x
  <2>5. room' \in [Handler -> HandlerState]
    BY <1>0, <2>3, HandlerStates, BecomeTyped
  <2>6. \A g \in Handler : room'[g].op = "item" => room'[g].order <= itemSeq'
    <3> SUFFICES ASSUME NEW g \in Handler, room'[g].op = "item"
                 PROVE  room'[g].order <= itemSeq'
      OBVIOUS
    <3>1. room'[g] = room[g]
      BY <1>0, <2>3 DEF Become, Idle
    <3>2. room[g].order \in Nat /\ room[g].order <= itemSeq
      BY <1>0, <3>1, StateFields DEF OrdersCounted
    <3> QED BY <1>0, <2>3, <3>1, <3>2
  <2>7. \A y \in items : y \in Item /\ y.order < itemSeq'
    <3>1. \A y \in items : y.order \in Nat /\ y.order < itemSeq /\ y \in Item
      BY <1>0 DEF OrdersCounted, Item
    <3> QED BY <1>0, <2>3, <3>1
  <2> QED BY <2>3, <2>4, <2>5, <2>6, <2>7 DEF TypeOK, OrdersCounted
<1>13. ASSUME NEW h \in Handler, TickItem(h)
       PROVE  Good
  <2> DEFINE q == room[h]
  <2>1. q.op = "tick"
    BY <1>13 DEF TickItem
  <2>2. q.done \in BOOLEAN
    BY <1>0, <2>1, StateFields
  <2>3. /\ Become(h, Idle) /\ items' = Ticked(q)
        /\ UNCHANGED <<occurrenceVars, itemSeq, plans, statusNews>>
    BY <1>13 DEF TickItem
  <2> HIDE DEF q
  <2>4. ASSUME NEW x \in Ticked(q)
        PROVE  x \in Item /\ x.order < itemSeq
    <3>1. PICK y \in items : x = IF y.id = q.id THEN [y EXCEPT !.done = q.done] ELSE y
      BY <2>4, Zenon DEF Ticked
    <3>2. y \in Item /\ y.order < itemSeq
      BY <1>0 DEF OrdersCounted
    <3>3. [y EXCEPT !.done = q.done] \in Item /\ [y EXCEPT !.done = q.done].order = y.order
      BY <2>2, <3>2 DEF Item
    <3> QED BY <3>1, <3>2, <3>3
  <2>5. room' \in [Handler -> HandlerState]
    BY <1>0, <2>3, HandlerStates, BecomeTyped
  <2>6. \A g \in Handler : room'[g].op = "item" => room'[g].order <= itemSeq
    BY <1>0, <2>3 DEF Become, OrdersCounted, Idle
  <2> QED BY <2>3, <2>4, <2>5, <2>6 DEF TypeOK, OrdersCounted
<1>14. ASSUME NEW S, Drop(S)
       PROVE  Good
  <2>1. room' = [h \in Handler |-> IF h \in S THEN Idle ELSE room[h]]
    BY <1>14 DEF Drop
  <2>2. room' \in [Handler -> HandlerState]
    BY <1>0, <2>1, HandlerStates
  <2>3. \A g \in Handler : room'[g].op = "item" => room'[g].order <= itemSeq
    BY <2>1 DEF OrdersCounted, Idle
  <2> QED BY <1>14, <2>2, <2>3 DEF Drop, TypeOK, OrdersCounted
<1>15. ASSUME NEW p \in Plan, NEW s \in PlanStatusAsked, NEW n \in StepCounts,
              CreatePlan(p, s, n) \/ UpdatePlan(p, s, n)
       PROVE  Good
  <2>1. [status |-> s, steps |-> n] \in [status : PlanStatus \cup {"none", "removed"}, steps : Nat]
    BY RoomAssumption
  <2>2. plans' = [plans EXCEPT ![p] = [status |-> s, steps |-> n]]
    BY <1>15 DEF CreatePlan, UpdatePlan
  <2>3. plans' \in [Plan -> [status : PlanStatus \cup {"none", "removed"}, steps : Nat]]
    BY <2>1, <2>2 DEF TypeOK
  <2> QED BY <1>15, <2>3 DEF CreatePlan, UpdatePlan, TypeOK, OrdersCounted
<1>16. ASSUME NEW p \in Plan, RemovePlan(p)
       PROVE  Good
  BY <1>16 DEF RemovePlan, TypeOK, OrdersCounted
<1> HIDE DEF Good, occurrenceVars, checklistVars
<1>17. Good
  BY <1>2, <1>3, <1>4, <1>5, <1>6, <1>7, <1>8, <1>9, <1>10, <1>11, <1>12, <1>13, <1>14, <1>15,
     <1>16, Zenon DEF Next, RoomStep
<1> QED BY <1>17 DEF Good

(* Every row, message and request is of its type; a checklist always has a *)
(* last position to be read, however items are added and replaced.         *)
LEMMA TypedAndCounted == Spec => [](TypeOK /\ OrdersCounted)
<1>1. TypeOK /\ OrdersCounted /\ UNCHANGED roomVars => TypeOK' /\ OrdersCounted'
  BY DEF roomVars, occurrenceVars, checklistVars, TypeOK, OrdersCounted
<1> QED BY <1>1, InitTyped, StepTyped, PTL DEF Spec

(* Types: every row, message and request is of the kind its table holds.   *)
THEOREM RoomTyped == Spec => []TypeOK
BY TypedAndCounted, PTL

-----------------------------------------------------------------------------
(* The rows of one kind in a timeline, and what an event more does to them.*)
Rows(t, kind) == {i \in DOMAIN t : t[i].event = kind}

(* The model's status rows and plan rows are rows of a kind.               *)
LEMMA RowsOfKind ==
  ASSUME NEW o \in Occurrence
  PROVE  StatusRows(o) = Rows(timeline[o], "status") /\ PlanRows(o) = Rows(timeline[o], "plan")
BY Zenon DEF StatusRows, PlanRows, Rows

(* An appended event comes after all that were there.                      *)
LEMMA AppendDomain ==
  ASSUME NEW t \in Seq(Event), NEW e \in Event
  PROVE  /\ Len(t) + 1 \in Nat /\ Len(t) + 1 \notin DOMAIN t
         /\ DOMAIN Append(t, e) = DOMAIN t \cup {Len(t) + 1}
         /\ Append(t, e)[Len(t) + 1] = e
         /\ \A i \in DOMAIN t : i \in Nat /\ i < Len(t) + 1 /\ Append(t, e)[i] = t[i]
<1>1. /\ Len(t) \in Nat /\ DOMAIN t = 1 .. Len(t)
      /\ DOMAIN Append(t, e) = 1 .. (Len(t) + 1) /\ Append(t, e)[Len(t) + 1] = e
      /\ \A i \in 1 .. Len(t) : Append(t, e)[i] = t[i]
  OBVIOUS
<1>2. \A i \in 1 .. Len(t) : i < Len(t) + 1 /\ i \in Nat
  BY <1>1
<1>3. 1 .. (Len(t) + 1) = (1 .. Len(t)) \cup {Len(t) + 1} /\ Len(t) + 1 \notin 1 .. Len(t)
  BY <1>1
<1> QED BY <1>1, <1>2, <1>3

(* Rows are positions.                                                     *)
LEMMA RowsNumbered ==
  ASSUME NEW t \in Seq(Event), NEW kind
  PROVE  Rows(t, kind) \subseteq Nat
BY DEF Rows

(* An appended event is a row of its kind, and of no other.                *)
LEMMA RowsOfAppend ==
  ASSUME NEW t \in Seq(Event), NEW e \in Event, NEW kind
  PROVE  /\ e.event # kind => Rows(Append(t, e), kind) = Rows(t, kind)
         /\ e.event = kind => Rows(Append(t, e), kind) = Rows(t, kind) \cup {Len(t) + 1}
         /\ \A i \in Rows(t, kind) : i < Len(t) + 1 /\ Append(t, e)[i] = t[i]
<1> DEFINE u == Append(t, e)
           n == Len(t) + 1
<1>0. /\ DOMAIN u = DOMAIN t \cup {n} /\ n \notin DOMAIN t /\ u[n] = e
      /\ \A i \in DOMAIN t : i < n /\ u[i] = t[i]
  BY AppendDomain
<1> HIDE DEF u, n
<1>1. \A i : i \in Rows(t, kind) <=> i \in DOMAIN t /\ t[i].event = kind
  BY Zenon DEF Rows
<1>2. \A i : i \in Rows(u, kind) <=> i \in DOMAIN u /\ u[i].event = kind
  BY Zenon DEF Rows
<1>3. \A i \in DOMAIN t : i \in Rows(u, kind) <=> i \in Rows(t, kind)
  BY <1>0, <1>1, <1>2, Zenon
<1>4. n \in Rows(u, kind) <=> e.event = kind
  BY <1>0, <1>2, Zenon
<1>5. \A i : i \in Rows(u, kind) => i \in DOMAIN t \/ i = n
  BY <1>0, <1>2, Zenon
<1>6. \A i \in Rows(t, kind) : i < n /\ u[i] = t[i]
  BY <1>0, <1>1, Zenon
<1>7. \A i \in Rows(t, kind) : i \in DOMAIN t
  BY <1>1, Zenon
<1>8. e.event # kind => Rows(u, kind) = Rows(t, kind)
  <2>1. e.event # kind => \A i : i \in Rows(u, kind) <=> i \in Rows(t, kind)
    BY <1>3, <1>4, <1>5, <1>7, Zenon
  <2> QED BY <2>1
<1>9. e.event = kind => Rows(u, kind) = Rows(t, kind) \cup {n}
  <2>1. e.event = kind => \A i : i \in Rows(u, kind) <=> i \in Rows(t, kind) \/ i = n
    BY <1>3, <1>4, <1>5, <1>7, Zenon
  <2> QED BY <2>1
<1> QED BY <1>6, <1>8, <1>9, Zenon DEF u, n

(* The steps that write rows into the timeline of an occurrence.           *)
Untouched(o) ==
  /\ timeline'[o] = timeline[o]
  /\ status'[o] = status[o]
  /\ resolvedAt'[o] = resolvedAt[o]

Noted(o, e) ==
  /\ timeline'[o] = Append(timeline[o], e)
  /\ status'[o] = status[o]
  /\ resolvedAt'[o] = resolvedAt[o]

StatusWritten(o, q) ==
  /\ q.op = "status" /\ q.occ = o
  /\ status'[o] = q.to
  /\ resolvedAt'[o] = (resolvedAt[o] \/ q.to = "resolvido")
  /\ timeline'[o] = Append(timeline[o], StatusEvent(q.from, q.to))

(* An occurrence is left alone, opened, given a note or a plan, or its     *)
(* status is written by a request that read it before.                     *)
LEMMA RoomSteps ==
  ASSUME TypeOK, Next, NEW o \in Occurrence
  PROVE  \/ Untouched(o)
         \/ \E s \in OpenedAs : Open(o, s)
         \/ \E t \in EventType : Opened(o) /\ Noted(o, PostedEvent(t))
         \/ \E h \in Handler : ActivatePlan(h) /\ room[h].occ = o /\ Noted(o, PlanEvent(room[h].plan))
         \/ \E h \in Handler : WriteStatus(h) /\ StatusWritten(o, room[h])
<1>0. /\ status \in [Occurrence -> Status \cup {"unopened"}]
      /\ resolvedAt \in [Occurrence -> BOOLEAN]
      /\ timeline \in [Occurrence -> Seq(Event)]
  BY DEF TypeOK
<1>1. ASSUME UNCHANGED <<status, resolvedAt, timeline>>
      PROVE  Untouched(o)
  BY <1>1 DEF Untouched
<1>2. ASSUME NEW x \in Occurrence, NEW s \in OpenedAs, Open(x, s)
      PROVE  Untouched(o) \/ Open(o, s)
  BY <1>0, <1>2 DEF Open, Untouched
<1>3. ASSUME NEW x \in Occurrence, NEW t \in TypesPosted, AddTimelineEvent(x, t)
      PROVE  Untouched(o) \/ \E u \in EventType : Opened(o) /\ Noted(o, PostedEvent(u))
  <2>1. t \in EventType
    BY RoomAssumption
  <2>2. Untouched(o) \/ (Opened(o) /\ Noted(o, PostedEvent(t)))
    BY <1>0, <1>3 DEF AddTimelineEvent, Extended, Untouched, Noted
  <2> QED BY <2>1, <2>2
<1>4. ASSUME NEW h \in Handler, ActivatePlan(h)
      PROVE  \/ Untouched(o)
             \/ room[h].occ = o /\ Noted(o, PlanEvent(room[h].plan))
  BY <1>0, <1>4 DEF ActivatePlan, Extended, Untouched, Noted
<1>5. ASSUME NEW h \in Handler, WriteStatus(h)
      PROVE  Untouched(o) \/ StatusWritten(o, room[h])
  BY <1>0, <1>5
     DEF WriteStatus, Extended, NewStatus, ResolvedNow, StatusRow, Untouched, StatusWritten
<1>6. ASSUME NEW h \in Handler,
             \/ \E x \in Occurrence, s \in StatusAsked : ReadStatus(h, x, s)
             \/ \E x \in Occurrence, p \in Plan : ReadPlan(h, x, p)
             \/ \E x \in Occurrence : ReadLastOrder(h, x)
             \/ \E x \in items, d \in BOOLEAN : ReadItem(h, x, d)
             \/ AnnounceStatus(h) \/ InsertItem(h) \/ TickItem(h)
      PROVE  Untouched(o)
  BY <1>1, <1>6, Zenon DEF ReadStatus, ReadPlan, ReadLastOrder, ReadItem, AnnounceStatus,
       InsertItem, TickItem, occurrenceVars
<1>7. \A S : Drop(S) => Untouched(o)
  BY <1>1, Zenon DEF Drop, occurrenceVars
<1>8. \A x : Remove(x) => Untouched(o)
  BY <1>1, Zenon DEF Remove
<1>9. \A p, s, n : CreatePlan(p, s, n) \/ UpdatePlan(p, s, n) \/ RemovePlan(p) => Untouched(o)
  BY <1>1, Zenon DEF CreatePlan, UpdatePlan, RemovePlan, occurrenceVars
<1> QED BY <1>2, <1>3, <1>4, <1>5, <1>6, <1>7, <1>8, <1>9, Zenon DEF Next, RoomStep

(* What a request works on once it has begun.                              *)
LEMMA RequestSteps ==
  ASSUME TypeOK, Next, NEW h \in Handler
  PROVE  \/ room'[h] = room[h]
         \/ room'[h] = Idle
         \/ /\ room[h].op = "status"
            /\ room'[h] = [op |-> "announce", occ |-> room[h].occ, to |-> room[h].to]
         \/ \E o \in Occurrence, s \in StatusAsked :
              /\ Opened(o)
              /\ room'[h] = [op |-> "status", occ |-> o, from |-> status[o], to |-> s]
              /\ UNCHANGED occurrenceVars
         \/ \E o \in Occurrence :
              /\ Opened(o) \/ ItemsOf(o) # {}
              /\ room'[h].occ = o /\ room'[h].op \in {"plan", "item", "tick"}
              /\ UNCHANGED occurrenceVars
<1> DEFINE Goal ==
         \/ room'[h] = room[h]
         \/ room'[h] = Idle
         \/ /\ room[h].op = "status"
            /\ room'[h] = [op |-> "announce", occ |-> room[h].occ, to |-> room[h].to]
         \/ \E o \in Occurrence, s \in StatusAsked :
              /\ Opened(o)
              /\ room'[h] = [op |-> "status", occ |-> o, from |-> status[o], to |-> s]
              /\ UNCHANGED occurrenceVars
         \/ \E o \in Occurrence :
              /\ Opened(o) \/ ItemsOf(o) # {}
              /\ room'[h].occ = o /\ room'[h].op \in {"plan", "item", "tick"}
              /\ UNCHANGED occurrenceVars
<1>0. room \in [Handler -> HandlerState] /\ items \subseteq Item
  BY DEF TypeOK
<1>1. ASSUME NEW g \in Handler, NEW s, Become(g, s)
      PROVE  room'[h] = room[h] \/ (g = h /\ room'[h] = s)
  BY <1>0, <1>1 DEF Become
<1>2. ASSUME UNCHANGED room
      PROVE  room'[h] = room[h]
  BY <1>2
<1>3. ASSUME NEW g \in Handler, NEW o \in Occurrence, NEW s \in StatusAsked, ReadStatus(g, o, s)
      PROVE  Goal
  <2> DEFINE q == [op |-> "status", occ |-> o, from |-> status[o], to |-> s]
  <2>1. Become(g, q) /\ UNCHANGED occurrenceVars /\ Opened(o)
    BY <1>3 DEF ReadStatus
  <2>2. room'[h] = room[h] \/ room'[h] = q
    BY <1>1, <2>1, Zenon
  <2> QED BY <2>1, <2>2, Zenon
<1>4. ASSUME NEW g \in Handler, NEW o \in Occurrence, NEW p \in Plan, ReadPlan(g, o, p)
      PROVE  Goal
  <2> DEFINE s == [op |-> "plan", occ |-> o, plan |-> p, steps |-> plans[p].steps]
  <2>1. Become(g, s) /\ UNCHANGED occurrenceVars /\ Opened(o)
    BY <1>4 DEF ReadPlan
  <2>2. s.occ = o /\ s.op \in {"plan", "item", "tick"}
    OBVIOUS
  <2> HIDE DEF s
  <2> QED BY <1>1, <2>1, <2>2, Zenon
<1>5. ASSUME NEW g \in Handler, NEW o \in Occurrence, ReadLastOrder(g, o)
      PROVE  Goal
  <2> DEFINE v == IF ItemsOf(o) = {} THEN 0
                  ELSE 1 + CHOOSE n \in {x.order : x \in ItemsOf(o)} :
                             \A x \in ItemsOf(o) : x.order <= n
             s == [op |-> "item", occ |-> o, order |-> v]
  <2>1. Become(g, s) /\ UNCHANGED occurrenceVars /\ Opened(o)
    BY <1>5 DEF ReadLastOrder
  <2> HIDE DEF v
  <2>2. s.occ = o /\ s.op \in {"plan", "item", "tick"}
    OBVIOUS
  <2> HIDE DEF s
  <2> QED BY <1>1, <2>1, <2>2, Zenon
<1>6. ASSUME NEW g \in Handler, NEW x \in items, NEW d \in BOOLEAN, ReadItem(g, x, d)
      PROVE  Goal
  <2> DEFINE s == [op |-> "tick", occ |-> x.occ, id |-> x.id, done |-> d]
             o == x.occ
  <2>1. Become(g, s) /\ UNCHANGED occurrenceVars
    BY <1>6 DEF ReadItem
  <2>2. s.occ = o /\ s.op \in {"plan", "item", "tick"}
    OBVIOUS
  <2>3. o \in Occurrence /\ ItemsOf(o) # {}
    BY <1>0 DEF ItemsOf, Item
  <2> HIDE DEF s, o
  <2> QED BY <1>1, <2>1, <2>2, <2>3, Zenon
<1>7. ASSUME NEW g \in Handler, WriteStatus(g)
      PROVE  Goal
  <2>1. /\ room[g].op = "status"
        /\ Become(g, [op |-> "announce", occ |-> room[g].occ, to |-> room[g].to])
    BY <1>7, Zenon DEF WriteStatus
  <2>2. CASE g # h
    BY <1>1, <2>1, <2>2, Zenon
  <2>3. CASE g = h
    BY <1>0, <2>1, <2>3 DEF Become
  <2> QED BY <2>2, <2>3
<1>8. \A g \in Handler :
        AnnounceStatus(g) \/ ActivatePlan(g) \/ InsertItem(g) \/ TickItem(g) => Goal
  BY <1>1, Zenon DEF AnnounceStatus, ActivatePlan, InsertItem, TickItem
<1>9. \A S : Drop(S) => room'[h] = room[h] \/ room'[h] = Idle
  BY DEF Drop
<1>10. /\ \A o, s : Open(o, s) => UNCHANGED room
       /\ \A o, t : AddTimelineEvent(o, t) \/ Remove(o) => UNCHANGED room
       /\ \A p, s, n : CreatePlan(p, s, n) \/ UpdatePlan(p, s, n) \/ RemovePlan(p) => UNCHANGED room
  BY Zenon DEF Open, AddTimelineEvent, Remove, CreatePlan, UpdatePlan, RemovePlan
<1>11. room'[h] = room[h] \/ room'[h] = Idle => Goal
  OBVIOUS
<1> HIDE DEF Goal
<1>12. Goal
  BY <1>2, <1>3, <1>4, <1>5, <1>6, <1>7, <1>8, <1>9, <1>10, <1>11, Zenon DEF Next, RoomStep
<1> QED BY <1>12, Zenon DEF Goal

(* The checklist of an occurrence with one item ticked.                    *)
WithTick(o, id, d) == {IF x.id = id THEN [x EXCEPT !.done = d] ELSE x : x \in ItemsOf(o)}

(* What a step does to the checklist of an occurrence: nothing, an item    *)
(* typed by a user, a plan's items in place of all, or a tick.             *)
LEMMA ItemSteps ==
  ASSUME TypeOK, Next, TypeOK', NEW o \in Occurrence
  PROVE  \/ ItemsOf(o)' = ItemsOf(o)
         \/ \E h \in Handler, x \in Item :
              /\ room[h].op = "item" /\ room[h].occ = o /\ room'[h] = Idle
              /\ x.from = NoPlan /\ x.order = room[h].order
              /\ ItemsOf(o)' = ItemsOf(o) \cup {x}
         \/ \E h \in Handler :
              /\ ActivatePlan(h) /\ room[h].op = "plan" /\ room[h].occ = o
              /\ ItemsOf(o)' = PlanItems(o, room[h].plan, room[h].steps)
         \/ \E id \in Nat, d \in BOOLEAN : ItemsOf(o)' = WithTick(o, id, d)
<1>0. room \in [Handler -> HandlerState] /\ items \subseteq Item
  BY DEF TypeOK
<1>1. ASSUME UNCHANGED items
      PROVE  ItemsOf(o)' = ItemsOf(o)
  BY <1>1 DEF ItemsOf
<1>2. ASSUME NEW h \in Handler, InsertItem(h)
      PROVE  \/ ItemsOf(o)' = ItemsOf(o)
             \/ \E x \in Item :
                  /\ room[h].op = "item" /\ room[h].occ = o /\ room'[h] = Idle
                  /\ x.from = NoPlan /\ x.order = room[h].order
                  /\ ItemsOf(o)' = ItemsOf(o) \cup {x}
  <2> DEFINE x == [id |-> itemSeq', occ |-> room[h].occ, order |-> room[h].order,
                   from |-> NoPlan, done |-> FALSE]
  <2>1. items' = items \cup {x} /\ room[h].op = "item" /\ room'[h] = Idle
    BY <1>0, <1>2 DEF InsertItem, Become
  <2>2. x \in Item
    BY <2>1 DEF TypeOK
  <2>3. x.occ = room[h].occ /\ x.from = NoPlan /\ x.order = room[h].order
    OBVIOUS
  <2> HIDE DEF x
  <2>4. CASE room[h].occ = o
    BY <2>1, <2>2, <2>3, <2>4 DEF ItemsOf
  <2>5. CASE room[h].occ # o
    BY <2>1, <2>3, <2>5 DEF ItemsOf
  <2> QED BY <2>4, <2>5
<1>3. ASSUME NEW h \in Handler, ActivatePlan(h)
      PROVE  \/ ItemsOf(o)' = ItemsOf(o)
             \/ /\ ActivatePlan(h) /\ room[h].op = "plan" /\ room[h].occ = o
                /\ ItemsOf(o)' = PlanItems(o, room[h].plan, room[h].steps)
  <2> DEFINE P == PlanItems(room[h].occ, room[h].plan, room[h].steps)
  <2>1. items' = ItemsElsewhere(room[h].occ) \cup P /\ room[h].op = "plan"
    BY <1>3 DEF ActivatePlan
  <2>2. \A x \in P : x.occ = room[h].occ
    BY DEF PlanItems
  <2> HIDE DEF P
  <2>3. CASE room[h].occ = o
    <3>1. ItemsOf(o)' = P
      BY <2>1, <2>2, <2>3 DEF ItemsOf, ItemsElsewhere
    <3> QED BY <1>3, <2>1, <2>3, <3>1 DEF P
  <2>4. CASE room[h].occ # o
    BY <2>1, <2>2, <2>4 DEF ItemsOf, ItemsElsewhere
  <2> QED BY <2>3, <2>4
<1>4. ASSUME NEW h \in Handler, TickItem(h)
      PROVE  \E id \in Nat, d \in BOOLEAN : ItemsOf(o)' = WithTick(o, id, d)
  <2> DEFINE q == room[h]
             f(x) == IF x.id = q.id THEN [x EXCEPT !.done = q.done] ELSE x
  <2>1. q.op = "tick" /\ items' = {f(x) : x \in items}
    BY <1>4, Zenon DEF TickItem, Ticked
  <2>2. q.id \in Nat /\ q.done \in BOOLEAN
    BY <1>0, <2>1, StateFields
  <2>3. \A x \in items : f(x).occ = x.occ
    BY <1>0 DEF Item
  <2>4. ItemsOf(o)' = {f(x) : x \in ItemsOf(o)}
    <3> HIDE DEF f
    <3>1. \A y : y \in ItemsOf(o)' <=> y \in items' /\ y.occ = o
      BY Zenon DEF ItemsOf
    <3>2. \A y : y \in items' <=> \E x \in items : y = f(x)
      BY <2>1, Zenon
    <3>3. \A x : x \in ItemsOf(o) <=> x \in items /\ x.occ = o
      BY Zenon DEF ItemsOf
    <3>4. \A y : y \in ItemsOf(o)' <=> \E x \in ItemsOf(o) : y = f(x)
      BY <2>3, <3>1, <3>2, <3>3, Zenon
    <3> QED BY <3>4, Zenon
  <2>5. ItemsOf(o)' = WithTick(o, q.id, q.done)
    BY <2>4, Zenon DEF WithTick
  <2> QED BY <2>2, <2>5, Zenon
<1>5. ASSUME NEW h \in Handler,
             \/ \E x \in Occurrence, s \in StatusAsked : ReadStatus(h, x, s)
             \/ \E x \in Occurrence, p \in Plan : ReadPlan(h, x, p)
             \/ \E x \in Occurrence : ReadLastOrder(h, x)
             \/ \E x \in items, d \in BOOLEAN : ReadItem(h, x, d)
             \/ AnnounceStatus(h) \/ WriteStatus(h)
      PROVE  UNCHANGED items
  BY <1>5, Zenon DEF ReadStatus, ReadPlan, ReadLastOrder, ReadItem, AnnounceStatus,
       WriteStatus, checklistVars
<1>6. /\ \A S : Drop(S) => UNCHANGED items
      /\ \A x, s : Open(x, s) => UNCHANGED items
      /\ \A x, t : AddTimelineEvent(x, t) \/ Remove(x) => UNCHANGED items
      /\ \A p, s, n : CreatePlan(p, s, n) \/ UpdatePlan(p, s, n) \/ RemovePlan(p) => UNCHANGED items
  BY Zenon DEF Drop, Open, AddTimelineEvent, Remove, CreatePlan, UpdatePlan, RemovePlan,
       checklistVars
<1> QED BY <1>1, <1>2, <1>3, <1>4, <1>5, <1>6, Zenon DEF Next, RoomStep

(* An occurrence stays opened.                                             *)
LEMMA OpenedStays ==
  ASSUME TypeOK, Next, NEW o \in Occurrence
  PROVE  /\ Opened(o) => Opened(o)'
         /\ (\E s \in OpenedAs : Open(o, s)) => Opened(o)'
<1>0. "unopened" \notin Status
  BY DEF Status
<1>1. status \in [Occurrence -> Status \cup {"unopened"}]
  BY DEF TypeOK
<1>2. ASSUME NEW s \in OpenedAs, Open(o, s)
      PROVE  ~ Opened(o) /\ Opened(o)'
  BY <1>0, <1>1, <1>2, RoomAssumption DEF Open, Opened
<1>3. ASSUME NEW h \in Handler, WriteStatus(h), StatusWritten(o, room[h])
      PROVE  Opened(o)'
  <2>1. room[h].op = "status" /\ status'[o] = room[h].to
    BY <1>3 DEF StatusWritten
  <2>2. room[h].to \in Status
    BY <2>1, StateFields DEF TypeOK
  <2> QED BY <1>0, <2>1, <2>2 DEF Opened
<1>4. Untouched(o) \/ (\E e : Noted(o, e)) => status'[o] = status[o]
  BY Zenon DEF Untouched, Noted
<1>5. status'[o] = status[o] => (Opened(o) => Opened(o)')
  BY DEF Opened
<1> QED BY <1>2, <1>3, <1>4, <1>5, RoomSteps, Zenon

(* Only an opened occurrence has rows, items and requests.                 *)
LEMMA OpenedFirstStep ==
  ASSUME TypeOK, OpenedFirst, Next, TypeOK'
  PROVE  OpenedFirst'
<1>0. /\ room \in [Handler -> HandlerState] /\ room' \in [Handler -> HandlerState]
  BY DEF TypeOK
<1>1. ASSUME NEW h \in Handler, room[h] # Idle
      PROVE  Opened(room[h].occ) /\ room[h].occ \in Occurrence
  BY <1>0, <1>1, StateFields, Zenon DEF OpenedFirst
<1>2. \A q \in HandlerState : q.op # "idle" => q # Idle
  BY DEF Idle
<1>3. ASSUME NEW o \in Occurrence, ~ Opened(o)'
      PROVE  timeline'[o] = <<>> /\ ItemsOf(o)' = {}
  <2>1. ~ Opened(o)
    BY <1>3, OpenedStays
  <2>2. timeline[o] = <<>> /\ ItemsOf(o) = {}
    BY <2>1, Zenon DEF OpenedFirst
  <2>3. \A h \in Handler : room[h].occ = o => room[h] = Idle
    BY <1>1, <2>1, Zenon
  <2>4. ~ \E h \in Handler : ActivatePlan(h) /\ room[h].occ = o
    BY <2>3 DEF ActivatePlan, Idle
  <2>5. ~ \E h \in Handler : StatusWritten(o, room[h])
    BY <2>3 DEF StatusWritten, Idle
  <2>6. ~ \E h \in Handler : room[h].op = "item" /\ room[h].occ = o
    BY <2>3 DEF Idle
  <2>7. Untouched(o)
    BY <1>3, <2>1, <2>4, <2>5, OpenedStays, RoomSteps, Zenon
  <2>8. ItemsOf(o)' = {}
    <3>1. CASE ItemsOf(o)' = ItemsOf(o)
      BY <2>2, <3>1
    <3>2. \A id, d : WithTick(o, id, d) = {}
      BY <2>2 DEF WithTick
    <3> QED BY <2>4, <2>6, <3>1, <3>2, ItemSteps, Zenon
  <2> QED BY <2>2, <2>7, <2>8 DEF Untouched
<1>4. ASSUME NEW h \in Handler, room'[h] # Idle
      PROVE  Opened(room[h].occ)'
  <2>1. CASE room'[h] = room[h]
    <3> DEFINE o == room[h].occ
    <3>1. o \in Occurrence /\ Opened(o)
      BY <1>1, <1>4, <2>1
    <3>2. \A x \in Occurrence : status[x] # "unopened" => status'[x] # "unopened"
      BY OpenedStays, Zenon DEF Opened
    <3>3. status'[o] # "unopened"
      BY <3>1, <3>2, Zenon DEF Opened
    <3> QED BY <2>1, <3>3 DEF Opened
  <2>2. ASSUME NEW o \in Occurrence, Opened(o), room'[h].occ = o
        PROVE  Opened(room[h].occ)'
    <3>1. status'[o] # "unopened"
      BY <2>2, OpenedStays, Zenon DEF Opened
    <3> QED BY <2>2, <3>1 DEF Opened
  <2>3. CASE /\ room[h].op = "status"
             /\ room'[h] = [op |-> "announce", occ |-> room[h].occ, to |-> room[h].to]
    <3>1. room[h] # Idle /\ room'[h].occ = room[h].occ
      BY <2>3 DEF Idle
    <3> QED BY <1>1, <2>2, <3>1
  <2>4. ASSUME NEW o \in Occurrence, NEW s, Opened(o),
               room'[h] = [op |-> "status", occ |-> o, from |-> status[o], to |-> s]
        PROVE  Opened(room[h].occ)'
    <3>1. room'[h].occ = o
      BY <2>4
    <3> QED BY <2>2, <2>4, <3>1
  <2>5. ASSUME NEW o \in Occurrence, ItemsOf(o) # {}
        PROVE  Opened(o)
    BY <2>5 DEF OpenedFirst
  <2> QED BY <1>4, <2>1, <2>2, <2>3, <2>4, <2>5, RequestSteps, Zenon
<1> QED BY <1>3, <1>4, Zenon DEF OpenedFirst

-----------------------------------------------------------------------------
(* What a step does to the status rows of an occurrence: nothing, while    *)
(* the column only moves when the occurrence is opened; or one row more,   *)
(* which takes the column along.                                           *)
RowsAsBefore(o) ==
  /\ StatusRows(o)' = StatusRows(o)
  /\ \A i \in StatusRows(o) : timeline'[o][i] = timeline[o][i]
  /\ resolvedAt'[o] = resolvedAt[o]

NewRow(o, q, n) ==
  /\ StatusRows(o)' = StatusRows(o) \cup {n}
  /\ \A i \in StatusRows(o) : i < n /\ timeline'[o][i] = timeline[o][i]
  /\ timeline'[o][n].from = q.from
  /\ timeline'[o][n].to = q.to
  /\ timeline'[o][n].type = StatusType(q.to)

(* The row a request writes is one row more, after all the others.         *)
LEMMA WrittenRow ==
  ASSUME TypeOK, NEW o \in Occurrence, NEW h \in Handler, StatusWritten(o, room[h])
  PROVE  /\ room[h].from \in Status /\ room[h].to \in Status
         /\ \E n \in Nat : NewRow(o, room[h], n)
<1> DEFINE q == room[h]
           e == StatusEvent(q.from, q.to)
           n == Len(timeline[o]) + 1
           t == timeline[o]
<1>0. /\ timeline[o] \in Seq(Event)
      /\ StatusRows(o) = Rows(timeline[o], "status")
      /\ StatusRows(o)' = Rows(timeline'[o], "status")
  BY Zenon DEF TypeOK, StatusRows, Rows
<1>1. q.from \in Status /\ q.to \in Status
  BY StateFields DEF StatusWritten, TypeOK
<1>2. /\ e \in Event /\ e.event = "status" /\ e.from = q.from /\ e.to = q.to
      /\ e.type = StatusType(q.to)
  BY <1>1, EventFacts
<1>3. timeline'[o] = Append(t, e)
  BY DEF StatusWritten
<1> HIDE DEF e
<1>4. /\ n \in Nat
      /\ \A i \in Rows(t, "status") : i < n /\ Append(t, e)[i] = t[i]
      /\ Append(t, e)[n] = e
      /\ Rows(Append(t, e), "status") = Rows(t, "status") \cup {n}
  <2>0. e \in Event /\ e.event = "status" /\ timeline[o] \in Seq(Event)
    BY <1>0, <1>2
  <2>1. /\ Len(t) + 1 \in Nat
        /\ Append(t, e)[Len(t) + 1] = e
    BY <1>0, <1>2, AppendDomain
  <2>2. ASSUME NEW s \in Seq(Event), NEW x \in Event, x.event = "status"
        PROVE  /\ Rows(Append(s, x), "status") = Rows(s, "status") \cup {Len(s) + 1}
               /\ \A i \in Rows(s, "status") : i < Len(s) + 1 /\ Append(s, x)[i] = s[i]
    <3>1. x.event = "status" => Rows(Append(s, x), "status") = Rows(s, "status") \cup {Len(s) + 1}
      BY RowsOfAppend, Zenon
    <3>2. \A i \in Rows(s, "status") : i < Len(s) + 1 /\ Append(s, x)[i] = s[i]
      BY RowsOfAppend, Zenon
    <3> QED BY <2>2, <3>1, <3>2, Zenon
  <2>3. /\ Rows(Append(t, e), "status") = Rows(t, "status") \cup {Len(t) + 1}
        /\ \A i \in Rows(t, "status") : i < Len(t) + 1 /\ Append(t, e)[i] = t[i]
    BY <2>0, <2>2, Zenon
  <2> QED BY <2>1, <2>3, Zenon
<1> HIDE DEF n
<1>5. NewRow(o, q, n)
  BY <1>0, <1>2, <1>3, <1>4, Zenon DEF NewRow
<1> QED BY <1>1, <1>4, <1>5

(* The status rows after any step.                                         *)
LEMMA StatusRowsSteps ==
  ASSUME TypeOK, OpenedFirst, Next, NEW o \in Occurrence
  PROVE  /\ StatusRows(o) \subseteq Nat
         /\ \/ RowsAsBefore(o) /\ status'[o] = status[o]
            \/ /\ RowsAsBefore(o) /\ StatusRows(o) = {}
               /\ ~ Opened(o) /\ status'[o] \in Status
               /\ UNCHANGED room
            \/ \E h \in Handler, n \in Nat :
                 /\ WriteStatus(h) /\ StatusWritten(o, room[h])
                 /\ room[h].from \in Status /\ room[h].to \in Status
                 /\ NewRow(o, room[h], n)
<1>0. timeline[o] \in Seq(Event)
  BY DEF TypeOK
<1>1. /\ StatusRows(o) = Rows(timeline[o], "status")
      /\ StatusRows(o)' = Rows(timeline'[o], "status")
  BY Zenon DEF StatusRows, Rows
<1>2. StatusRows(o) \subseteq Nat
  BY <1>0, <1>1, RowsNumbered
<1>3. ASSUME Untouched(o)
      PROVE  RowsAsBefore(o) /\ status'[o] = status[o]
  BY <1>1, <1>3, Zenon DEF Untouched, RowsAsBefore
<1>4. ASSUME NEW e \in Event, e.event # "status", Noted(o, e)
      PROVE  RowsAsBefore(o) /\ status'[o] = status[o]
  <2> DEFINE t == timeline[o]
             u == timeline'[o]
  <2>1. u = Append(t, e) /\ status'[o] = status[o] /\ resolvedAt'[o] = resolvedAt[o]
    BY <1>4 DEF Noted
  <2>2. /\ \A i \in Rows(t, "status") : Append(t, e)[i] = t[i]
        /\ Rows(Append(t, e), "status") = Rows(t, "status")
    BY <1>0, <1>4, RowsOfAppend, Zenon
  <2> QED BY <1>1, <2>1, <2>2, Zenon DEF RowsAsBefore
<1>5. ASSUME NEW s \in OpenedAs, Open(o, s)
      PROVE  /\ RowsAsBefore(o) /\ StatusRows(o) = {}
             /\ ~ Opened(o) /\ status'[o] \in Status /\ UNCHANGED room
  <2>1. /\ ~ Opened(o) /\ timeline'[o] = <<Opening>> /\ status'[o] = s
        /\ resolvedAt'[o] = resolvedAt[o] /\ UNCHANGED room
    BY <1>5 DEF Open, TypeOK
  <2>2. timeline[o] = <<>>
    BY <2>1 DEF OpenedFirst
  <2>3. StatusRows(o) = {}
    BY <2>2 DEF StatusRows
  <2>4. timeline'[o] = Append(<<>>, Opening) /\ <<>> \in Seq(Event)
    BY <2>1
  <2>5. Rows(Append(<<>>, Opening), "status") = Rows(<<>>, "status")
    <3>1. Opening \in Event /\ Opening.event # "status"
      BY EventFacts
    <3> QED BY <2>4, <3>1, RowsOfAppend, Zenon
  <2>6. StatusRows(o)' = {}
    BY <1>1, <2>2, <2>3, <2>4, <2>5, Zenon
  <2>7. s \in Status
    BY RoomAssumption
  <2> QED BY <2>1, <2>3, <2>6, <2>7 DEF RowsAsBefore
<1>6. ASSUME NEW h \in Handler, WriteStatus(h), StatusWritten(o, room[h])
      PROVE  /\ room[h].from \in Status /\ room[h].to \in Status
             /\ \E n \in Nat : NewRow(o, room[h], n)
  BY <1>6, WrittenRow
<1>7. ASSUME NEW t \in EventType, Noted(o, PostedEvent(t))
      PROVE  RowsAsBefore(o) /\ status'[o] = status[o]
  <2>1. PostedEvent(t) \in Event /\ PostedEvent(t).event # "status"
    BY EventFacts
  <2> QED BY <1>4, <1>7, <2>1
<1>8. ASSUME NEW h \in Handler, ActivatePlan(h), Noted(o, PlanEvent(room[h].plan))
      PROVE  RowsAsBefore(o) /\ status'[o] = status[o]
  <2>1. room[h].plan \in Plan
    BY <1>8, StateFields DEF ActivatePlan, TypeOK
  <2>2. PlanEvent(room[h].plan) \in Event /\ PlanEvent(room[h].plan).event # "status"
    BY <2>1, EventFacts
  <2> QED BY <1>4, <1>8, <2>2
<1> QED BY <1>2, <1>3, <1>5, <1>6, <1>7, <1>8, RoomSteps, Zenon

(* Writing the row and the column in one transaction keeps them agreed.    *)
LEMMA StatusFollowsStep ==
  ASSUME TypeOK, OpenedFirst, StatusFollowsTimeline, Next
  PROVE  StatusFollowsTimeline'
<1> SUFFICES ASSUME NEW o \in Occurrence, NEW i \in StatusRows(o)',
                    \A j \in StatusRows(o)' : j <= i
             PROVE  status'[o] = timeline'[o][i].to
  BY Zenon DEF StatusFollowsTimeline
<1>1. CASE RowsAsBefore(o) /\ status'[o] = status[o]
  BY <1>1, Zenon DEF RowsAsBefore, StatusFollowsTimeline
<1>2. CASE RowsAsBefore(o) /\ StatusRows(o) = {}
  BY <1>2, Zenon DEF RowsAsBefore
<1>3. ASSUME NEW h \in Handler, NEW n \in Nat, StatusWritten(o, room[h]), NewRow(o, room[h], n)
      PROVE  status'[o] = timeline'[o][i].to
  <2>1. n \in StatusRows(o)' /\ StatusRows(o) \subseteq Nat
    BY <1>3, StatusRowsSteps DEF NewRow
  <2>2. n <= i
    BY <2>1
  <2>3. i = n
    <3>1. i \in StatusRows(o) \/ i = n
      BY <1>3 DEF NewRow
    <3>2. i \in StatusRows(o) => i < n /\ i \in Nat
      BY <1>3, <2>1, Zenon DEF NewRow
    <3> QED BY <2>2, <3>1, <3>2
  <2> QED BY <1>3, <2>3 DEF NewRow, StatusWritten
<1> QED BY <1>1, <1>2, <1>3, StatusRowsSteps, Zenon

(* The date of resolution is written with a row that tells of it, and no   *)
(* posted row is taken for that one.                                       *)
LEMMA ResolvedStep ==
  ASSUME TypeOK, OpenedFirst, ResolvedAtAccounted, Next
  PROVE  ResolvedAtAccounted'
<1> SUFFICES ASSUME NEW o \in Occurrence
             PROVE  resolvedAt'[o] <=> \E i \in StatusRows(o)' :
                                         timeline'[o][i].type = "ocorrencia resolvida"
  BY Zenon DEF ResolvedAtAccounted
<1>0. resolvedAt[o] <=> \E i \in StatusRows(o) : timeline[o][i].type = "ocorrencia resolvida"
  BY DEF ResolvedAtAccounted
<1>1. CASE RowsAsBefore(o)
  BY <1>0, <1>1, Zenon DEF RowsAsBefore
<1>2. ASSUME NEW h \in Handler, NEW n \in Nat, StatusWritten(o, room[h]), NewRow(o, room[h], n)
      PROVE  resolvedAt'[o] <=> \E i \in StatusRows(o)' :
                                  timeline'[o][i].type = "ocorrencia resolvida"
  <2>1. /\ resolvedAt'[o] <=> (resolvedAt[o] \/ room[h].to = "resolvido")
        /\ timeline'[o][n].type = StatusType(room[h].to)
        /\ StatusRows(o)' = StatusRows(o) \cup {n}
        /\ \A i \in StatusRows(o) : timeline'[o][i] = timeline[o][i]
    BY <1>2, Zenon DEF StatusWritten, NewRow
  <2>2. StatusType(room[h].to) = "ocorrencia resolvida" <=> room[h].to = "resolvido"
    BY DEF StatusType
  <2>3. timeline'[o][n].type = "ocorrencia resolvida" <=> room[h].to = "resolvido"
    BY <2>1, <2>2
  <2> QED BY <1>0, <2>1, <2>3, Zenon
<1> QED BY <1>1, <1>2, StatusRowsSteps, Zenon

(* What was told stays told.                                               *)
LEMMA ToldStays ==
  ASSUME TypeOK, OpenedFirst, Next, NEW o \in Occurrence, NEW s, Told(o, s)
  PROVE  Told(o, s)'
<1>1. PICK i \in StatusRows(o) : timeline[o][i].to = s
  BY Zenon DEF Told
<1>2. i \in StatusRows(o)' /\ timeline'[o][i] = timeline[o][i]
  BY <1>1, StatusRowsSteps, Zenon DEF RowsAsBefore, NewRow
<1> QED BY <1>1, <1>2, Zenon DEF Told

(* The status the occurrence was opened with goes on explaining what no    *)
(* row does: a row is written with what its request read, which was the    *)
(* column then.                                                            *)
LEMMA OneStartStep ==
  ASSUME TypeOK, OpenedFirst, OneStart, Next, TypeOK'
  PROVE  OneStart'
<1> SUFFICES ASSUME NEW o \in Occurrence
             PROVE  \E start \in Status : StartsFrom(o, start)'
  BY Zenon DEF OneStart
<1>0. room \in [Handler -> HandlerState] /\ StatusRows(o) \subseteq Nat
  BY StatusRowsSteps DEF TypeOK
<1>1. PICK start \in Status : StartsFrom(o, start)
  BY DEF OneStart
<1>2. /\ \A i \in Unexplained(o) : timeline[o][i].from = start
      /\ Opened(o) => status[o] = start \/ Told(o, status[o])
      /\ \A h \in Handler : room[h].op = "status" /\ room[h].occ = o
                              => room[h].from = start \/ Told(o, room[h].from)
  BY <1>1, Zenon DEF StartsFrom
<1>3. ASSUME RowsAsBefore(o)
      PROVE  \A i \in Unexplained(o)' : i \in Unexplained(o) /\ timeline'[o][i] = timeline[o][i]
  BY <1>3, Zenon DEF RowsAsBefore, Unexplained
<1>4. ASSUME NEW h \in Handler, NEW n \in Nat, StatusWritten(o, room[h]), NewRow(o, room[h], n)
      PROVE  \A i \in Unexplained(o)' : timeline'[o][i].from = start
  <2>1. /\ StatusRows(o)' = StatusRows(o) \cup {n}
        /\ \A i \in StatusRows(o) : i < n /\ timeline'[o][i] = timeline[o][i]
        /\ timeline'[o][n].from = room[h].from
    BY <1>4, Zenon DEF NewRow
  <2>2. room[h].from = start \/ Told(o, room[h].from)
    BY <1>2, <1>4 DEF StatusWritten
  <2>3. ASSUME NEW i \in Unexplained(o)', i \in StatusRows(o)
        PROVE  timeline'[o][i].from = start
    <3>1. timeline'[o][i] = timeline[o][i]
      BY <2>1, <2>3
    <3>2. i \in Unexplained(o)
      BY <2>1, <2>3, Zenon DEF Unexplained
    <3> QED BY <1>2, <3>1, <3>2, Zenon
  <2>4. ASSUME n \in Unexplained(o)'
        PROVE  room[h].from = start
    <3>1. \A j \in StatusRows(o) : timeline[o][j].to # room[h].from
      BY <2>1, <2>4, Zenon DEF Unexplained
    <3>2. ~ Told(o, room[h].from)
      BY <3>1, Zenon DEF Told
    <3> QED BY <2>2, <3>2
  <2>5. \A i \in Unexplained(o)' : i \in StatusRows(o) \/ i = n
    BY <2>1, Zenon DEF Unexplained
  <2> QED BY <2>1, <2>3, <2>4, <2>5, Zenon
<1>5. ASSUME NEW s, s = start \/ Told(o, s)
      PROVE  s = start \/ Told(o, s)'
  BY <1>5, ToldStays
<1>6. ASSUME NEW h \in Handler, room'[h].op = "status", room'[h].occ = o
      PROVE  room'[h].from = start \/ Told(o, room'[h].from)
  <2>1. CASE room'[h] = room[h]
    BY <1>2, <1>6, <2>1
  <2>2. CASE room'[h] = Idle
    BY <1>6, <2>2 DEF Idle
  <2>3. CASE room'[h] = [op |-> "announce", occ |-> room[h].occ, to |-> room[h].to]
    BY <1>6, <2>3
  <2>4. ASSUME NEW x \in Occurrence, NEW s \in StatusAsked, Opened(x),
               room'[h] = [op |-> "status", occ |-> x, from |-> status[x], to |-> s]
        PROVE  room'[h].from = start \/ Told(o, room'[h].from)
    <3>1. x = o /\ room'[h].from = status[o]
      BY <1>6, <2>4
    <3>2. status[o] = start \/ Told(o, status[o])
      BY <1>2, <2>4, <3>1
    <3> QED BY <3>1, <3>2
  <2>5. CASE room'[h].op \in {"plan", "item", "tick"}
    BY <1>6, <2>5
  <2> QED BY <2>1, <2>2, <2>3, <2>4, <2>5, RequestSteps, Zenon
<1>7. ASSUME NEW h \in Handler, room'[h].op = "status", room'[h].occ = o
      PROVE  room'[h].from = start \/ Told(o, room[h].from)'
  <2> DEFINE v == room'[h].from
  <2>1. v = start \/ \E i \in StatusRows(o) : timeline[o][i].to = v
    BY <1>6, <1>7, Zenon DEF Told
  <2>2. \A i \in StatusRows(o) : i \in StatusRows(o)' /\ timeline'[o][i] = timeline[o][i]
    BY StatusRowsSteps, Zenon DEF RowsAsBefore, NewRow
  <2>3. v = start \/ \E i \in StatusRows(o)' : timeline'[o][i].to = v
    BY <2>1, <2>2, Zenon
  <2> QED BY <2>3, Zenon DEF Told
<1>8. ASSUME status'[o] = status[o], Opened(o)'
      PROVE  status'[o] = start \/ Told(o, status[o])'
  <2>1. status[o] = start \/ Told(o, status[o])
    BY <1>2, <1>8 DEF Opened
  <2>2. CASE status[o] = start
    BY <1>8, <2>2
  <2>3. CASE Told(o, status[o])
    <3> DEFINE v == status[o]
    <3>1. PICK i \in StatusRows(o) : timeline[o][i].to = v
      BY <2>3, Zenon DEF Told
    <3>2. i \in StatusRows(o)' /\ timeline'[o][i] = timeline[o][i]
      BY StatusRowsSteps, Zenon DEF RowsAsBefore, NewRow
    <3>3. \E j \in StatusRows(o)' : timeline'[o][j].to = status'[o]
      BY <1>8, <3>1, <3>2, Zenon
    <3> QED BY <3>3, Zenon DEF Told
  <2> QED BY <2>1, <2>2, <2>3
<1>9. ASSUME NEW h \in Handler, NEW n \in Nat, StatusWritten(o, room[h]), NewRow(o, room[h], n)
      PROVE  Told(o, status[o])'
  <2>1. n \in StatusRows(o)' /\ timeline'[o][n].to = status'[o]
    BY <1>9 DEF StatusWritten, NewRow
  <2> QED BY <2>1, Zenon DEF Told
<1>10. CASE RowsAsBefore(o) /\ status'[o] = status[o]
  <2>1. \A i \in Unexplained(o)' : timeline'[o][i].from = start
    BY <1>2, <1>3, <1>10, Zenon
  <2>2. StartsFrom(o, start)'
    BY <1>7, <1>8, <1>10, <2>1, Zenon DEF StartsFrom
  <2> QED BY <2>2, Zenon
<1>11. ASSUME NEW h \in Handler, NEW n \in Nat, StatusWritten(o, room[h]), NewRow(o, room[h], n)
       PROVE  \E s \in Status : StartsFrom(o, s)'
  <2>1. StartsFrom(o, start)'
    BY <1>4, <1>7, <1>9, <1>11, Zenon DEF StartsFrom
  <2> QED BY <2>1, Zenon
<1>12. CASE /\ RowsAsBefore(o) /\ StatusRows(o) = {}
            /\ ~ Opened(o) /\ status'[o] \in Status /\ UNCHANGED room
  <2>1. Unexplained(o)' = {}
    BY <1>12 DEF RowsAsBefore, Unexplained
  <2>2. \A h \in Handler : ~ (room'[h].op = "status" /\ room'[h].occ = o)
    BY <1>12 DEF OpenedFirst, Idle
  <2>0. PICK s \in Status : s = status'[o]
    BY <1>12
  <2>3. /\ \A i \in Unexplained(o)' : timeline'[o][i].from = s
        /\ Opened(o)' => status'[o] = s \/ Told(o, status[o])'
        /\ \A h \in Handler : room'[h].op = "status" /\ room'[h].occ = o
                                => room'[h].from = s \/ Told(o, room[h].from)'
    BY <2>0, <2>1, <2>2, Zenon
  <2>5. StartsFrom(o, s)'
    BY <2>3, Zenon DEF StartsFrom
  <2> QED BY <2>5, Zenon
<1> QED BY <1>10, <1>11, <1>12, StatusRowsSteps, Zenon

-----------------------------------------------------------------------------
(* Typing, the positions handed out, and the status invariant.             *)
RoomInvariant == TypeOK /\ OrdersCounted /\ StatusInvariant

(* Nothing is told of an occurrence that is not opened yet.                *)
LEMMA StatusInit == Init => StatusInvariant
<1> SUFFICES ASSUME Init
             PROVE  StatusInvariant
  OBVIOUS
<1>1. /\ \A o \in Occurrence : timeline[o] = <<>> /\ resolvedAt[o] = FALSE /\ ~ Opened(o)
      /\ items = {} /\ \A h \in Handler : room[h] = Idle
  BY DEF Init, Opened
<1>2. \A o \in Occurrence : StatusRows(o) = {}
  BY <1>1 DEF StatusRows
<1>3. OpenedFirst
  BY <1>1 DEF OpenedFirst, ItemsOf
<1>4. StatusFollowsTimeline /\ ResolvedAtAccounted
  BY <1>1, <1>2, Zenon DEF StatusFollowsTimeline, ResolvedAtAccounted
<1>5. OneStart
  <2>1. "aberto" \in Status /\ Idle.op # "status"
    BY DEF Status, Idle
  <2>2. \A o \in Occurrence : StartsFrom(o, "aberto")
    BY <1>1, <1>2, <2>1, Zenon DEF StartsFrom, Unexplained
  <2> QED BY <2>1, <2>2, Zenon DEF OneStart
<1> QED BY <1>3, <1>4, <1>5 DEF StatusInvariant

(* Nothing changes in a step of the rest of the server.                    *)
LEMMA RoomStutters ==
  ASSUME UNCHANGED roomVars, StatusInvariant
  PROVE  StatusInvariant'
<1>1. UNCHANGED <<status, resolvedAt, timeline, items, room>>
  BY DEF roomVars, occurrenceVars, checklistVars
<1>2. OpenedFirst'
  BY <1>1 DEF StatusInvariant, OpenedFirst, Opened, ItemsOf
<1>3. StatusFollowsTimeline'
  BY <1>1, Zenon DEF StatusInvariant, StatusFollowsTimeline, StatusRows
<1>4. ResolvedAtAccounted'
  BY <1>1, Zenon DEF StatusInvariant, ResolvedAtAccounted, StatusRows
<1>5. OneStart'
  <2>1. \A o \in Occurrence : StatusRows(o)' = StatusRows(o)
    BY <1>1 DEF StatusRows
  <2>2. \A o \in Occurrence : Unexplained(o)' = Unexplained(o)
    BY <1>1, <2>1 DEF Unexplained
  <2>3. \A o \in Occurrence, s \in Status : StartsFrom(o, s) => StartsFrom(o, s)'
    BY <1>1, <2>1, <2>2 DEF StartsFrom, Told, Opened
  <2> QED BY <2>3, Zenon DEF StatusInvariant, OneStart
<1> QED BY <1>2, <1>3, <1>4, <1>5 DEF StatusInvariant

(* The invariant from which the properties of the timeline follow.         *)
LEMMA RoomInvariantHolds == Spec => []RoomInvariant
<1>1. Init => RoomInvariant
  BY InitTyped, StatusInit DEF RoomInvariant
<1>2. RoomInvariant /\ [Next]_roomVars /\ (TypeOK /\ OrdersCounted)' => RoomInvariant'
  <2> SUFFICES ASSUME RoomInvariant, [Next]_roomVars, (TypeOK /\ OrdersCounted)'
               PROVE  StatusInvariant'
    BY DEF RoomInvariant
  <2>1. CASE Next
    BY <2>1, OpenedFirstStep, StatusFollowsStep, ResolvedStep, OneStartStep
       DEF RoomInvariant, StatusInvariant
  <2>2. CASE UNCHANGED roomVars
    BY <2>2, RoomStutters DEF RoomInvariant
  <2> QED BY <2>1, <2>2
<1> QED BY <1>1, <1>2, TypedAndCounted, PTL DEF Spec

(* The row and the timeline of an occurrence tell the same status, however *)
(* many requests move it at once.                                          *)
THEOREM RoomStatusFollowsTimeline == Spec => []StatusFollowsTimeline
<1>1. RoomInvariant => StatusFollowsTimeline
  BY DEF RoomInvariant, StatusInvariant
<1> QED BY <1>1, RoomInvariantHolds, PTL

(* The date of resolution is there exactly when the timeline tells of one. *)
THEOREM RoomResolvedAtAccounted == Spec => []ResolvedAtAccounted
<1>1. RoomInvariant => ResolvedAtAccounted
  BY DEF RoomInvariant, StatusInvariant
<1> QED BY <1>1, RoomInvariantHolds, PTL

(* A previousStatus is one an earlier event gave, or the one the occurrence*)
(* was opened with: it may be stale, it is never invented.                 *)
THEOREM RoomPreviousStatusReal == Spec => []PreviousStatusReal
<1>1. RoomInvariant => PreviousStatusReal
  <2> SUFFICES ASSUME OneStart, NEW o \in Occurrence,
                      NEW i \in Unexplained(o), NEW k \in Unexplained(o)
               PROVE  timeline[o][i].from = timeline[o][k].from
    BY Zenon DEF RoomInvariant, StatusInvariant, PreviousStatusReal, Unexplained
  <2>1. PICK start \in Status : StartsFrom(o, start)
    BY DEF OneStart
  <2> QED BY <2>1, Zenon DEF StartsFrom
<1> QED BY <1>1, RoomInvariantHolds, PTL

-----------------------------------------------------------------------------
(* One more event leaves the timeline a prefix.                            *)
LEMMA AppendKeepsPrefix ==
  ASSUME NEW S, NEW s \in Seq(S), NEW e \in S
  PROVE  /\ Len(Append(s, e)) >= Len(s)
         /\ SubSeq(Append(s, e), 1, Len(s)) = s
BY SubSeqProperties, SeqEqual

(* "Timeline (imutavel)": no operation of the room rewrites or drops an    *)
(* event.                                                                  *)
THEOREM RoomTimelineAppendOnly == Spec => TimelineAppendOnly
<1> DEFINE Kept(o) == /\ Len(timeline'[o]) >= Len(timeline[o])
                      /\ SubSeq(timeline'[o], 1, Len(timeline[o])) = timeline[o]
<1>1. ASSUME RoomInvariant, Next, NEW o \in Occurrence
      PROVE  Kept(o)
  <2>0. TypeOK /\ OpenedFirst /\ timeline[o] \in Seq(Event) /\ room \in [Handler -> HandlerState]
        /\ timeline \in [Occurrence -> Seq(Event)]
    BY <1>1 DEF RoomInvariant, StatusInvariant, TypeOK
  <2>1. timeline'[o] = timeline[o] => Kept(o)
    BY <2>0, SubSeqFull
  <2>2. ASSUME NEW e \in Event, timeline'[o] = Append(timeline[o], e)
        PROVE  Kept(o)
    BY <2>0, <2>2, AppendKeepsPrefix
  <2> HIDE DEF Kept
  <2>3. CASE Untouched(o)
    BY <2>1, <2>3 DEF Untouched
  <2>4. ASSUME NEW s \in OpenedAs, Open(o, s)
        PROVE  Kept(o)
    <3>1. timeline[o] = <<>> /\ timeline'[o] = <<Opening>>
      BY <2>0, <2>4, Zenon DEF Open, OpenedFirst
    <3>2. timeline'[o] = Append(timeline[o], Opening)
      BY <3>1
    <3> QED BY <2>2, <3>2, EventFacts
  <2>5. ASSUME NEW t \in EventType, Noted(o, PostedEvent(t))
        PROVE  Kept(o)
    BY <2>2, <2>5, EventFacts DEF Noted
  <2>6. ASSUME NEW h \in Handler, ActivatePlan(h), Noted(o, PlanEvent(room[h].plan))
        PROVE  Kept(o)
    <3>1. room[h].plan \in Plan
      BY <2>0, <2>6, StateFields DEF ActivatePlan
    <3> QED BY <2>2, <2>6, <3>1, EventFacts DEF Noted
  <2>7. ASSUME NEW h \in Handler, StatusWritten(o, room[h])
        PROVE  Kept(o)
    <3>1. room[h].from \in Status /\ room[h].to \in Status
      BY <2>0, <2>7, StateFields DEF StatusWritten
    <3> QED BY <2>2, <2>7, <3>1, EventFacts DEF StatusWritten
  <2> QED BY <1>1, <2>0, <2>3, <2>4, <2>5, <2>6, <2>7, RoomSteps, Zenon
<1>2. RoomInvariant /\ [Next]_roomVars => [\A o \in Occurrence : Kept(o)]_roomVars
  BY <1>1, Zenon
<1> QED BY <1>2, RoomInvariantHolds, PTL DEF Spec, TimelineAppendOnly

-----------------------------------------------------------------------------
(* What an activation does to the checklist of its occurrence.             *)
LEMMA Activation ==
  ASSUME TypeOK, NEW h \in Handler, ActivatePlan(h), NEW o \in Occurrence, room[h].occ = o
  PROVE  /\ ItemsOf(o)' = PlanItems(o, room[h].plan, room[h].steps)
         /\ timeline'[o] = Append(timeline[o], PlanEvent(room[h].plan))
         /\ room[h].plan \in Plan /\ room[h].steps \in Nat
<1> DEFINE P == PlanItems(o, room[h].plan, room[h].steps)
<1>0. room[h] \in HandlerState /\ timeline \in [Occurrence -> Seq(Event)]
  BY DEF TypeOK
<1>1. items' = ItemsElsewhere(o) \cup P /\ room[h].op = "plan"
  BY DEF ActivatePlan
<1>2. \A x \in P : x.occ = o
  BY DEF PlanItems
<1>3. timeline'[o] = Append(timeline[o], PlanEvent(room[h].plan))
  BY <1>0 DEF ActivatePlan, Extended
<1>4. ItemsOf(o)' = P
  <2> HIDE DEF P
  <2> QED BY <1>1, <1>2 DEF ItemsOf, ItemsElsewhere
<1> QED BY <1>0, <1>1, <1>3, <1>4, StateFields

(* The items an activation creates: one for each position, with no gap and *)
(* no repetition.                                                          *)
LEMMA PlanItemsNumbered ==
  ASSUME NEW o, NEW p \in Plan, NEW n \in Nat, itemSeq \in Nat
  PROVE  /\ \A x \in PlanItems(o, p, n) : x.from = p /\ x.occ = o /\ x.order \in 0 .. (n - 1)
         /\ \A x, y \in PlanItems(o, p, n) : x.order = y.order => x = y
         /\ \A i \in 0 .. (n - 1) : \E x \in PlanItems(o, p, n) : x.order = i
         /\ \A x \in PlanItems(o, p, n) : x.id > itemSeq
<1> DEFINE f(i) == [id |-> itemSeq + i + 1, occ |-> o, order |-> i, from |-> p, done |-> FALSE]
           P == PlanItems(o, p, n)
           D == 0 .. (n - 1)
<1>1. \A i \in D : /\ f(i).from = p /\ f(i).occ = o /\ f(i).order = i
                   /\ i \in Nat /\ f(i).id > itemSeq
  OBVIOUS
<1>2. P = {f(i) : i \in D}
  BY Zenon DEF PlanItems
<1> HIDE DEF f, P, D
<1>3. \A x \in P : \E i \in D : x = f(i)
  BY <1>2, Zenon
<1>4. \A i \in D : f(i) \in P
  BY <1>2, Zenon
<1>5. \A x \in P : x.from = p /\ x.occ = o /\ x.order \in D /\ x.id > itemSeq /\ x = f(x.order)
  <2> SUFFICES ASSUME NEW x \in P
               PROVE  x.from = p /\ x.occ = o /\ x.order \in D /\ x.id > itemSeq /\ x = f(x.order)
    OBVIOUS
  <2>1. PICK i \in D : x = f(i)
    BY <1>3
  <2>2. x.from = p /\ x.occ = o /\ x.order = i /\ x.id > itemSeq
    BY <1>1, <2>1
  <2> QED BY <2>1, <2>2
<1>6. \A i \in D : \E x \in P : x.order = i
  BY <1>1, <1>4, Zenon
<1>7. \A x, y \in P : x.order = y.order => x = y
  BY <1>5, Zenon
<1> QED BY <1>5, <1>6, <1>7, Zenon DEF P, D

(* Their ids are new.                                                      *)
LEMMA PlanItemsNew ==
  ASSUME NEW o, NEW p \in Plan, NEW n \in Nat, itemSeq \in Nat
  PROVE  \A x \in PlanItems(o, p, n) : x.id > itemSeq
<1>1. \A i \in 0 .. (n - 1) : itemSeq + i + 1 > itemSeq
  OBVIOUS
<1> QED BY <1>1 DEF PlanItems

(* A checklist item that a plan activation removed never comes back, not   *)
(* even through a request that read it before.                             *)
THEOREM RoomNoItemReturns == Spec => NoItemReturns
<1> DEFINE Known(x) == x.id > itemSeq \/ \E y \in items : y.id = x.id
<1>1. ASSUME TypeOK, Next, NEW x \in items'
      PROVE  Known(x)
  <2>0. items \subseteq Item /\ itemSeq \in Nat /\ room \in [Handler -> HandlerState]
    BY <1>1 DEF TypeOK
  <2>1. x \in items => Known(x)
    OBVIOUS
  <2>2. x.id > itemSeq => Known(x)
    OBVIOUS
  <2>3. ASSUME NEW y \in items, y.id = x.id
        PROVE  Known(x)
    BY <2>3
  <2> HIDE DEF Known
  <2>4. UNCHANGED items => Known(x)
    BY <1>1, <2>1
  <2>5. ASSUME NEW h \in Handler, InsertItem(h)
        PROVE  Known(x)
    <3>1. x \in items \/ x.id = itemSeq'
      BY <1>1, <2>5 DEF InsertItem
    <3>2. itemSeq' = itemSeq + 1
      BY <2>5 DEF InsertItem
    <3> QED BY <2>0, <2>1, <2>2, <3>1, <3>2
  <2>6. ASSUME NEW h \in Handler, ActivatePlan(h)
        PROVE  Known(x)
    <3>1. x \in ItemsElsewhere(room[h].occ) \/ x \in PlanItems(room[h].occ, room[h].plan, room[h].steps)
      BY <1>1, <2>6 DEF ActivatePlan
    <3>2. room[h].plan \in Plan /\ room[h].steps \in Nat
      BY <2>0, <2>6, StateFields DEF ActivatePlan
    <3>3. x \in ItemsElsewhere(room[h].occ) => x \in items
      BY DEF ItemsElsewhere
    <3>4. itemSeq \in Nat
      BY <2>0
    <3>5. \A y \in PlanItems(room[h].occ, room[h].plan, room[h].steps) : y.id > itemSeq
      BY <3>2, <3>4, PlanItemsNew, Zenon
    <3>6. x \in PlanItems(room[h].occ, room[h].plan, room[h].steps) => x.id > itemSeq
      BY <3>5, Zenon
    <3> QED BY <2>1, <2>2, <3>1, <3>3, <3>6
  <2>7. ASSUME NEW h \in Handler, TickItem(h)
        PROVE  Known(x)
    <3>1. PICK y \in items :
            x = (IF y.id = room[h].id THEN [y EXCEPT !.done = room[h].done] ELSE y)
      BY <1>1, <2>7, Zenon DEF TickItem, Ticked
    <3>2. x.id = y.id
      BY <2>0, <3>1 DEF Item
    <3> QED BY <2>3, <3>2
  <2>8. ASSUME NEW h \in Handler,
               \/ \E o \in Occurrence, s \in StatusAsked : ReadStatus(h, o, s)
               \/ \E o \in Occurrence, p \in Plan : ReadPlan(h, o, p)
               \/ \E o \in Occurrence : ReadLastOrder(h, o)
               \/ \E y \in items, d \in BOOLEAN : ReadItem(h, y, d)
               \/ AnnounceStatus(h) \/ WriteStatus(h)
        PROVE  UNCHANGED items
    BY <2>8, Zenon DEF ReadStatus, ReadPlan, ReadLastOrder, ReadItem, AnnounceStatus,
         WriteStatus, checklistVars
  <2>9. /\ \A S : Drop(S) => UNCHANGED items
        /\ \A o, s : Open(o, s) => UNCHANGED items
        /\ \A o, t : AddTimelineEvent(o, t) \/ Remove(o) => UNCHANGED items
        /\ \A p, s, n : CreatePlan(p, s, n) \/ UpdatePlan(p, s, n) \/ RemovePlan(p) => UNCHANGED items
    BY Zenon DEF Drop, Open, AddTimelineEvent, Remove, CreatePlan, UpdatePlan, RemovePlan,
         checklistVars
  <2> QED BY <1>1, <2>4, <2>5, <2>6, <2>7, <2>8, <2>9, Zenon DEF Next, RoomStep
<1>2. TypeOK /\ [Next]_roomVars => [\A x \in items' : Known(x)]_roomVars
  BY <1>1, Zenon
<1> QED BY <1>2, RoomTyped, PTL DEF Spec, NoItemReturns

-----------------------------------------------------------------------------
(* Any step but an activation in the occurrence leaves its plan rows and   *)
(* the plan's steps in its checklist, ticks aside.                         *)
PlanRowsKept(o) ==
  /\ PlanRows(o)' = PlanRows(o)
  /\ \A i \in PlanRows(o) : timeline'[o][i] = timeline[o][i]

StepsKept(o) ==
  /\ \A y \in StepsOf(o)' : \E x \in StepsOf(o) : x.order = y.order /\ x.from = y.from
  /\ \A x \in StepsOf(o) : \E y \in StepsOf(o)' : x.order = y.order
  /\ \A y, z \in StepsOf(o)' : y.order = z.order =>
       y = z \/ \E w, x \in StepsOf(o) : w # x /\ w.order = x.order

(* The plan rows: only an activation writes one.                           *)
LEMMA PlanRowsSteps ==
  ASSUME TypeOK, OpenedFirst, Next, NEW o \in Occurrence
  PROVE  PlanRowsKept(o) \/ \E h \in Handler : ActivatePlan(h) /\ room[h].occ = o
<1>0. timeline[o] \in Seq(Event) /\ room \in [Handler -> HandlerState]
  BY DEF TypeOK
<1>1. /\ PlanRows(o) = Rows(timeline[o], "plan")
      /\ PlanRows(o)' = Rows(timeline'[o], "plan")
  BY Zenon DEF PlanRows, Rows
<1>2. timeline'[o] = timeline[o] => PlanRowsKept(o)
  BY <1>1, Zenon DEF PlanRowsKept
<1>3. ASSUME NEW e \in Event, e.event # "plan", timeline'[o] = Append(timeline[o], e)
      PROVE  PlanRowsKept(o)
  <2>1. /\ Rows(Append(timeline[o], e), "plan") = Rows(timeline[o], "plan")
        /\ \A i \in Rows(timeline[o], "plan") : Append(timeline[o], e)[i] = timeline[o][i]
    BY <1>0, <1>3, RowsOfAppend, Zenon
  <2> QED BY <1>1, <1>3, <2>1, Zenon DEF PlanRowsKept
<1>4. ASSUME NEW s \in OpenedAs, Open(o, s)
      PROVE  PlanRowsKept(o)
  <2>1. timeline[o] = <<>> /\ timeline'[o] = <<Opening>>
    BY <1>4, Zenon DEF Open, OpenedFirst, TypeOK
  <2>2. timeline'[o] = Append(timeline[o], Opening) /\ Opening \in Event /\ Opening.event # "plan"
    BY <2>1, EventFacts
  <2> QED BY <1>3, <2>2
<1>5. Untouched(o) => PlanRowsKept(o)
  BY <1>2, Zenon DEF Untouched
<1>6. ASSUME NEW t \in EventType, Noted(o, PostedEvent(t))
      PROVE  PlanRowsKept(o)
  <2>1. PostedEvent(t) \in Event /\ PostedEvent(t).event # "plan"
    BY EventFacts
  <2> QED BY <1>3, <1>6, <2>1, Zenon DEF Noted
<1>7. ASSUME NEW h \in Handler, StatusWritten(o, room[h])
      PROVE  PlanRowsKept(o)
  <2> DEFINE e == StatusEvent(room[h].from, room[h].to)
  <2>1. room[h].from \in Status /\ room[h].to \in Status /\ timeline'[o] = Append(timeline[o], e)
    BY <1>0, <1>7, StateFields DEF StatusWritten
  <2>2. e \in Event /\ e.event # "plan"
    BY <2>1, EventFacts
  <2> HIDE DEF e
  <2> QED BY <1>3, <2>1, <2>2
<1>8. ASSUME NEW s \in OpenedAs, Open(o, s)
      PROVE  PlanRowsKept(o)
  BY <1>4, <1>8
<1> QED BY <1>5, <1>6, <1>7, <1>8, RoomSteps, Zenon

(* The plan's steps: only an activation brings or takes one.               *)
LEMMA StepsSteps ==
  ASSUME TypeOK, Next, TypeOK', NEW o \in Occurrence
  PROVE  StepsKept(o) \/ \E h \in Handler : ActivatePlan(h) /\ room[h].occ = o
<1>0. ItemsOf(o) \subseteq Item
  BY DEF TypeOK, ItemsOf
<1>1. StepsOf(o)' = StepsOf(o) => StepsKept(o)
  BY Zenon DEF StepsKept
<1>2. CASE ItemsOf(o)' = ItemsOf(o)
  BY <1>1, <1>2 DEF StepsOf
<1>3. ASSUME NEW x \in Item, x.from = NoPlan, ItemsOf(o)' = ItemsOf(o) \cup {x}
      PROVE  StepsKept(o)
  BY <1>1, <1>3 DEF StepsOf
<1>4. ASSUME NEW id \in Nat, NEW d \in BOOLEAN, ItemsOf(o)' = WithTick(o, id, d)
      PROVE  StepsKept(o)
  <2> DEFINE f(x) == IF x.id = id THEN [x EXCEPT !.done = d] ELSE x
  <2>1. \A x \in ItemsOf(o) : f(x).order = x.order /\ f(x).from = x.from
    BY <1>0 DEF Item
  <2>2. ItemsOf(o)' = {f(x) : x \in ItemsOf(o)}
    BY <1>4, Zenon DEF WithTick
  <2> HIDE DEF f
  <2>3. \A y \in StepsOf(o)' : \E x \in StepsOf(o) : y = f(x)
    <3>1. \A y \in ItemsOf(o)' : \E x \in ItemsOf(o) : y = f(x)
      BY <2>2, Zenon
    <3> QED BY <2>1, <3>1, Zenon DEF StepsOf
  <2>4. \A x \in StepsOf(o) : f(x) \in StepsOf(o)'
    <3>1. \A x \in ItemsOf(o) : f(x) \in ItemsOf(o)'
      BY <2>2, Zenon
    <3> QED BY <2>1, <3>1, Zenon DEF StepsOf
  <2>5. \A x \in StepsOf(o) : x \in ItemsOf(o)
    BY Zenon DEF StepsOf
  <2>6. \A y \in StepsOf(o)' : \E x \in StepsOf(o) :
          y = f(x) /\ x.order = y.order /\ x.from = y.from
    BY <2>1, <2>3, <2>5, Zenon
  <2>7. \A x \in StepsOf(o) : \E y \in StepsOf(o)' : x.order = y.order
    BY <2>1, <2>4, <2>5, Zenon
  <2>8. ASSUME NEW y \in StepsOf(o)', NEW z \in StepsOf(o)', y.order = z.order
        PROVE  y = z \/ \E w, x \in StepsOf(o) : w # x /\ w.order = x.order
    <3>1. PICK w \in StepsOf(o) : y = f(w) /\ w.order = y.order
      BY <2>6
    <3>2. PICK x \in StepsOf(o) : z = f(x) /\ x.order = z.order
      BY <2>6
    <3> QED BY <2>8, <3>1, <3>2
  <2> QED BY <2>6, <2>7, <2>8, Zenon DEF StepsKept
<1> QED BY <1>2, <1>3, <1>4, ItemSteps, Zenon

(* An activation leaves a full checklist of its plan, and tells it last;   *)
(* any other step keeps what the last activation left.                     *)
LEMMA ChecklistStep ==
  ASSUME TypeOK, OpenedFirst, ChecklistInvariant, Next, TypeOK'
  PROVE  ChecklistInvariant'
<1> SUFFICES ASSUME NEW o \in Occurrence
             PROVE  Numbered(o)' /\ LastPlan(o)'
  BY Zenon DEF ChecklistInvariant
<1>0. Numbered(o) /\ LastPlan(o)
  BY DEF ChecklistInvariant
<1>1. CASE StepsKept(o) /\ PlanRowsKept(o)
  <2>1. PICK n \in Nat : {x.order : x \in StepsOf(o)} = 0 .. (n - 1)
    BY <1>0 DEF Numbered
  <2>2. {x.order : x \in StepsOf(o)'} = {x.order : x \in StepsOf(o)}
    <3> DEFINE A == {x.order : x \in StepsOf(o)}
               B == {x.order : x \in StepsOf(o)'}
    <3>1. \A v : v \in A <=> \E x \in StepsOf(o) : v = x.order
      BY Zenon
    <3>2. \A v : v \in B <=> \E x \in StepsOf(o)' : v = x.order
      BY Zenon
    <3> HIDE DEF A, B
    <3>3. \A v : v \in A <=> v \in B
      <4>1. \A x \in StepsOf(o) : \E y \in StepsOf(o)' : x.order = y.order
        BY <1>1, Zenon DEF StepsKept
      <4>2. \A y \in StepsOf(o)' : \E x \in StepsOf(o) : x.order = y.order
        BY <1>1, Zenon DEF StepsKept
      <4> QED BY <3>1, <3>2, <4>1, <4>2
    <3>4. A = B
      BY <3>3
    <3> QED BY <3>4, Zenon DEF A, B
  <2>3. \A y, z \in StepsOf(o)' : y.order = z.order => y = z
    BY <1>0, <1>1, Zenon DEF StepsKept, Numbered
  <2>4. Numbered(o)'
    BY <2>1, <2>2, <2>3, Zenon DEF Numbered
  <2>5. LastPlan(o)'
    <3> SUFFICES ASSUME NEW y \in StepsOf(o)'
                 PROVE  \E i \in PlanRows(o)' : /\ \A j \in PlanRows(o)' : j <= i
                                                /\ timeline'[o][i].plan = y.from
      BY Zenon DEF LastPlan
    <3>1. PICK x \in StepsOf(o) : x.from = y.from
      BY <1>1, Zenon DEF StepsKept
    <3>2. PICK i \in PlanRows(o) : (\A j \in PlanRows(o) : j <= i) /\ timeline[o][i].plan = x.from
      BY <1>0, Zenon DEF LastPlan
    <3> QED BY <1>1, <3>1, <3>2, Zenon DEF PlanRowsKept
  <2> QED BY <2>4, <2>5
<1>2. ASSUME NEW h \in Handler, ActivatePlan(h), room[h].occ = o
      PROVE  Numbered(o)' /\ LastPlan(o)'
  <2> DEFINE p == room[h].plan
             n == room[h].steps
             P == PlanItems(o, p, n)
             t == timeline[o]
             e == PlanEvent(p)
  <2>1. /\ ItemsOf(o)' = P /\ timeline'[o] = Append(t, e)
        /\ p \in Plan /\ n \in Nat /\ itemSeq \in Nat /\ t \in Seq(Event)
    BY <1>2, Activation DEF TypeOK
  <2>2. e \in Event /\ e.event = "plan" /\ e.plan = p
    BY <2>1, EventFacts
  <2>3. /\ \A x \in P : x.from = p /\ x.order \in 0 .. (n - 1)
        /\ \A x, y \in P : x.order = y.order => x = y
        /\ \A i \in 0 .. (n - 1) : \E x \in P : x.order = i
    BY <2>1, PlanItemsNumbered
  <2>4. p # NoPlan
    BY <2>1, RoomAssumption
  <2> HIDE DEF p, n, P, e, t
  <2>5. StepsOf(o)' = P
    BY <2>1, <2>3, <2>4 DEF StepsOf
  <2>6. Numbered(o)'
    <3>1. {x.order : x \in P} = 0 .. (n - 1)
      <4> DEFINE A == {x.order : x \in P}
                 D == 0 .. (n - 1)
      <4>1. \A v : v \in A <=> \E x \in P : v = x.order
        BY Zenon
      <4>2. (\A x \in P : x.order \in D) /\ (\A i \in D : \E x \in P : x.order = i)
        BY <2>3
      <4> HIDE DEF A, D
      <4>3. \A v : v \in A <=> v \in D
        BY <4>1, <4>2, Zenon
      <4>4. A = D
        BY <4>3
      <4> QED BY <4>4, Zenon DEF A, D
    <3> QED BY <2>1, <2>3, <2>5, <3>1, Zenon DEF Numbered
  <2>7. LastPlan(o)'
    <3>1. PlanRows(o)' = Rows(timeline'[o], "plan")
      BY Zenon DEF PlanRows, Rows
    <3>2. /\ Rows(Append(t, e), "plan") = Rows(t, "plan") \cup {Len(t) + 1}
          /\ \A i \in Rows(t, "plan") : i < Len(t) + 1
      <4>1. t \in Seq(Event)
        BY <2>1
      <4>2. e \in Event /\ e.event = "plan"
        BY <2>2
      <4> QED BY <4>1, <4>2, RowsOfAppend, Zenon
    <3>3. Append(t, e)[Len(t) + 1] = e /\ Len(t) + 1 \in Nat /\ Rows(t, "plan") \subseteq Nat
      BY <2>1, <2>2, AppendDomain, RowsNumbered
    <3>4. \A j \in Rows(t, "plan") \cup {Len(t) + 1} : j <= Len(t) + 1
      BY <3>2, <3>3
    <3>5. /\ Len(t) + 1 \in PlanRows(o)'
          /\ \A j \in PlanRows(o)' : j <= Len(t) + 1
          /\ timeline'[o][Len(t) + 1].plan = p
      BY <2>1, <2>2, <3>1, <3>2, <3>3, <3>4
    <3> DEFINE m == Len(t) + 1
    <3> HIDE DEF m
    <3>6. \A y \in StepsOf(o)' : \E i \in PlanRows(o)' : /\ \A j \in PlanRows(o)' : j <= i
                                                         /\ timeline'[o][i].plan = y.from
      BY <2>3, <2>5, <3>5, Zenon
    <3> QED BY <3>6, Zenon DEF LastPlan
  <2> QED BY <2>6, <2>7
<1> QED BY <1>1, <1>2, PlanRowsSteps, StepsSteps, Zenon

(* Typing with the invariants of the rows, of the status and of the        *)
(* checklist.                                                              *)
LEMMA ChecklistInvariantHolds == Spec => []ChecklistInvariant
<1>1. Init => ChecklistInvariant
  <2> SUFFICES ASSUME Init, NEW o \in Occurrence
               PROVE  Numbered(o) /\ LastPlan(o)
    BY DEF ChecklistInvariant
  <2>1. StepsOf(o) = {}
    BY DEF Init, StepsOf, ItemsOf
  <2>2. {x.order : x \in StepsOf(o)} = {}
    BY <2>1
  <2>3. 0 .. (0 - 1) = {} /\ 0 \in Nat
    OBVIOUS
  <2> QED BY <2>1, <2>2, <2>3, Zenon DEF Numbered, LastPlan
<1>2. ChecklistInvariant /\ [Next]_roomVars /\ RoomInvariant /\ RoomInvariant' => ChecklistInvariant'
  <2> SUFFICES ASSUME ChecklistInvariant, [Next]_roomVars, RoomInvariant, RoomInvariant'
               PROVE  ChecklistInvariant'
    OBVIOUS
  <2>1. CASE Next
    BY <2>1, ChecklistStep DEF RoomInvariant, StatusInvariant
  <2>2. CASE UNCHANGED roomVars
    <3>1. UNCHANGED <<items, timeline>>
      BY <2>2 DEF roomVars, occurrenceVars, checklistVars
    <3>2. \A o \in Occurrence : StepsOf(o)' = StepsOf(o) /\ PlanRows(o)' = PlanRows(o)
      BY <3>1 DEF StepsOf, ItemsOf, PlanRows
    <3>3. \A o \in Occurrence : Numbered(o) => Numbered(o)'
      BY <3>2, Zenon DEF Numbered
    <3>4. \A o \in Occurrence : LastPlan(o) => LastPlan(o)'
      BY <3>1, <3>2, Zenon DEF LastPlan
    <3> QED BY <3>3, <3>4, Zenon DEF ChecklistInvariant
  <2> QED BY <2>1, <2>2
<1> QED BY <1>1, <1>2, RoomInvariantHolds, PTL DEF Spec

(* As many steps as positions.                                             *)
LEMMA StepsCounted ==
  ASSUME NEW o, Numbered(o)
  PROVE  {x.order : x \in StepsOf(o)} = 0 .. (Cardinality(StepsOf(o)) - 1)
<1> DEFINE S == StepsOf(o)
<1>1. PICK n \in Nat : {x.order : x \in S} = 0 .. (n - 1)
  BY DEF Numbered
<1> DEFINE D == 0 .. (n - 1)
           f == [x \in S |-> x.order]
<1>2. (\A x \in S : x.order \in D) /\ (\A i \in D : \E x \in S : x.order = i)
  <2> HIDE DEF S
  <2> QED BY <1>1
<1>3. \A x, y \in S : x.order = y.order => x = y
  BY Zenon DEF Numbered
<1>4. IsFiniteSet(D) /\ Cardinality(D) = n
  BY FS_Interval
<1>5. f \in Injection(S, D) /\ f \in Surjection(S, D)
  <2> HIDE DEF S, D
  <2> QED BY <1>2, <1>3 DEF Injection, Surjection, IsInjective
<1>6. Cardinality(S) = Cardinality(D)
  <2> HIDE DEF S, D, f
  <2> QED BY <1>4, <1>5, FS_Injection
<1> QED BY <1>1, <1>4, <1>6

(* The plan steps in a checklist are those of one plan, the last one its   *)
(* timeline says was activated, from position 0 on with no gap.            *)
THEOREM RoomChecklistFromLastPlan == Spec => []ChecklistFromLastPlan
<1>1. ChecklistInvariant => ChecklistFromLastPlan
  <2> SUFFICES ASSUME NEW o \in Occurrence, Numbered(o), LastPlan(o)
               PROVE  /\ \A x \in StepsOf(o) : \E i \in PlanRows(o) :
                           /\ \A j \in PlanRows(o) : j <= i
                           /\ timeline[o][i].plan = x.from
                      /\ {x.order : x \in StepsOf(o)} = 0 .. (Cardinality(StepsOf(o)) - 1)
    BY Zenon DEF ChecklistInvariant, ChecklistFromLastPlan, StepsOf
  <2> QED BY StepsCounted, Zenon DEF LastPlan
<1> QED BY <1>1, ChecklistInvariantHolds, PTL

-----------------------------------------------------------------------------
(* Positions.  The last one is read in one statement and used in another,  *)
(* so two items may come to share a position, or an item may take one of a *)
(* plan activated meanwhile.  That is the only way: as long as a request   *)
(* that adds an item overlaps no other one that adds items to the same     *)
(* checklist, by typing or by a plan, all positions differ.                *)
ItemsAlone ==
  \A g, h \in Handler :
    room[g].op = "item" /\ room[h].op \in {"item", "plan"} /\ room[g].occ = room[h].occ => g = h

PositionsApart ==
  \A o \in Occurrence : \A x, y \in ItemsOf(o) : x.order = y.order => x = y

(* A position about to be used comes after all there are.                  *)
LastRead ==
  \A h \in Handler : room[h].op = "item" =>
    \A x \in ItemsOf(room[h].occ) : x.order < room[h].order

(* A request that is to add an item was there before, or has just read.    *)
LEMMA ItemRequests ==
  ASSUME TypeOK, Next, NEW h \in Handler, room'[h].op = "item"
  PROVE  room'[h] = room[h] \/ \E o \in Occurrence : ReadLastOrder(h, o)
<1>0. room \in [Handler -> HandlerState]
  BY DEF TypeOK
<1>1. ASSUME NEW g \in Handler, NEW s, Become(g, s), s.op # "item"
      PROVE  room'[h] = room[h]
  BY <1>0, <1>1 DEF Become
<1>2. Idle.op # "item"
  BY DEF Idle
<1>3. ASSUME NEW g \in Handler, NEW o \in Occurrence, ReadLastOrder(g, o)
      PROVE  room'[h] = room[h] \/ ReadLastOrder(h, o)
  <2>1. CASE g = h
    BY <1>3, <2>1
  <2>2. CASE g # h
    BY <1>0, <1>3, <2>2 DEF ReadLastOrder, Become
  <2> QED BY <2>1, <2>2
<1>4. ASSUME NEW g \in Handler,
             \/ \E o \in Occurrence, s \in StatusAsked : ReadStatus(g, o, s)
             \/ \E o \in Occurrence, p \in Plan : ReadPlan(g, o, p)
             \/ \E x \in items, d \in BOOLEAN : ReadItem(g, x, d)
             \/ WriteStatus(g)
      PROVE  room'[h] = room[h]
  <2>1. \E s : Become(g, s) /\ s.op # "item"
    <3>1. /\ \A o, a, b : [op |-> "status", occ |-> o, from |-> a, to |-> b].op # "item"
          /\ \A o, b : [op |-> "announce", occ |-> o, to |-> b].op # "item"
          /\ \A o, p, n : [op |-> "plan", occ |-> o, plan |-> p, steps |-> n].op # "item"
          /\ \A o, i, d : [op |-> "tick", occ |-> o, id |-> i, done |-> d].op # "item"
      OBVIOUS
    <3>2. \/ \E o, a, b : Become(g, [op |-> "status", occ |-> o, from |-> a, to |-> b])
          \/ \E o, b : Become(g, [op |-> "announce", occ |-> o, to |-> b])
          \/ \E o, p, n : Become(g, [op |-> "plan", occ |-> o, plan |-> p, steps |-> n])
          \/ \E o, i, d : Become(g, [op |-> "tick", occ |-> o, id |-> i, done |-> d])
      BY <1>4, Zenon DEF ReadStatus, ReadPlan, ReadItem, WriteStatus
    <3> QED BY <3>1, <3>2, Zenon
  <2> QED BY <1>1, <2>1
<1>5. \A g \in Handler : AnnounceStatus(g) \/ ActivatePlan(g) \/ InsertItem(g) \/ TickItem(g)
        => Become(g, Idle)
  BY Zenon DEF AnnounceStatus, ActivatePlan, InsertItem, TickItem
<1>6. \A S : Drop(S) => room'[h] = room[h] \/ room'[h] = Idle
  BY DEF Drop
<1>7. /\ \A o, s : Open(o, s) => UNCHANGED room
      /\ \A o, t : AddTimelineEvent(o, t) \/ Remove(o) => UNCHANGED room
      /\ \A p, s, n : CreatePlan(p, s, n) \/ UpdatePlan(p, s, n) \/ RemovePlan(p) => UNCHANGED room
  BY Zenon DEF Open, AddTimelineEvent, Remove, CreatePlan, UpdatePlan, RemovePlan
<1>8. room' = room => room'[h] = room[h]
  OBVIOUS
<1> QED BY <1>1, <1>2, <1>3, <1>4, <1>5, <1>6, <1>7, <1>8, Zenon DEF Next, RoomStep

(* A tick moves no item.                                                   *)
LEMMA TickKeepsOrders ==
  ASSUME TypeOK, NEW o \in Occurrence, NEW id \in Nat, NEW d \in BOOLEAN,
         ItemsOf(o)' = WithTick(o, id, d)
  PROVE  /\ \A y \in ItemsOf(o)' : \E x \in ItemsOf(o) :
              y.order = x.order /\ y = IF x.id = id THEN [x EXCEPT !.done = d] ELSE x
<1>1. \A x \in ItemsOf(o) : (IF x.id = id THEN [x EXCEPT !.done = d] ELSE x).order = x.order
  BY DEF TypeOK, ItemsOf, Item
<1> DEFINE f(x) == IF x.id = id THEN [x EXCEPT !.done = d] ELSE x
<1>2. ItemsOf(o)' = {f(x) : x \in ItemsOf(o)}
  BY Zenon DEF WithTick
<1>3. \A x \in ItemsOf(o) : f(x).order = x.order
  BY <1>1
<1> HIDE DEF f
<1>4. \A y \in ItemsOf(o)' : \E x \in ItemsOf(o) : y.order = x.order /\ y = f(x)
  BY <1>2, <1>3
<1> QED BY <1>4, Zenon DEF f

LEMMA PositionsStep ==
  ASSUME TypeOK, OrdersCounted, TypeOK', ItemsAlone, PositionsApart, LastRead, Next
  PROVE  PositionsApart' /\ LastRead'
<1>0. room \in [Handler -> HandlerState] /\ items \subseteq Item /\ itemSeq \in Nat
  BY DEF TypeOK
<1>1. ASSUME NEW o \in Occurrence
      PROVE  \A x, y \in ItemsOf(o)' : x.order = y.order => x = y
  <2>0. \A x, y \in ItemsOf(o) : x.order = y.order => x = y
    BY <1>1 DEF PositionsApart
  <2>1. ASSUME NEW h \in Handler, NEW x \in Item, room[h].op = "item", room[h].occ = o,
               x.order = room[h].order, ItemsOf(o)' = ItemsOf(o) \cup {x}
        PROVE  \A y, z \in ItemsOf(o)' : y.order = z.order => y = z
    <3>1. \A y \in ItemsOf(o) : y.order \in Nat /\ y.order < x.order
      BY <1>0, <2>1 DEF LastRead, ItemsOf, Item
    <3>2. x.order \in Nat
      BY DEF Item
    <3> QED BY <2>0, <2>1, <3>1, <3>2
  <2>2. ASSUME NEW h \in Handler, ActivatePlan(h), room[h].op = "plan", room[h].occ = o,
               ItemsOf(o)' = PlanItems(o, room[h].plan, room[h].steps)
        PROVE  \A y, z \in ItemsOf(o)' : y.order = z.order => y = z
    <3>1. room[h].plan \in Plan /\ room[h].steps \in Nat
      BY <1>0, <2>2, StateFields
    <3> DEFINE P == PlanItems(o, room[h].plan, room[h].steps)
    <3>2. \A y, z \in P : y.order = z.order => y = z
      BY <1>0, <3>1, PlanItemsNumbered
    <3> HIDE DEF P
    <3> QED BY <2>2, <3>2 DEF P
  <2>3. ASSUME NEW id \in Nat, NEW d \in BOOLEAN, ItemsOf(o)' = WithTick(o, id, d)
        PROVE  \A y, z \in ItemsOf(o)' : y.order = z.order => y = z
    <3> SUFFICES ASSUME NEW y \in ItemsOf(o)', NEW z \in ItemsOf(o)', y.order = z.order
                 PROVE  y = z
      OBVIOUS
    <3> DEFINE f(x) == IF x.id = id THEN [x EXCEPT !.done = d] ELSE x
    <3>1. \A v \in ItemsOf(o)' : \E x \in ItemsOf(o) : v.order = x.order /\ v = f(x)
      BY <1>1, <2>3, TickKeepsOrders
    <3> HIDE DEF f
    <3>2. PICK u \in ItemsOf(o) : y.order = u.order /\ y = f(u)
      BY <3>1
    <3>3. PICK v \in ItemsOf(o) : z.order = v.order /\ z = f(v)
      BY <3>1
    <3>4. u = v
      BY <2>0, <3>2, <3>3
    <3> QED BY <3>2, <3>3, <3>4
  <2>4. ItemsOf(o)' = ItemsOf(o) => \A y, z \in ItemsOf(o)' : y.order = z.order => y = z
    BY <2>0
  <2> QED BY <2>1, <2>2, <2>3, <2>4, ItemSteps, Zenon
<1>2. ASSUME NEW h \in Handler, room'[h].op = "item"
      PROVE  \A x \in ItemsOf(room[h].occ)' : x.order < room'[h].order
  <2>0. \A x : x \in ItemsOf(room[h].occ)' <=> x \in items' /\ x.occ = room'[h].occ
    BY Zenon DEF ItemsOf
  <2>1. ASSUME NEW o \in Occurrence, ReadLastOrder(h, o)
        PROVE  \A x \in ItemsOf(room[h].occ)' : x.order < room'[h].order
    <3> DEFINE last == CHOOSE n \in {x.order : x \in ItemsOf(o)} : \A x \in ItemsOf(o) : x.order <= n
               v == IF ItemsOf(o) = {} THEN 0 ELSE 1 + last
    <3>1. ItemsOf(o) # {} => last \in Nat /\ \A x \in ItemsOf(o) : x.order <= last
      BY NextOrder
    <3>2. room' = [room EXCEPT ![h] = [op |-> "item", occ |-> o, order |-> v]] /\ UNCHANGED items
      BY <2>1, Zenon DEF ReadLastOrder, Become, checklistVars
    <3>3. \A x \in ItemsOf(o) : x.order \in Nat
      BY <1>0 DEF ItemsOf, Item
    <3> HIDE DEF last
    <3>4. \A x \in ItemsOf(o) : x.order < v
      BY <3>1, <3>3
    <3> HIDE DEF v
    <3>5. room'[h].occ = o /\ room'[h].order = v
      BY <1>0, <3>2
    <3>6. \A x : x \in ItemsOf(o) <=> x \in items /\ x.occ = o
      BY Zenon DEF ItemsOf
    <3>7. \A x \in ItemsOf(room[h].occ)' : x \in ItemsOf(o)
      BY <2>0, <3>2, <3>5, <3>6
    <3> QED BY <3>4, <3>5, <3>7
  <2>2. ASSUME room'[h] = room[h]
        PROVE  \A x \in ItemsOf(room[h].occ)' : x.order < room'[h].order
    <3>1. PICK o \in Occurrence : o = room[h].occ
      <4>1. room[h] # Idle
        BY <1>2, <2>2 DEF Idle
      <4> QED BY <1>0, <4>1, StateFields
    <3>2. room[h].op = "item" /\ \A x \in ItemsOf(o) : x.order < room[h].order
      BY <1>2, <2>2, <3>1 DEF LastRead
    <3>3. ASSUME NEW g \in Handler, room[g].op \in {"item", "plan"}, room[g].occ = o
          PROVE  g = h
      BY <3>1, <3>2, <3>3 DEF ItemsAlone
    <3>4. room'[h] # Idle /\ room[h].op # "plan"
      BY <1>2, <3>2 DEF Idle
    <3>5. \/ ItemsOf(o)' = ItemsOf(o)
          \/ \E id \in Nat, d \in BOOLEAN : ItemsOf(o)' = WithTick(o, id, d)
      BY <3>3, <3>4, ItemSteps
    <3>6. \A x \in ItemsOf(o)' : x.order < room[h].order
      <4>1. CASE ItemsOf(o)' = ItemsOf(o)
        BY <3>2, <4>1
      <4>2. ASSUME NEW id \in Nat, NEW d \in BOOLEAN, ItemsOf(o)' = WithTick(o, id, d)
            PROVE  \A x \in ItemsOf(o)' : x.order < room[h].order
        <5>1. \A y \in ItemsOf(o)' : \E x \in ItemsOf(o) : y.order = x.order
          BY <4>2, TickKeepsOrders
        <5> QED BY <3>2, <5>1
      <4> QED BY <3>5, <4>1, <4>2
    <3>7. \A x : x \in ItemsOf(o)' <=> x \in items' /\ x.occ = o
      BY Zenon DEF ItemsOf
    <3> QED BY <2>0, <2>2, <3>1, <3>6, <3>7
  <2> QED BY <1>2, <2>1, <2>2, ItemRequests
<1> QED BY <1>1, <1>2 DEF PositionsApart, LastRead

(* Two items of a checklist never share a position, in every behaviour in  *)
(* which requests that add items to one checklist do not overlap, whatever *)
(* else is ticked, edited, dropped or activated in between                 *)
(* (addChecklistItem, activatePlan).                                       *)
THEOREM RoomPositionsApart == Spec /\ []ItemsAlone => []PositionsApart
<1>1. Init => PositionsApart /\ LastRead
  BY DEF Init, PositionsApart, LastRead, ItemsOf, Idle
<1>2. ASSUME TypeOK, OrdersCounted, TypeOK', ItemsAlone, PositionsApart, LastRead, [Next]_roomVars
      PROVE  PositionsApart' /\ LastRead'
  <2>1. CASE Next
    BY <1>2, <2>1, PositionsStep
  <2>2. CASE UNCHANGED roomVars
    <3>1. UNCHANGED <<items, room>>
      BY <2>2 DEF roomVars, checklistVars
    <3> QED BY <1>2, <3>1 DEF PositionsApart, LastRead, ItemsOf
  <2> QED BY <1>2, <2>1, <2>2
<1> QED BY <1>1, <1>2, TypedAndCounted, PTL DEF Spec
-----------------------------------------------------------------------------
(* What sockets were told of a status, what requests are about to tell,    *)
(* and what the timeline tells.                                            *)
SentNews(o, s)    == {i \in DOMAIN statusNews[o] : statusNews[o][i] = s}
Announcing(o, s)  == {h \in Handler : room[h].op = "announce" /\ room[h].occ = o
                                                             /\ room[h].to = s}
WrittenRows(o, s) == {i \in StatusRows(o) : timeline[o][i].to = s}

(* All three are finite.                                                   *)
LEMMA NewsFinite ==
  ASSUME TypeOK, NEW o \in Occurrence, NEW s
  PROVE  /\ IsFiniteSet(SentNews(o, s))
         /\ IsFiniteSet(Announcing(o, s))
         /\ IsFiniteSet(WrittenRows(o, s))
<1>1. /\ statusNews[o] \in Seq(Status) /\ timeline[o] \in Seq(Event)
  BY DEF TypeOK
<1>2. IsFiniteSet(DOMAIN statusNews[o]) /\ IsFiniteSet(DOMAIN timeline[o])
  <2>1. /\ DOMAIN statusNews[o] = 1 .. Len(statusNews[o]) /\ Len(statusNews[o]) \in Int
        /\ DOMAIN timeline[o] = 1 .. Len(timeline[o]) /\ Len(timeline[o]) \in Int
    BY <1>1
  <2> DEFINE m == Len(statusNews[o])
             n == Len(timeline[o])
  <2> HIDE DEF m, n
  <2>2. \A k \in Int : IsFiniteSet(1 .. k)
    BY FS_Interval
  <2> QED BY <2>1, <2>2
<1>3. IsFiniteSet(Handler)
  BY RoomAssumption
<1>4. /\ SentNews(o, s) \in SUBSET DOMAIN statusNews[o]
      /\ Announcing(o, s) \in SUBSET Handler
      /\ WrittenRows(o, s) \in SUBSET DOMAIN timeline[o]
  BY Zenon DEF SentNews, Announcing, WrittenRows, StatusRows
<1> QED BY <1>2, <1>3, <1>4, FS_Subset

NewsAreFinite == \A o \in Occurrence, s \in Status : /\ IsFiniteSet(SentNews(o, s))
                                                     /\ IsFiniteSet(Announcing(o, s))
                                                     /\ IsFiniteSet(WrittenRows(o, s))

(* So they are after every step.                                           *)
LEMMA NewsFiniteNext == TypeOK' => NewsAreFinite'
<1>1. TypeOK => NewsAreFinite
  BY NewsFinite DEF NewsAreFinite
<1> QED BY <1>1, PTL

(* No step takes a row away.                                               *)
LEMMA WrittenStay ==
  ASSUME TypeOK, OpenedFirst, Next, NEW o \in Occurrence, NEW s
  PROVE  WrittenRows(o, s) \subseteq WrittenRows(o, s)'
<1>1. \A i \in StatusRows(o) : i \in StatusRows(o)' /\ timeline'[o][i] = timeline[o][i]
  BY StatusRowsSteps, Zenon DEF RowsAsBefore, NewRow
<1> QED BY <1>1, Zenon DEF WrittenRows

(* One more message of a status, or of another.                            *)
LEMMA OneMoreMessage ==
  ASSUME NEW t \in Seq(Status), NEW u \in Status, NEW s
  PROVE  LET N  == {i \in DOMAIN t : t[i] = s}
             N2 == {i \in DOMAIN Append(t, u) : Append(t, u)[i] = s}
         IN  /\ u # s => N2 = N
             /\ u = s => N2 = N \cup {Len(t) + 1} /\ Len(t) + 1 \notin N
OBVIOUS

(* A step writes a row and leaves one request with the news of it; or has  *)
(* one such request send them; or adds no news and no request.             *)
LEMMA NewsSteps ==
  ASSUME TypeOK, OpenedFirst, Next, NEW o \in Occurrence, NEW s \in Status
  PROVE  \/ SentNews(o, s)' = SentNews(o, s) /\ Announcing(o, s)' \subseteq Announcing(o, s)
         \/ /\ SentNews(o, s)' = SentNews(o, s)
            /\ \E h \in Handler : Announcing(o, s)' \subseteq Announcing(o, s) \cup {h}
            /\ \E n : n \notin WrittenRows(o, s) /\ n \in WrittenRows(o, s)'
         \/ \E h \in Handler : \E n :
              /\ SentNews(o, s)' = SentNews(o, s) \cup {n}
              /\ h \in Announcing(o, s) /\ Announcing(o, s)' \subseteq Announcing(o, s) \ {h}
<1> DEFINE Quiet == SentNews(o, s)' = SentNews(o, s) /\ Announcing(o, s)' \subseteq Announcing(o, s)
           Wrote == /\ SentNews(o, s)' = SentNews(o, s)
                    /\ \E h \in Handler : Announcing(o, s)' \subseteq Announcing(o, s) \cup {h}
                    /\ \E n : n \notin WrittenRows(o, s) /\ n \in WrittenRows(o, s)'
           Told1 == \E h \in Handler : \E n :
                      /\ SentNews(o, s)' = SentNews(o, s) \cup {n}
                      /\ h \in Announcing(o, s) /\ Announcing(o, s)' \subseteq Announcing(o, s) \ {h}
<1>0. /\ room \in [Handler -> HandlerState]
      /\ statusNews \in [Occurrence -> Seq(Status)]
      /\ timeline \in [Occurrence -> Seq(Event)]
      /\ status \in [Occurrence -> Status \cup {"unopened"}]
      /\ resolvedAt \in [Occurrence -> BOOLEAN]
  BY DEF TypeOK
<1>1. statusNews'[o] = statusNews[o] => SentNews(o, s)' = SentNews(o, s)
  BY Zenon DEF SentNews
<1>2. ASSUME \A g \in Handler : room'[g] = room[g] \/ room'[g].op # "announce"
      PROVE  Announcing(o, s)' \subseteq Announcing(o, s)
  <2>1. ASSUME NEW g \in Handler, g \in Announcing(o, s)'
        PROVE  g \in Announcing(o, s)
    <3>1. room'[g].op = "announce" /\ room'[g].occ = o /\ room'[g].to = s
      BY <2>1, Zenon DEF Announcing
    <3>2. room'[g] = room[g]
      BY <1>2, <3>1
    <3> QED BY <3>1, <3>2, Zenon DEF Announcing
  <2>2. Announcing(o, s)' \subseteq Handler
    BY Zenon DEF Announcing
  <2> QED BY <2>1, <2>2
<1>3. ASSUME NEW h \in Handler, NEW v, Become(h, v), v.op # "announce", UNCHANGED statusNews
      PROVE  Quiet
  <2>1. \A g \in Handler : room'[g] = room[g] \/ room'[g].op # "announce"
    BY <1>0, <1>3 DEF Become
  <2> QED BY <1>1, <1>2, <1>3, <2>1
<1>4. ASSUME NEW h \in Handler, WriteStatus(h)
      PROVE  Quiet \/ Wrote
  <2>1. /\ room[h].op = "status"
        /\ room' = [room EXCEPT ![h] = [op |-> "announce", occ |-> room[h].occ, to |-> room[h].to]]
        /\ statusNews' = statusNews
    BY <1>4 DEF WriteStatus, Become
  <2>2. \A g \in Handler : g # h => room'[g] = room[g]
    BY <1>0, <2>1
  <2>3. room'[h].occ = room[h].occ /\ room'[h].to = room[h].to
    BY <1>0, <2>1
  <2>4. \A g : g \in Announcing(o, s)' => g \in Announcing(o, s) \/ g = h
    BY <2>2, Zenon DEF Announcing
  <2>5. SentNews(o, s)' = SentNews(o, s)
    BY <1>1, <2>1
  <2>6. CASE room[h].occ = o /\ room[h].to = s
    <3>1. StatusWritten(o, room[h])
      BY <1>0, <1>4, <2>6 DEF WriteStatus, Extended, NewStatus, ResolvedNow, StatusRow, StatusWritten
    <3>2. PICK n \in Nat : NewRow(o, room[h], n)
      BY <3>1, WrittenRow
    <3>3. n \notin StatusRows(o)
      BY <3>2 DEF NewRow
    <3>4. n \notin WrittenRows(o, s)
      BY <3>3, Zenon DEF WrittenRows
    <3>5. n \in WrittenRows(o, s)'
      BY <2>6, <3>2, Zenon DEF NewRow, WrittenRows
    <3>6. Announcing(o, s)' \subseteq Announcing(o, s) \cup {h}
      BY <2>4
    <3> QED BY <2>5, <3>4, <3>5, <3>6
  <2>7. CASE ~ (room[h].occ = o /\ room[h].to = s)
    <3>1. h \notin Announcing(o, s)'
      BY <2>3, <2>7, Zenon DEF Announcing
    <3> QED BY <2>4, <2>5, <3>1
  <2> QED BY <2>6, <2>7
<1>5. ASSUME NEW h \in Handler, AnnounceStatus(h)
      PROVE  Quiet \/ Told1
  <2>1. /\ room[h].op = "announce" /\ Become(h, Idle)
        /\ statusNews' = [statusNews EXCEPT ![room[h].occ] = Append(@, room[h].to)]
    BY <1>5 DEF AnnounceStatus, NewsOf
  <2>2. room[h].to \in Status
    BY <1>0, <2>1, StateFields
  <2>3. \A g \in Handler : room'[g] = room[g] \/ room'[g].op # "announce"
    BY <1>0, <2>1 DEF Become, Idle
  <2>4. Announcing(o, s)' \subseteq Announcing(o, s)
    BY <1>2, <2>3
  <2>5. CASE room[h].occ # o
    BY <1>0, <1>1, <2>1, <2>4, <2>5
  <2>6. CASE room[h].occ = o
    <3> DEFINE t == statusNews[o]
               u == room[h].to
    <3>1. statusNews'[o] = Append(t, u) /\ t \in Seq(Status) /\ u \in Status
      BY <1>0, <2>1, <2>2, <2>6
    <3>2. /\ SentNews(o, s) = {i \in DOMAIN t : t[i] = s}
          /\ SentNews(o, s)' = {i \in DOMAIN Append(t, u) : Append(t, u)[i] = s}
      BY <3>1, Zenon DEF SentNews
    <3>3. CASE u # s
      BY <2>4, <3>1, <3>2, <3>3, OneMoreMessage
    <3>4. CASE u = s
      <4>1. SentNews(o, s)' = SentNews(o, s) \cup {Len(t) + 1}
        BY <3>1, <3>2, <3>4, OneMoreMessage
      <4>2. h \in Announcing(o, s)
        BY <2>1, <2>6, <3>4, Zenon DEF Announcing
      <4>3. h \notin Announcing(o, s)'
        BY <1>0, <2>1 DEF Become, Announcing, Idle
      <4> QED BY <2>4, <4>1, <4>2, <4>3
    <3> QED BY <3>3, <3>4
  <2> QED BY <2>5, <2>6
<1>6. ASSUME NEW S, Drop(S)
      PROVE  Quiet
  <2>1. \A g \in Handler : room'[g] = room[g] \/ room'[g].op # "announce"
    BY <1>6 DEF Drop, Idle
  <2>2. statusNews' = statusNews
    BY <1>6 DEF Drop
  <2> QED BY <1>1, <1>2, <2>1, <2>2
<1>7. ASSUME UNCHANGED <<room, statusNews>>
      PROVE  Quiet
  BY <1>1, <1>2, <1>7
<1>8. ASSUME NEW h \in Handler, ActivatePlan(h) \/ InsertItem(h) \/ TickItem(h)
      PROVE  Quiet
  <2>1. Become(h, Idle) /\ UNCHANGED statusNews
    BY <1>8, Zenon DEF ActivatePlan, InsertItem, TickItem
  <2>2. Idle.op # "announce"
    BY DEF Idle
  <2> QED BY <1>3, <2>1, <2>2
<1>9. ASSUME NEW h \in Handler, NEW x \in Occurrence, NEW a \in StatusAsked, ReadStatus(h, x, a)
      PROVE  Quiet
  <2> DEFINE v == [op |-> "status", occ |-> x, from |-> status[x], to |-> a]
  <2>1. Become(h, v) /\ UNCHANGED statusNews /\ v.op # "announce"
    BY <1>9 DEF ReadStatus
  <2> HIDE DEF v
  <2> QED BY <1>3, <2>1
<1>10. ASSUME NEW h \in Handler, NEW x \in Occurrence, NEW p \in Plan, ReadPlan(h, x, p)
       PROVE  Quiet
  <2> DEFINE v == [op |-> "plan", occ |-> x, plan |-> p, steps |-> plans[p].steps]
  <2>1. Become(h, v) /\ UNCHANGED statusNews /\ v.op # "announce"
    BY <1>10 DEF ReadPlan
  <2> HIDE DEF v
  <2> QED BY <1>3, <2>1
<1>11. ASSUME NEW h \in Handler, NEW x \in Occurrence, ReadLastOrder(h, x)
       PROVE  Quiet
  <2> DEFINE m == IF ItemsOf(x) = {} THEN 0
                  ELSE 1 + CHOOSE n \in {y.order : y \in ItemsOf(x)} :
                             \A y \in ItemsOf(x) : y.order <= n
             v == [op |-> "item", occ |-> x, order |-> m]
  <2>1. Become(h, v) /\ UNCHANGED statusNews
    BY <1>11 DEF ReadLastOrder
  <2> HIDE DEF m
  <2>2. v.op # "announce"
    OBVIOUS
  <2> HIDE DEF v
  <2> QED BY <1>3, <2>1, <2>2
<1>12. ASSUME NEW h \in Handler, NEW x \in items, NEW d \in BOOLEAN, ReadItem(h, x, d)
       PROVE  Quiet
  <2> DEFINE v == [op |-> "tick", occ |-> x.occ, id |-> x.id, done |-> d]
  <2>1. Become(h, v) /\ UNCHANGED statusNews /\ v.op # "announce"
    BY <1>12 DEF ReadItem
  <2> HIDE DEF v
  <2> QED BY <1>3, <2>1
<1>13. /\ \A x, a : Open(x, a) => UNCHANGED <<room, statusNews>>
       /\ \A x, t : AddTimelineEvent(x, t) \/ Remove(x) => UNCHANGED <<room, statusNews>>
       /\ \A p, a, n : CreatePlan(p, a, n) \/ UpdatePlan(p, a, n) \/ RemovePlan(p)
                         => UNCHANGED <<room, statusNews>>
  BY Zenon DEF Open, AddTimelineEvent, Remove, CreatePlan, UpdatePlan, RemovePlan
<1> HIDE DEF Quiet, Wrote, Told1
<1>14. Quiet \/ Wrote \/ Told1
  BY <1>4, <1>5, <1>6, <1>7, <1>8, <1>9, <1>10, <1>11, <1>12, <1>13, Zenon DEF Next, RoomStep
<1> QED BY <1>14, Zenon DEF Quiet, Wrote, Told1

(* A finite set that grows by at most one element.                         *)
LEMMA AtMostOneMore ==
  ASSUME NEW S, IsFiniteSet(S), NEW T, NEW x, T \subseteq S \cup {x}
  PROVE  Cardinality(S) \in Nat /\ Cardinality(T) \in Nat /\ Cardinality(T) <= Cardinality(S) + 1
<1> DEFINE U == S \cup {x}
<1>1. IsFiniteSet(U) /\ Cardinality(U) = IF x \in S THEN Cardinality(S) ELSE Cardinality(S) + 1
  BY FS_AddElement
<1>2. T \in SUBSET U
  OBVIOUS
<1> HIDE DEF U
<1>3. IsFiniteSet(T) /\ Cardinality(T) <= Cardinality(U)
  BY <1>1, <1>2, FS_Subset
<1>4. Cardinality(S) \in Nat /\ Cardinality(T) \in Nat /\ Cardinality(U) \in Nat
  BY <1>1, <1>3, FS_CardinalityType
<1> QED BY <1>1, <1>3, <1>4

(* A finite set within another, that lacks an element of it.               *)
LEMMA OneLess ==
  ASSUME NEW S, IsFiniteSet(S), NEW x \in S, NEW T, T \subseteq S \ {x}
  PROVE  Cardinality(S) \in Nat /\ Cardinality(T) \in Nat /\ Cardinality(T) + 1 <= Cardinality(S)
<1> DEFINE U == S \ {x}
<1>1. IsFiniteSet(U) /\ Cardinality(U) = IF x \in S THEN Cardinality(S) - 1 ELSE Cardinality(S)
  BY FS_RemoveElement
<1>2. T \in SUBSET U
  OBVIOUS
<1> HIDE DEF U
<1>3. IsFiniteSet(T) /\ Cardinality(T) <= Cardinality(U)
  BY <1>1, <1>2, FS_Subset
<1>4. Cardinality(S) \in Nat /\ Cardinality(T) \in Nat /\ Cardinality(U) \in Nat
  BY <1>1, <1>3, FS_CardinalityType
<1> QED BY <1>1, <1>3, <1>4

(* Messages sent and to be sent stay within the rows.                      *)
LEMMA NewsStep ==
  ASSUME TypeOK, OpenedFirst, StatusNewsTrue, Next, TypeOK'
  PROVE  StatusNewsTrue'
<1> SUFFICES ASSUME NEW o \in Occurrence, NEW s \in Status
             PROVE  Cardinality(SentNews(o, s)') + Cardinality(Announcing(o, s)')
                      <= Cardinality(WrittenRows(o, s)')
  BY Zenon DEF StatusNewsTrue, SentNews, Announcing, WrittenRows
<1>1. PICK N, A, R, N2, A2, R2 :
        /\ N = SentNews(o, s) /\ A = Announcing(o, s) /\ R = WrittenRows(o, s)
        /\ N2 = SentNews(o, s)' /\ A2 = Announcing(o, s)' /\ R2 = WrittenRows(o, s)'
  OBVIOUS
<1>2. Cardinality(N) + Cardinality(A) <= Cardinality(R)
  BY <1>1, Zenon DEF StatusNewsTrue, SentNews, Announcing, WrittenRows
<1>3. IsFiniteSet(N) /\ IsFiniteSet(A) /\ IsFiniteSet(R)
  BY <1>1, NewsFinite
<1>4. IsFiniteSet(N2) /\ IsFiniteSet(A2) /\ IsFiniteSet(R2)
  <2>1. /\ IsFiniteSet(SentNews(o, s)')
        /\ IsFiniteSet(Announcing(o, s)')
        /\ IsFiniteSet(WrittenRows(o, s)')
    BY NewsFiniteNext, Zenon DEF NewsAreFinite
  <2> QED BY <1>1, <2>1
<1>5. /\ Cardinality(N) \in Nat /\ Cardinality(A) \in Nat /\ Cardinality(R) \in Nat
      /\ Cardinality(N2) \in Nat /\ Cardinality(A2) \in Nat /\ Cardinality(R2) \in Nat
  BY <1>3, <1>4, FS_CardinalityType
<1>6. R \subseteq R2
  BY <1>1, WrittenStay
<1>7. Cardinality(R) <= Cardinality(R2)
  BY <1>4, <1>6, FS_Subset
<1>8. \/ N2 = N /\ A2 \subseteq A
      \/ N2 = N /\ (\E h : A2 \subseteq A \cup {h}) /\ (\E n : n \notin R /\ n \in R2)
      \/ \E h, n : N2 = N \cup {n} /\ h \in A /\ A2 \subseteq A \ {h}
  BY <1>1, NewsSteps, Zenon
<1>9. CASE N2 = N /\ A2 \subseteq A
  <2>1. Cardinality(A2) <= Cardinality(A)
    BY <1>3, <1>9, FS_Subset
  <2> QED BY <1>1, <1>2, <1>5, <1>7, <1>9, <2>1
<1>10. ASSUME N2 = N, NEW h, A2 \subseteq A \cup {h}, NEW n, n \notin R, n \in R2
       PROVE  Cardinality(N2) + Cardinality(A2) <= Cardinality(R2)
  <2>1. Cardinality(A2) <= Cardinality(A) + 1
    BY <1>3, <1>10, AtMostOneMore
  <2>2. Cardinality(R) + 1 <= Cardinality(R2)
    <3>1. R \subseteq R2 \ {n}
      BY <1>6, <1>10
    <3> QED BY <1>4, <1>10, <3>1, OneLess
  <2> QED BY <1>2, <1>5, <1>10, <2>1, <2>2
<1>11. ASSUME NEW h \in A, NEW n, N2 = N \cup {n}, A2 \subseteq A \ {h}
       PROVE  Cardinality(N2) + Cardinality(A2) <= Cardinality(R2)
  <2>1. Cardinality(N2) <= Cardinality(N) + 1
    <3>1. N2 \subseteq N \cup {n}
      BY <1>11
    <3> QED BY <1>3, <3>1, AtMostOneMore
  <2>2. Cardinality(A2) + 1 <= Cardinality(A)
    BY <1>3, <1>11, OneLess
  <2> QED BY <1>2, <1>5, <1>7, <2>1, <2>2
<1>12. Cardinality(N2) + Cardinality(A2) <= Cardinality(R2)
  BY <1>1, <1>8, <1>9, <1>10, <1>11, Zenon
<1> QED BY <1>1, <1>12, Zenon

(* A socket is never told of a status change that was not written: per     *)
(* status, messages sent and about to be sent are at most the events.      *)
THEOREM RoomStatusNewsTrue == Spec => []StatusNewsTrue
<1>1. Init => StatusNewsTrue
  <2> SUFFICES ASSUME Init, NEW o \in Occurrence, NEW s \in Status
               PROVE  Cardinality(SentNews(o, s)) + Cardinality(Announcing(o, s))
                        <= Cardinality(WrittenRows(o, s))
    BY Zenon DEF StatusNewsTrue, SentNews, Announcing, WrittenRows
  <2>1. statusNews[o] = <<>> /\ timeline[o] = <<>> /\ \A h \in Handler : room[h] = Idle
    BY DEF Init
  <2>2. SentNews(o, s) = {} /\ WrittenRows(o, s) = {}
    BY <2>1 DEF SentNews, WrittenRows, StatusRows
  <2>3. Announcing(o, s) = {}
    BY <2>1 DEF Announcing, Idle
  <2> QED BY <2>2, <2>3, FS_EmptySet
<1>2. StatusNewsTrue /\ [Next]_roomVars /\ RoomInvariant /\ RoomInvariant' => StatusNewsTrue'
  <2> SUFFICES ASSUME StatusNewsTrue, [Next]_roomVars, RoomInvariant, RoomInvariant'
               PROVE  StatusNewsTrue'
    OBVIOUS
  <2>1. CASE Next
    BY <2>1, NewsStep DEF RoomInvariant, StatusInvariant
  <2>2. CASE UNCHANGED roomVars
    <3>1. UNCHANGED <<statusNews, room, timeline>>
      BY <2>2 DEF roomVars, occurrenceVars
    <3> QED BY <3>1, Zenon DEF StatusNewsTrue, StatusRows
  <2> QED BY <2>1, <2>2
<1> QED BY <1>1, <1>2, RoomInvariantHolds, PTL DEF Spec
-----------------------------------------------------------------------------
(* The refinement.  A step leaves the files as they are, or writes one.    *)
(* An event more is an entry more.                                         *)
LEMMA LogExtended ==
  ASSUME NEW o \in Occurrence, NEW e \in Event,
         timeline[o] \in Seq(Event), timeline'[o] = Append(timeline[o], e)
  PROVE  LogOf(o)' = Append(LogOf(o), Entry(e))
<1> DEFINE t == timeline[o]
           E == {Entry(d) : d \in Event}
<1>1. LogOf(o) \in Seq(E) /\ Len(LogOf(o)) = Len(t)
  <2>1. DOMAIN t = 1 .. Len(t) /\ Len(t) \in Nat /\ \A i \in DOMAIN t : t[i] \in Event
    OBVIOUS
  <2>2. LogOf(o) = [i \in 1 .. Len(t) |-> Entry(t[i])]
    BY <2>1 DEF LogOf
  <2>3. \A i \in 1 .. Len(t) : Entry(t[i]) \in E
    BY <2>1
  <2> HIDE DEF t, E
  <2> QED BY <2>1, <2>2, <2>3
<1>2. /\ DOMAIN Append(t, e) = 1 .. (Len(t) + 1) /\ Append(t, e)[Len(t) + 1] = e
      /\ Len(t) \in Nat /\ DOMAIN t = 1 .. Len(t)
      /\ \A i \in 1 .. Len(t) : Append(t, e)[i] = t[i]
  OBVIOUS
<1>3. LogOf(o)' = [i \in 1 .. (Len(t) + 1) |-> Entry(Append(t, e)[i])]
  BY <1>2 DEF LogOf
<1>4. \A i \in 1 .. Len(t) : LogOf(o)[i] = Entry(t[i])
  BY <1>2 DEF LogOf
<1> HIDE DEF t
<1>5. Entry(e) \in E
  OBVIOUS
<1> HIDE DEF E
<1>6. /\ DOMAIN Append(LogOf(o), Entry(e)) = 1 .. (Len(t) + 1)
      /\ Append(LogOf(o), Entry(e))[Len(t) + 1] = Entry(e)
      /\ \A i \in 1 .. Len(t) : Append(LogOf(o), Entry(e))[i] = LogOf(o)[i]
      /\ Append(LogOf(o), Entry(e)) \in Seq(E)
  BY <1>1, <1>2, <1>5
<1>7. \A i \in 1 .. (Len(t) + 1) : Append(LogOf(o), Entry(e))[i] = Entry(Append(t, e)[i])
  <2>1. \A i \in 1 .. (Len(t) + 1) : i \in 1 .. Len(t) \/ i = Len(t) + 1
    BY <1>2
  <2> QED BY <1>2, <1>4, <1>6, <2>1
<1>8. Append(LogOf(o), Entry(e)) = [i \in 1 .. (Len(t) + 1) |-> Append(LogOf(o), Entry(e))[i]]
  <2> DEFINE a == Append(LogOf(o), Entry(e))
  <2>1. a \in Seq(E) /\ DOMAIN a = 1 .. (Len(t) + 1)
    BY <1>6
  <2> HIDE DEF a
  <2>2. a = [i \in DOMAIN a |-> a[i]]
    BY <2>1
  <2> QED BY <2>1, <2>2 DEF a
<1>9. [i \in 1 .. (Len(t) + 1) |-> Append(LogOf(o), Entry(e))[i]]
        = [i \in 1 .. (Len(t) + 1) |-> Entry(Append(t, e)[i])]
  BY <1>7
<1> QED BY <1>3, <1>8, <1>9, Zenon

(* The entries of the four kinds of event.                                 *)
LEMMA Entries ==
  /\ Entry(Opening) = [what |-> "opened"]
  /\ \A t : Entry(PostedEvent(t)) = [what |-> "note", heading |-> t]
  /\ \A p : Entry(PlanEvent(p)) = [what |-> "activated", plan |-> p]
  /\ \A s, t : Entry(StatusEvent(s, t)) = Contract!Moved(t)
BY DEF Entry, Opening, PostedEvent, PlanEvent, StatusEvent, Contract!Moved

(* What users type and tick is not in the file.                            *)
LEMMA StepsUntouched ==
  ASSUME TypeOK, NEW h \in Handler, InsertItem(h) \/ TickItem(h), NEW o \in Occurrence
  PROVE  StepsShown(o)' = StepsShown(o)
<1>0. items \subseteq Item
  BY DEF TypeOK
<1>1. CASE InsertItem(h)
  <2>1. PICK x : x.from = NoPlan /\ items' = items \cup {x}
    <3> DEFINE new == [id |-> itemSeq', occ |-> room[h].occ, order |-> room[h].order,
                       from |-> NoPlan, done |-> FALSE]
    <3>1. new.from = NoPlan /\ items' = items \cup {new}
      BY <1>1 DEF InsertItem
    <3> QED BY <3>1
  <2>2. {y \in ItemsOf(o) : y.from # NoPlan}' = {y \in ItemsOf(o) : y.from # NoPlan}
    BY <2>1 DEF ItemsOf
  <2> QED BY <2>2 DEF StepsShown
<1>2. CASE TickItem(h)
  <2> DEFINE f(x) == IF x.id = room[h].id THEN [x EXCEPT !.done = room[h].done] ELSE x
  <2>1. \A x \in items : f(x).occ = x.occ /\ f(x).from = x.from /\ f(x).order = x.order
    BY <1>0 DEF Item
  <2>2. items' = {f(x) : x \in items}
    BY <1>2, Zenon DEF TickItem, Ticked
  <2> HIDE DEF f
  <2>3. \A v : v \in StepsShown(o) <=> \E x \in items : x.occ = o /\ x.from # NoPlan /\ v = <<x.from, x.order>>
    BY DEF StepsShown, ItemsOf
  <2>4. \A v : v \in StepsShown(o)' <=> \E x \in items' : x.occ = o /\ x.from # NoPlan /\ v = <<x.from, x.order>>
    BY DEF StepsShown, ItemsOf
  <2>5. \A v : v \in StepsShown(o)' <=> v \in StepsShown(o)
    BY <2>1, <2>2, <2>3, <2>4
  <2> QED BY <2>5
<1> QED BY <1>1, <1>2

(* The steps an activation shows.                                          *)
LEMMA StepsReplaced ==
  ASSUME TypeOK, NEW h \in Handler, ActivatePlan(h),
         NEW p, p = room[h].plan, NEW n, n = room[h].steps, NEW o, o = room[h].occ
  PROVE  /\ StepsShown(o)' = {<<p, i>> : i \in 0 .. (n - 1)}
         /\ \A u \in Occurrence : u # o => StepsShown(u)' = StepsShown(u)
<1> DEFINE P == PlanItems(o, p, n)
           D == 0 .. (n - 1)
<1>0. /\ p \in Plan /\ n \in Nat /\ o \in Occurrence /\ itemSeq \in Nat /\ NoPlan \notin Plan
  <2>1. room[h] \in HandlerState /\ room[h].op = "plan" /\ itemSeq \in Nat
    BY DEF TypeOK, ActivatePlan
  <2>2. room[h] # Idle
    BY <2>1 DEF Idle
  <2> QED BY <2>1, <2>2, StateFields, RoomAssumption
<1>1. items' = ItemsElsewhere(o) \cup P
  BY Zenon DEF ActivatePlan
<1>2. /\ \A x \in P : x.from = p /\ x.occ = o /\ x.order \in D
      /\ \A i \in D : \E x \in P : x.order = i
  BY <1>0, PlanItemsNumbered
<1> HIDE DEF P, D
<1>3. ItemsOf(o)' = P
  <2>1. \A x : x \in ItemsOf(o)' <=> x \in items' /\ x.occ = o
    BY Zenon DEF ItemsOf
  <2>2. \A x : x \in ItemsElsewhere(o) => x.occ # o
    BY DEF ItemsElsewhere, ItemsOf
  <2> QED BY <1>1, <1>2, <2>1, <2>2
<1>4. {y \in ItemsOf(o)' : y.from # NoPlan} = P
  BY <1>0, <1>2, <1>3
<1>5. {<<x.from, x.order>> : x \in P} = {<<p, i>> : i \in D}
  <2>1. \A x \in P : \E i \in D : <<x.from, x.order>> = <<p, i>>
    BY <1>2
  <2>2. \A i \in D : \E x \in P : <<x.from, x.order>> = <<p, i>>
    BY <1>2
  <2> QED BY <2>1, <2>2
<1>6. ASSUME NEW u \in Occurrence, u # o
      PROVE  StepsShown(u)' = StepsShown(u)
  <2>1. ItemsOf(u)' = ItemsOf(u)
    BY <1>1, <1>2, <1>6 DEF ItemsOf, ItemsElsewhere
  <2> QED BY <2>1 DEF StepsShown
<1> QED BY <1>4, <1>5, <1>6 DEF StepsShown, D

(* The contract counts as the tables do.                                   *)
LEMMA SameCardinality == \A S : Contract!Cardinality(S) = Cardinality(S)
BY Zenon DEF Contract!Cardinality, Cardinality

(* Who announces a status has a row that has not been told of yet.         *)
LEMMA ToldLess ==
  ASSUME TypeOK, StatusNewsTrue, NEW h \in Handler, room[h].op = "announce",
         NEW o, o = room[h].occ, NEW s, s = room[h].to
  PROVE  Contract!Times(statusNews[o], s) < Contract!Times(LogOf(o), Contract!Moved(s))
<1>0. o \in Occurrence /\ s \in Status /\ timeline[o] \in Seq(Event)
  <2>1. room[h] \in HandlerState /\ room[h] # Idle
    BY DEF TypeOK, Idle
  <2>2. o \in Occurrence /\ s \in Status
    BY <2>1, StateFields
  <2> QED BY <2>2 DEF TypeOK
<1>1. Cardinality(SentNews(o, s)) + Cardinality(Announcing(o, s)) <= Cardinality(WrittenRows(o, s))
  BY <1>0, Zenon DEF StatusNewsTrue, SentNews, Announcing, WrittenRows
<1>2. h \in Announcing(o, s)
  BY DEF Announcing
<1>3. /\ IsFiniteSet(SentNews(o, s)) /\ IsFiniteSet(Announcing(o, s)) /\ IsFiniteSet(WrittenRows(o, s))
  BY <1>0, NewsFinite
<1>4. Cardinality(Announcing(o, s)) # 0
  BY <1>2, <1>3, FS_EmptySet
<1>5. /\ Cardinality(SentNews(o, s)) \in Nat /\ Cardinality(Announcing(o, s)) \in Nat
      /\ Cardinality(WrittenRows(o, s)) \in Nat
  BY <1>3, FS_CardinalityType
<1>6. {i \in DOMAIN LogOf(o) : LogOf(o)[i] = Contract!Moved(s)} = WrittenRows(o, s)
  <2>1. DOMAIN LogOf(o) = DOMAIN timeline[o] /\ \A i \in DOMAIN timeline[o] : LogOf(o)[i] = Entry(timeline[o][i])
    BY DEF LogOf
  <2>2. \A e \in Event : Entry(e) = Contract!Moved(s) <=> e.event = "status" /\ e.to = s
    <3> SUFFICES ASSUME NEW e \in Event
                 PROVE  Entry(e) = Contract!Moved(s) <=> e.event = "status" /\ e.to = s
      OBVIOUS
    <3>1. \A a, b : [what |-> a, to |-> b].what = a /\ [what |-> a, to |-> b].to = b
      OBVIOUS
    <3>2. CASE e.event = "status"
      <4>1. Entry(e) = Contract!Moved(e.to)
        BY <3>2 DEF Entry, Contract!Moved
      <4> QED BY <3>1, <3>2, <4>1 DEF Contract!Moved
    <3>3. CASE e.event # "status"
      <4>1. e.event \in {"opening", "posted", "plan"}
        BY <3>3, EventKinds
      <4>2. Entry(e).what \in {"opened", "note", "activated"}
        BY <4>1 DEF Entry
      <4>3. Contract!Moved(s).what = "moved"
        BY DEF Contract!Moved
      <4> QED BY <3>3, <4>2, <4>3
    <3> QED BY <3>2, <3>3
  <2>3. \A i \in DOMAIN timeline[o] : timeline[o][i] \in Event
    BY <1>0
  <2>4. \A i : i \in WrittenRows(o, s) <=>
                 i \in DOMAIN timeline[o] /\ timeline[o][i].event = "status" /\ timeline[o][i].to = s
    BY Zenon DEF WrittenRows, StatusRows
  <2> QED BY <2>1, <2>2, <2>3, <2>4
<1>7. Cardinality(SentNews(o, s)) < Cardinality(WrittenRows(o, s))
  BY <1>1, <1>4, <1>5
<1>8. Contract!Times(statusNews[o], s) = Cardinality(SentNews(o, s))
  BY SameCardinality, Zenon DEF SentNews, Contract!Times
<1>9. Contract!Times(LogOf(o), Contract!Moved(s)) = Cardinality(WrittenRows(o, s))
  BY <1>6, SameCardinality, Zenon DEF Contract!Times
<1> QED BY <1>7, <1>8, <1>9

(* The logs and the plan steps of all occurrences, as the contract reads   *)
(* them.                                                                   *)
Logs       == [o \in Occurrence |-> LogOf(o)]
PlanSteps  == [o \in Occurrence |-> StepsShown(o)]
FilesStay  == UNCHANGED <<status, resolvedAt, Logs, PlanSteps, statusNews>>

LEMMA ContractVars ==
  /\ [Contract!Next]_(Contract!fileVars) <=> Contract!Next \/ FilesStay
  /\ \A o : Contract!IsOpen(o) <=> Opened(o)
  /\ \A o, e : Contract!Enter(o, e) <=> Logs' = [Logs EXCEPT ![o] = Append(Logs[o], e)]
BY DEF Contract!fileVars, FilesStay, Logs, PlanSteps, Contract!IsOpen, Opened, Contract!Enter

(* A timeline with an event more is a file with an entry more, and no      *)
(* other file changes.                                                     *)
LEMMA EntryEntered ==
  ASSUME TypeOK, NEW o \in Occurrence, NEW e \in Event,
         timeline' = [timeline EXCEPT ![o] = Append(timeline[o], e)]
  PROVE  Contract!Enter(o, Entry(e))
<1>0. timeline \in [Occurrence -> Seq(Event)]
  BY DEF TypeOK
<1>1. /\ timeline'[o] = Append(timeline[o], e)
      /\ \A q \in Occurrence : q # o => timeline'[q] = timeline[q]
  BY <1>0
<1>2. LogOf(o)' = Append(LogOf(o), Entry(e))
  BY <1>0, <1>1, LogExtended
<1>3. \A q \in Occurrence : q # o => LogOf(q)' = LogOf(q)
  BY <1>1 DEF LogOf
<1>4. Logs' = [Logs EXCEPT ![o] = Append(Logs[o], Entry(e))]
  BY <1>2, <1>3 DEF Logs
<1> QED BY <1>4, ContractVars

(* Tables that no step writes.                                             *)
LEMMA SameLogs ==
  ASSUME UNCHANGED timeline PROVE UNCHANGED Logs
BY Zenon DEF Logs, LogOf

LEMMA SameSteps ==
  ASSUME UNCHANGED items PROVE UNCHANGED PlanSteps
BY Zenon DEF PlanSteps, StepsShown, ItemsOf

(* The steps that write no file.                                           *)
LEMMA QuietSteps ==
  ASSUME TypeOK, NEW h \in Handler,
         \/ \E o \in Occurrence, s \in StatusAsked : ReadStatus(h, o, s)
         \/ \E o \in Occurrence, p \in Plan : ReadPlan(h, o, p)
         \/ \E o \in Occurrence : ReadLastOrder(h, o)
         \/ \E x \in items, d \in BOOLEAN : ReadItem(h, x, d)
         \/ InsertItem(h) \/ TickItem(h)
  PROVE  FilesStay
<1>1. UNCHANGED <<status, resolvedAt, timeline, statusNews>>
  BY Zenon DEF ReadStatus, ReadPlan, ReadLastOrder, ReadItem, InsertItem, TickItem, occurrenceVars
<1>2. UNCHANGED items \/ InsertItem(h) \/ TickItem(h)
  BY Zenon DEF ReadStatus, ReadPlan, ReadLastOrder, ReadItem, checklistVars
<1>3. InsertItem(h) \/ TickItem(h) => \A o \in Occurrence : StepsShown(o)' = StepsShown(o)
  BY StepsUntouched
<1>4. UNCHANGED PlanSteps
  BY <1>2, <1>3, SameSteps DEF PlanSteps
<1> QED BY <1>1, <1>4, SameLogs DEF FilesStay

LEMMA QuieterSteps ==
  ASSUME \/ \E S : Drop(S)
         \/ \E o \in Occurrence : Remove(o)
         \/ \E p, s, n : CreatePlan(p, s, n) \/ UpdatePlan(p, s, n) \/ RemovePlan(p)
         \/ UNCHANGED roomVars
  PROVE  FilesStay
<1>1. UNCHANGED <<status, resolvedAt, timeline, statusNews, items>>
  <2>1. CASE UNCHANGED roomVars
    BY <2>1 DEF roomVars, occurrenceVars, checklistVars
  <2>2. CASE \E S : Drop(S)
    BY <2>2, Zenon DEF Drop, occurrenceVars, checklistVars
  <2>3. CASE \E o \in Occurrence : Remove(o)
    BY <2>3, Zenon DEF Remove, checklistVars
  <2>4. CASE \E p, s, n : CreatePlan(p, s, n) \/ UpdatePlan(p, s, n) \/ RemovePlan(p)
    BY <2>4, Zenon DEF CreatePlan, UpdatePlan, RemovePlan, occurrenceVars, checklistVars
  <2> QED BY <2>1, <2>2, <2>3, <2>4
<1> QED BY <1>1, SameLogs, SameSteps DEF FilesStay

(* The steps that write one file, each an action of the contract.          *)
LEMMA OpenOpens ==
  ASSUME TypeOK, OpenedFirst, NEW o \in Occurrence, NEW s \in OpenedAs, Open(o, s)
  PROVE  Contract!Next
<1>1. /\ ~ Opened(o) /\ timeline[o] = <<>>
      /\ status' = [status EXCEPT ![o] = s]
      /\ timeline' = [timeline EXCEPT ![o] = <<Opening>>]
      /\ UNCHANGED <<resolvedAt, statusNews, items>>
  BY DEF Open, OpenedFirst, checklistVars
<1>2. timeline' = [timeline EXCEPT ![o] = Append(timeline[o], Opening)]
  <2>1. Append(timeline[o], Opening) = <<Opening>>
    BY <1>1
  <2> QED BY <1>1, <2>1, Zenon
<1>3. Contract!Enter(o, [what |-> "opened"])
  BY <1>2, EntryEntered, EventFacts, Entries
<1>4. UNCHANGED PlanSteps
  BY <1>1, SameSteps
<1>5. Contract!Open(o, s)
  BY <1>1, <1>3, <1>4, ContractVars DEF Contract!Open, PlanSteps
<1>6. s \in Status
  BY RoomAssumption
<1> QED BY <1>5, <1>6 DEF Contract!Next

LEMMA EventAnnotates ==
  ASSUME TypeOK, NEW o \in Occurrence, NEW t \in TypesPosted, AddTimelineEvent(o, t)
  PROVE  Contract!Next
<1>1. /\ Opened(o) /\ timeline' = [timeline EXCEPT ![o] = Append(timeline[o], PostedEvent(t))]
      /\ UNCHANGED <<status, resolvedAt, statusNews, items>>
  BY DEF AddTimelineEvent, Extended, checklistVars
<1>0. t \in EventType
  BY RoomAssumption
<1>2. Contract!Enter(o, [what |-> "note", heading |-> t])
  <2>1. PostedEvent(t) \in Event
    BY <1>0, EventFacts
  <2> QED BY <1>1, <2>1, EntryEntered, Entries
<1>3. UNCHANGED PlanSteps
  BY <1>1, SameSteps
<1>4. Contract!Annotate(o, t)
  BY <1>1, <1>2, <1>3, ContractVars DEF Contract!Annotate, PlanSteps
<1> QED BY <1>0, <1>4 DEF Contract!Next

LEMMA WriteMoves ==
  ASSUME TypeOK, OpenedFirst, NEW h \in Handler, WriteStatus(h)
  PROVE  Contract!Next
<1> DEFINE o == room[h].occ
           s == room[h].to
           e == StatusEvent(room[h].from, s)
<1>1. o \in Occurrence /\ s \in Status /\ e \in Event /\ Opened(o)
  <2>1. room[h] \in HandlerState /\ room[h].op = "status" /\ room[h] # Idle
    BY DEF TypeOK, WriteStatus, Idle
  <2> QED BY <2>1, StateFields, EventFacts DEF OpenedFirst
<1>2. /\ timeline' = [timeline EXCEPT ![o] = Append(timeline[o], e)]
      /\ status' = [status EXCEPT ![o] = s]
      /\ resolvedAt' = [resolvedAt EXCEPT ![o] = resolvedAt[o] \/ s = "resolvido"]
      /\ UNCHANGED <<statusNews, items>>
  BY Zenon DEF WriteStatus, Extended, StatusRow, NewStatus, ResolvedNow, checklistVars
<1>3. Entry(e) = Contract!Moved(s)
  BY Entries
<1> HIDE DEF o, s, e
<1>4. Contract!Enter(o, Contract!Moved(s))
  <2>1. Contract!Enter(o, Entry(e))
    BY <1>1, <1>2, EntryEntered
  <2> QED BY <1>3, <2>1
<1>5. UNCHANGED PlanSteps
  BY <1>2, SameSteps
<1>6. Contract!Move(o, s)
  BY <1>1, <1>2, <1>4, <1>5, ContractVars, Zenon DEF Contract!Move, PlanSteps
<1> QED BY <1>1, <1>6 DEF Contract!Next

LEMMA ActivationActivates ==
  ASSUME TypeOK, OpenedFirst, NEW h \in Handler, ActivatePlan(h)
  PROVE  Contract!Next
<1>1. PICK o, p, n : o = room[h].occ /\ p = room[h].plan /\ n = room[h].steps
  OBVIOUS
<1>2. o \in Occurrence /\ p \in Plan /\ n \in 0 .. MaxItems /\ Opened(o)
  <2>1. room[h] \in HandlerState /\ room[h].op = "plan" /\ room[h] # Idle
    BY DEF TypeOK, ActivatePlan, Idle
  <2>2. itemSeq \in Nat /\ itemSeq + n <= MaxItems
    BY <1>1 DEF TypeOK, ActivatePlan
  <2>3. o \in Occurrence /\ p \in Plan /\ n \in Nat /\ Opened(o)
    BY <1>1, <2>1, StateFields DEF OpenedFirst
  <2> QED BY <2>2, <2>3, RoomAssumption
<1>3. /\ timeline' = [timeline EXCEPT ![o] = Append(timeline[o], PlanEvent(p))]
      /\ UNCHANGED <<status, resolvedAt, statusNews>>
  BY <1>1, Zenon DEF ActivatePlan, Extended
<1>4. /\ StepsShown(o)' = {<<p, i>> : i \in 0 .. (n - 1)}
      /\ \A u \in Occurrence : u # o => StepsShown(u)' = StepsShown(u)
  BY <1>1, StepsReplaced
<1>5. PlanSteps' = [PlanSteps EXCEPT ![o] = {<<p, i>> : i \in 0 .. (n - 1)}]
  <2> DEFINE S == {<<p, i>> : i \in 0 .. (n - 1)}
  <2> HIDE DEF S
  <2> SUFFICES PlanSteps' = [PlanSteps EXCEPT ![o] = S]
    BY DEF S
  <2>1. StepsShown(o)' = S
    BY <1>4 DEF S
  <2> QED BY <1>4, <2>1 DEF PlanSteps
<1>6. Contract!Enter(o, [what |-> "activated", plan |-> p])
  <2>1. PlanEvent(p) \in Event /\ Entry(PlanEvent(p)) = [what |-> "activated", plan |-> p]
    BY <1>2, EventFacts, Entries
  <2>2. Contract!Enter(o, Entry(PlanEvent(p)))
    BY <1>2, <1>3, <2>1, EntryEntered
  <2> QED BY <2>1, <2>2
<1>7. Contract!Activate(o, p, n)
  BY <1>2, <1>3, <1>5, <1>6, ContractVars, Zenon DEF Contract!Activate, PlanSteps
<1> QED BY <1>2, <1>7 DEF Contract!Next

LEMMA AnnouncementTells ==
  ASSUME TypeOK, StatusNewsTrue, NEW h \in Handler, AnnounceStatus(h)
  PROVE  Contract!Next
<1>1. PICK o, s : o = room[h].occ /\ s = room[h].to
  OBVIOUS
<1>2. room[h].op = "announce" /\ o \in Occurrence /\ s \in Status
  <2>1. room[h] \in HandlerState /\ room[h].op = "announce" /\ room[h] # Idle
    BY DEF TypeOK, AnnounceStatus, Idle
  <2> QED BY <1>1, <2>1, StateFields
<1>3. /\ statusNews' = [statusNews EXCEPT ![o] = Append(statusNews[o], s)]
      /\ UNCHANGED <<status, resolvedAt, timeline, items>>
  BY <1>1, Zenon DEF AnnounceStatus, NewsOf, occurrenceVars, checklistVars
<1>4. Contract!Times(statusNews[o], s) < Contract!Times(LogOf(o), Contract!Moved(s))
  BY <1>1, <1>2, ToldLess
<1>5. Logs[o] = LogOf(o) /\ UNCHANGED <<Logs, PlanSteps>>
  BY <1>2, <1>3, SameLogs, SameSteps DEF Logs
<1>6. Contract!Tell(o, s)
  BY <1>3, <1>4, <1>5, Zenon DEF Contract!Tell, Logs, PlanSteps
<1> QED BY <1>2, <1>6 DEF Contract!Next

(* Every step writes one file, or none.                                    *)
LEMMA FileStep ==
  ASSUME RoomInvariant, StatusNewsTrue, [Next]_roomVars
  PROVE  [Contract!Next]_(Contract!fileVars)
<1>0. TypeOK /\ OpenedFirst
  BY DEF RoomInvariant, StatusInvariant
<1> SUFFICES Contract!Next \/ FilesStay
  BY ContractVars
<1>1. CASE \E o \in Occurrence : 
           \/ \E s \in OpenedAs : Open(o, s)
           \/ \E t \in TypesPosted : AddTimelineEvent(o, t)
  BY <1>0, <1>1, OpenOpens, EventAnnotates
<1>2. CASE \E h \in Handler : WriteStatus(h) \/ ActivatePlan(h) \/ AnnounceStatus(h)
  BY <1>0, <1>2, WriteMoves, ActivationActivates, AnnouncementTells
<1>3. CASE \E h \in Handler :
             \/ \E o \in Occurrence, s \in StatusAsked : ReadStatus(h, o, s)
             \/ \E o \in Occurrence, p \in Plan : ReadPlan(h, o, p)
             \/ \E o \in Occurrence : ReadLastOrder(h, o)
             \/ \E x \in items, d \in BOOLEAN : ReadItem(h, x, d)
             \/ InsertItem(h) \/ TickItem(h)
  BY <1>0, <1>3, QuietSteps
<1>4. CASE \/ \E S : Drop(S)
           \/ \E o \in Occurrence : Remove(o)
           \/ \E p, s, n : CreatePlan(p, s, n) \/ UpdatePlan(p, s, n) \/ RemovePlan(p)
           \/ UNCHANGED roomVars
  BY <1>4, QuieterSteps
<1> QED BY <1>1, <1>2, <1>3, <1>4, Zenon DEF Next, RoomStep

(* No file is open to begin with.                                          *)
LEMMA FileInit == Init => Contract!Init
<1> SUFFICES ASSUME Init PROVE Contract!Init
  OBVIOUS
<1>1. ASSUME NEW o \in Occurrence
      PROVE  LogOf(o) = <<>> /\ StepsShown(o) = {}
  <2>1. timeline[o] = <<>> /\ items = {}
    BY DEF Init
  <2> QED BY <2>1 DEF LogOf, StepsShown, ItemsOf
<1>2. Logs = [o \in Occurrence |-> <<>>] /\ PlanSteps = [o \in Occurrence |-> {}]
  BY <1>1 DEF Logs, PlanSteps
<1> QED BY <1>2, Zenon DEF Contract!Init, Init, Logs, PlanSteps

(* However requests interleave, fail and are lost with the process, what   *)
(* the room shows is a file written entry by entry: a status, a resolution *)
(* or a plan's steps never change without their event, no event is changed *)
(* or lost, and nobody is told of a change that is not there.              *)
THEOREM RoomImplementsCaseFile == Spec => ImplementsCaseFile
BY RoomInvariantHolds, RoomStatusNewsTrue, FileInit, FileStep, PTL
DEF Spec, ImplementsCaseFile, Contract!Spec
=============================================================================
