--------------------------- MODULE SafetyRecordsProofs ---------------------------
(***************************************************************************)
(* What holds of SafetyRecords for any number of terminals, people,        *)
(* requests and rows: its types, that assign and complete agree on who is  *)
(* covered, that no terminal is listed that never had the module while it  *)
(* was asked for, and that no request gives anyone a second open           *)
(* assignment or delivery it could have seen.                              *)
(***************************************************************************)
EXTENDS SafetyRecords, FiniteSetTheorems, TLAPS

(* A request to create a record carries a list, and one about to write the *)
(* row of a completion has someone to serve.                               *)
Formed(s) ==
  /\ s.next \in {"editable", "check"} /\ s.record = None => s.asked \in SUBSET Terminal
  /\ s.next = "renew" => s.people # << >>
Asks == \A h \in Handler : Formed(req[h])

(* What has the module now has had it, and each terminal of a list is      *)
(* still to be checked, has had the module, or was listed before.          *)
Listed(q) ==
  /\ \A t \in Terminal : HasSubModule(t, q.kind) => t \in q.had
  /\ q.record = None \/ q.asked # None => \A t \in q.asked :
       t \in q.unchecked \cup q.had \/ (q.kind # "compliance" /\ t \in q.before)
Listing == \A h \in Checking : Listed(req[h])

(* Of the rows there were when a request looked, those of the people it is *)
(* still to serve are not pending, and were returned.                      *)
Looked ==
  \A h \in Handler : LET q == req[h] IN
    /\ q.next \in {"assign", "deliver"} => q.seen <= rowSeq
    /\ q.next = "assign" => \A a \in assigned, i \in DOMAIN q.people :
         a.record = q.record /\ a.person = q.people[i] /\ a.id <= q.seen => a.expiry # None
    /\ q.next = "deliver" => \A d \in delivered, i \in DOMAIN q.people :
         d.record = q.record /\ d.person = q.people[i] /\ d.id <= q.seen => d.returned

(* What was given back is dated.                                           *)
ReturnsDated == \A d \in delivered : d.status \in Closing => d.returned

-----------------------------------------------------------------------------
(* The states of a request, by the statement it is about to send.          *)
LEMMA StatesSent ==
  /\ Idle \in HandlerState
  /\ \A n \in {"editable", "check"}, k \in Kind, r \in Nullable(Nat),
        a \in Nullable(SUBSET Terminal), b, u, w \in SUBSET Terminal :
       [next |-> n, kind |-> k, record |-> r, asked |-> a, before |-> b, unchecked |-> u,
        had |-> w] \in HandlerState
  /\ \A n \in {"assign", "deliver"}, r \in Nat, p \in Asked, s \in Nat :
       [next |-> n, record |-> r, people |-> p, seen |-> s] \in HandlerState
  /\ \A n \in {"look", "renew"}, r \in Nat, p \in Asked, e, t \in Time, w \in Nullable(Nat) :
       [next |-> n, record |-> r, people |-> p, expiry |-> e, at |-> t, row |-> w]
         \in HandlerState
<1>1. \A n \in {"editable", "check"}, k \in Kind, r \in Nullable(Nat),
        a \in Nullable(SUBSET Terminal), b, u, w \in SUBSET Terminal :
       [next |-> n, kind |-> k, record |-> r, asked |-> a, before |-> b, unchecked |-> u,
        had |-> w] \in HandlerState
  BY DEF HandlerState
<1>2. \A n \in {"assign", "deliver"}, r \in Nat, p \in Asked, s \in Nat :
       [next |-> n, record |-> r, people |-> p, seen |-> s] \in HandlerState
  BY DEF HandlerState
<1>3. \A n \in {"look", "renew"}, r \in Nat, p \in Asked, e, t \in Time, w \in Nullable(Nat) :
       [next |-> n, record |-> r, people |-> p, expiry |-> e, at |-> t, row |-> w]
         \in HandlerState
  BY DEF HandlerState
<1> QED BY <1>1, <1>2, <1>3 DEF HandlerState

(* What a request to write a record holds.                                 *)
LEMMA CheckState ==
  ASSUME NEW q \in HandlerState, q.next \in {"editable", "check"}
  PROVE  q \in [next : {"editable", "check"}, kind : Kind, record : Nullable(Nat),
                asked : Nullable(SUBSET Terminal), before : SUBSET Terminal,
                unchecked : SUBSET Terminal, had : SUBSET Terminal]
BY DEF HandlerState, Idle

(* What a request that serves people one by one holds.                     *)
LEMMA ServeState ==
  ASSUME NEW q \in HandlerState, q.next \in {"assign", "deliver"}
  PROVE  q \in [next : {"assign", "deliver"}, record : Nat, people : Asked, seen : Nat]
BY DEF HandlerState, Idle

(* What a request to complete a training holds.                            *)
LEMMA LookState ==
  ASSUME NEW q \in HandlerState, q.next \in {"look", "renew"}
  PROVE  q \in [next : {"look", "renew"}, record : Nat, people : Asked, expiry : Time,
                at : Time, row : Nullable(Nat)]
BY DEF HandlerState, Idle

(* Serving the first of a list of people leaves the list of the others.    *)
LEMMA OthersLeft ==
  ASSUME NEW p \in Asked, p # << >>
  PROVE  /\ Head(p) \in Person /\ 1 \in DOMAIN p /\ Head(p) = p[1]
         /\ Tail(p) \in Asked
         /\ \A i \in DOMAIN Tail(p) : i + 1 \in DOMAIN p /\ Tail(p)[i] = p[i + 1]
<1>1. PICK n \in 0 .. MaxAsked : p \in [1 .. n -> Person]
  BY DEF Asked
<1>2. p \in Seq(Person) /\ Len(p) = n /\ DOMAIN p = 1 .. n /\ n \in Nat
  BY <1>1
<1>3. n # 0
  BY <1>2
<1>4. /\ Tail(p) \in Seq(Person) /\ Len(Tail(p)) = n - 1
      /\ \A i \in 1 .. n - 1 : Tail(p)[i] = p[i + 1]
  <2>1. Tail(p) \in Seq(Person)
    BY <1>2
  <2>2. Len(Tail(p)) = n - 1
    BY <1>2, <1>3
  <2>3. \A i \in 1 .. n - 1 : Tail(p)[i] = p[i + 1]
    BY <1>2, <1>3
  <2> QED BY <2>1, <2>2, <2>3
<1>5. Tail(p) \in [1 .. n - 1 -> Person] /\ DOMAIN Tail(p) = 1 .. n - 1
  <2>1. \A t \in Seq(Person) : t \in [1 .. Len(t) -> Person] /\ DOMAIN t = 1 .. Len(t)
    OBVIOUS
  <2> QED BY <1>4, <2>1, Zenon
<1>6. n - 1 \in 0 .. MaxAsked
  BY <1>1, <1>3, SafetyAssumption
<1>7. Tail(p) \in Asked
  BY <1>5, <1>6 DEF Asked
<1> QED BY <1>2, <1>3, <1>4, <1>5, <1>7

(* Those left of a list are not among those to be skipped.                 *)
LEMMA LeftOver ==
  ASSUME NEW people, NEW asked, NEW skip, Left(people, asked, skip), NEW i \in DOMAIN people
  PROVE  people[i] \notin skip
<1>1. PICK at \in [DOMAIN people -> DOMAIN asked] :
        /\ {at[j] : j \in DOMAIN people} = {n \in DOMAIN asked : asked[n] \notin skip}
        /\ \A j \in DOMAIN people : people[j] = asked[at[j]]
  BY DEF Left
<1>2. at[i] \in {at[j] : j \in DOMAIN people}
  OBVIOUS
<1>3. asked[at[i]] \notin skip
  BY <1>1, <1>2, Zenon
<1> QED BY <1>1, <1>3

(* A request that comes to its next statement keeps the requests typed.    *)
LEMMA BecomeTyped ==
  ASSUME TypeOK, Asks, NEW h \in Handler, NEW s \in HandlerState, Become(h, s),
         Formed(s)
  PROVE  req' \in [Handler -> HandlerState] /\ Asks'
BY DEF TypeOK, Asks, Become

-----------------------------------------------------------------------------
(* What every step must leave typed.                                       *)
RowsTyped ==
  /\ packages  \in [Terminal -> [safety : BOOLEAN, stored : SUBSET Toggles]]
  /\ records   \subseteq Record
  /\ assigned  \subseteq Assignment
  /\ delivered \subseteq Delivery
  /\ rowSeq    \in Nat
  /\ now       \in Time

(* The rows are typed in every typed state.                                *)
LEMMA TypedParts == TypeOK <=> RowsTyped /\ calls \in Mixes /\ req \in [Handler -> HandlerState]
BY DEF TypeOK, RowsTyped

(* What runs beside the requests: the modules of a terminal, removals, the *)
(* status of a delivery, the clock.                                        *)
LEMMA AdministrationTyped ==
  ASSUME TypeOK, Asks, Administration
  PROVE  RowsTyped' /\ req' \in [Handler -> HandlerState] /\ Asks'
<1> DEFINE Typed == RowsTyped' /\ req' \in [Handler -> HandlerState] /\ Asks'
<1>0. RowsTyped /\ req \in [Handler -> HandlerState]
  BY TypedParts
<1>1. ASSUME NEW t \in Terminal, NEW safety \in BOOLEAN, NEW asked \in ModulesAsked,
             UpdateModules(t, safety, asked)
      PROVE  Typed
  <2> DEFINE stored == IF safety THEN StorableSubModules(asked) ELSE {}
             Has(h) == h \in Checking /\ PackageHas(packages'[t], req[h].kind)
  <2>1. packages' \in [Terminal -> [safety : BOOLEAN, stored : SUBSET Toggles]]
    <3>1. stored \in SUBSET Toggles
      BY DEF StorableSubModules
    <3>2. packages' = [packages EXCEPT ![t] = [safety |-> safety, stored |-> stored]]
      BY <1>1 DEF UpdateModules
    <3> HIDE DEF stored
    <3> QED BY <1>0, <3>1, <3>2 DEF RowsTyped
  <2>2. req' = [h \in Handler |-> IF Has(h) THEN [req[h] EXCEPT !.had = @ \cup {t}] ELSE req[h]]
    BY <1>1 DEF UpdateModules
  <2>3. \A h \in Handler : Has(h) => req[h].next \in {"editable", "check"}
    BY DEF Checking
  <2> HIDE DEF Has
  <2>4. ASSUME NEW h \in Handler
        PROVE  /\ req'[h] \in HandlerState
               /\ req'[h].next = req[h].next
               /\ req'[h].next \in {"editable", "check"} =>
                    req'[h].record = req[h].record /\ req'[h].asked = req[h].asked
               /\ req'[h].next = "renew" => req'[h] = req[h]
    <3>1. CASE Has(h)
      <4> DEFINE q == req[h]
      <4>1. q \in [next : {"editable", "check"}, kind : Kind, record : Nullable(Nat),
                   asked : Nullable(SUBSET Terminal), before : SUBSET Terminal,
                   unchecked : SUBSET Terminal, had : SUBSET Terminal]
        BY <1>0, <2>3, <3>1, CheckState
      <4>2. req'[h] = [q EXCEPT !.had = @ \cup {t}]
        BY <2>2, <3>1
      <4> HIDE DEF q
      <4>3. [q EXCEPT !.had = @ \cup {t}]
              \in [next : {"editable", "check"}, kind : Kind, record : Nullable(Nat),
                   asked : Nullable(SUBSET Terminal), before : SUBSET Terminal,
                   unchecked : SUBSET Terminal, had : SUBSET Terminal]
        BY <4>1
      <4>4. req'[h] \in HandlerState
        BY <4>2, <4>3 DEF HandlerState
      <4>5. req'[h].next = q.next /\ req'[h].record = q.record /\ req'[h].asked = q.asked
        BY <4>1, <4>2
      <4> QED BY <4>1, <4>4, <4>5 DEF q
    <3>2. CASE ~ Has(h)
      BY <1>0, <2>2, <3>2
    <3> QED BY <3>1, <3>2
  <2>5. req' \in [Handler -> HandlerState]
    <3>1. req' = [h \in Handler |-> req'[h]]
      BY <2>2
    <3> QED BY <2>4, <3>1
  <2>6. Asks'
    BY <2>4 DEF Asks, Formed
  <2>7. RowsTyped'
    BY <1>0, <1>1, <2>1 DEF UpdateModules, RowsTyped, peopleVars
  <2> QED BY <2>5, <2>6, <2>7
<1>2. ASSUME UNCHANGED <<packages, rowSeq, now, req>>, records' \subseteq records,
             assigned' \subseteq assigned, delivered' \subseteq Delivery
      PROVE  Typed
  BY <1>0, <1>2 DEF RowsTyped, Asks
<1>3. ASSUME NEW r \in records, RemoveTraining(r) \/ RemoveEpi(r) \/ RemoveComplianceItem(r)
      PROVE  Typed
  BY <1>0, <1>2, <1>3 DEF RemoveTraining, RemoveEpi, RemoveComplianceItem, RemoveRecord, RowsTyped
<1>4. ASSUME NEW a \in assigned, RemoveAssignment(a)
      PROVE  Typed
  BY <1>0, <1>2, <1>4 DEF RemoveAssignment, RowsTyped
<1>5. ASSUME NEW d \in delivered, RemoveDelivery(d)
      PROVE  Typed
  BY <1>0, <1>2, <1>5 DEF RemoveDelivery, RowsTyped
<1>6. ASSUME NEW d \in delivered, NEW s \in UsageStatus, UpdateDelivery(d, s)
      PROVE  Typed
  <2> DEFINE e == [d EXCEPT !.status = s, !.returned = @ \/ s \in Closing]
  <2>1. d \in Delivery
    BY <1>0 DEF RowsTyped
  <2>2. e \in Delivery
    BY <2>1 DEF Delivery
  <2>3. /\ delivered' = (delivered \ {d}) \cup {e}
        /\ UNCHANGED <<packages, records, assigned, rowSeq, now, req>>
    BY <1>6 DEF UpdateDelivery
  <2> HIDE DEF e
  <2> QED BY <1>0, <1>2, <2>2, <2>3 DEF RowsTyped
<1>7. ASSUME Tick
      PROVE  Typed
  <2>1. now' \in Time
    BY <1>0, <1>7, SafetyAssumption DEF Tick, RowsTyped, Time
  <2> QED BY <1>0, <1>7, <2>1 DEF Tick, RowsTyped, Asks, peopleVars
<1> HIDE DEF Typed
<1>8. Typed
  BY <1>1, <1>3, <1>4, <1>5, <1>6, <1>7, Zenon DEF Administration
<1> QED BY <1>8 DEF Typed

(* The first statement of a request, and those that follow it.             *)
LEMMA StartTyped ==
  ASSUME TypeOK, Asks, NEW h \in Handler, Starts(h)
  PROVE  RowsTyped' /\ req' \in [Handler -> HandlerState] /\ Asks'
<1> DEFINE Typed == RowsTyped' /\ req' \in [Handler -> HandlerState] /\ Asks'
<1>0. RowsTyped /\ records \subseteq Record /\ now \in Time /\ rowSeq \in Nat
  BY TypedParts DEF RowsTyped
<1>1. ASSUME UNCHANGED <<packages, records, peopleVars, rowSeq, now>>,
             NEW s \in HandlerState, Become(h, s),
             Formed(s)
      PROVE  Typed
  <2>1. RowsTyped'
    BY <1>0, <1>1 DEF RowsTyped, peopleVars
  <2> QED BY <1>1, <2>1, BecomeTyped
<1>2. ASSUME NEW n \in {"editable", "check"}, NEW k \in Kind, NEW r \in Nullable(Nat),
             NEW a \in Nullable(SUBSET Terminal), NEW b \in SUBSET Terminal,
             NEW u \in SUBSET Terminal, r = None => a \in SUBSET Terminal,
             UNCHANGED <<packages, records, peopleVars, rowSeq, now>>,
             Become(h, [ToWrite(k, r, a, b, u) EXCEPT !.next = n])
      PROVE  Typed
  <2> DEFINE w == {t \in Terminal : HasSubModule(t, k)}
             s == [ToWrite(k, r, a, b, u) EXCEPT !.next = n]
  <2>1. ToWrite(k, r, a, b, u) = [next |-> "check", kind |-> k, record |-> r, asked |-> a,
                                  before |-> b, unchecked |-> u, had |-> w]
    BY DEF ToWrite
  <2>2. w \in SUBSET Terminal
    OBVIOUS
  <2> HIDE DEF w
  <2>3. s = [next |-> n, kind |-> k, record |-> r, asked |-> a, before |-> b, unchecked |-> u,
             had |-> w]
    BY <2>1
  <2>4. s.next = n /\ s.record = r /\ s.asked = a
    BY <2>3
  <2>5. Become(h, s)
    BY <1>2
  <2> HIDE DEF s
  <2>6. s \in HandlerState
    <3>1. [next |-> n, kind |-> k, record |-> r, asked |-> a, before |-> b, unchecked |-> u,
           had |-> w] \in HandlerState
      BY <1>2, <2>2, StatesSent
    <3> QED BY <2>3, <3>1
  <2> QED BY <1>1, <1>2, <2>4, <2>5, <2>6 DEF Formed
<1>3. ASSUME NEW k \in Kind, NEW asked \in SUBSET Terminal, NEW access \in SUBSET Terminal,
             CreateRecord(h, k, asked, access)
      PROVE  Typed
  <2>1. ToWrite(k, None, asked, {}, asked)
          = [ToWrite(k, None, asked, {}, asked) EXCEPT !.next = "check"]
    BY DEF ToWrite
  <2>2. /\ Become(h, [ToWrite(k, None, asked, {}, asked) EXCEPT !.next = "check"])
        /\ UNCHANGED <<packages, records, peopleVars, rowSeq, now>>
    BY <1>3, <2>1 DEF CreateRecord, Begin
  <2>3. None \in Nullable(Nat) /\ asked \in Nullable(SUBSET Terminal) /\ {} \in SUBSET Terminal
    BY DEF Nullable
  <2> QED BY <1>2, <2>2, <2>3
<1>4. ASSUME NEW r \in records, NEW asked \in SUBSET Terminal, NEW list \in {asked, None},
             NEW access \in SUBSET Terminal,
             \/ UpdateTraining(h, r, list, access) \/ UpdateEpi(h, r, list, access)
             \/ UpdateComplianceItem(h, r, list, access)
      PROVE  Typed
  <2>1. r.kind \in Kind /\ r.id \in Nat /\ r.terminals \in SUBSET Terminal
    BY <1>0 DEF Record
  <2>2. Unchecked(r, list) \in SUBSET Terminal
    BY <2>1 DEF Unchecked, ToCheck
  <2>3. r.id \in Nullable(Nat) /\ r.id # None /\ list \in Nullable(SUBSET Terminal)
    BY <2>1, SafetyAssumption DEF Nullable
  <2>4. UpdateChecks(r, list) = [UpdateChecks(r, list) EXCEPT !.next = "check"]
    BY DEF UpdateChecks, ToWrite
  <2>5. PICK n \in {"editable", "check"} :
          Become(h, [ToWrite(r.kind, r.id, list, r.terminals, Unchecked(r, list)) EXCEPT !.next = n])
    BY <1>4, <2>4 DEF UpdateTraining, UpdateEpi, UpdateTrainingOrEpi, UpdateComplianceItem,
         UpdateChecks, Begin
  <2>6. UNCHANGED <<packages, records, peopleVars, rowSeq, now>>
    BY <1>4 DEF UpdateTraining, UpdateEpi, UpdateTrainingOrEpi, UpdateComplianceItem
  <2> QED BY <1>2, <2>1, <2>2, <2>3, <2>5, <2>6
<1>5. ASSUME NEW n \in {"assign", "deliver"}, NEW r \in records, NEW people \in Asked,
             UNCHANGED <<packages, records, peopleVars, rowSeq, now>>,
             Become(h, [next |-> n, record |-> r.id, people |-> people, seen |-> rowSeq])
      PROVE  Typed
  <2> DEFINE s == [next |-> n, record |-> r.id, people |-> people, seen |-> rowSeq]
  <2>1. r.id \in Nat
    BY <1>0 DEF Record
  <2>2. s \in HandlerState /\ s.next \notin {"editable", "check", "renew"} /\ Become(h, s)
    BY <1>0, <1>5, <2>1, StatesSent
  <2> HIDE DEF s
  <2> QED BY <1>1, <1>5, <2>2 DEF Formed
<1>6. ASSUME NEW r \in records, NEW asked \in Asked,
             Assign(h, r.id, asked) \/ Deliver(h, r.id, asked)
      PROVE  Typed
  <2>1. CASE Assign(h, r.id, asked)
    BY <1>5, <2>1 DEF Assign, Begin
  <2>2. CASE Deliver(h, r.id, asked)
    BY <1>5, <2>2 DEF Deliver, Begin
  <2> QED BY <1>6, <2>1, <2>2
<1>7. ASSUME NEW r \in records, NEW asked \in Asked, NEW expiry \in Time,
             Complete(h, r.id, asked, expiry)
      PROVE  Typed
  <2> DEFINE s == [next |-> "look", record |-> r.id, people |-> asked, expiry |-> expiry,
                   at |-> now, row |-> None]
  <2>1. r.id \in Nat /\ None \in Nullable(Nat)
    BY <1>0 DEF Record, Nullable
  <2>2. s \in HandlerState /\ s.next \notin {"editable", "check", "renew"} /\ Become(h, s)
    BY <1>0, <1>7, <2>1, StatesSent DEF Complete, Begin
  <2> HIDE DEF s
  <2> QED BY <1>1, <1>7, <2>2 DEF Complete, Formed
<1>8. {"trainings", "epis", "compliance"} \subseteq Kind
  BY DEF Kind
<1> HIDE DEF Typed
<1>9. Typed
  BY <1>3, <1>4, <1>6, <1>7, <1>8, Zenon DEF Starts, CreateTraining, CreateEpi, CreateComplianceItem
<1> QED BY <1>9 DEF Typed

(* The statements that follow, and the answer.                             *)
LEMMA ContinueTyped ==
  ASSUME TypeOK, Asks, NEW h \in Handler, Continues(h)
  PROVE  RowsTyped' /\ req' \in [Handler -> HandlerState] /\ Asks'
<1> DEFINE Typed == RowsTyped' /\ req' \in [Handler -> HandlerState] /\ Asks'
           q == req[h]
<1>0. /\ RowsTyped /\ records \subseteq Record /\ assigned \subseteq Assignment
      /\ delivered \subseteq Delivery /\ now \in Time /\ rowSeq \in Nat /\ q \in HandlerState
  BY TypedParts DEF RowsTyped
<1>n. None \in Nullable(Nat) /\ None \in Nullable(Time) /\ None \notin Nat
  BY SafetyAssumption DEF Nullable
<1>1. ASSUME UNCHANGED packages, records' \subseteq Record, assigned' \subseteq Assignment,
             delivered' \subseteq Delivery, rowSeq' \in Nat, UNCHANGED now,
             NEW s \in HandlerState, Become(h, s),
             Formed(s)
      PROVE  Typed
  <2>1. RowsTyped'
    BY <1>0, <1>1 DEF RowsTyped
  <2> QED BY <1>1, <2>1, BecomeTyped
<1>i. Idle \in HandlerState /\ Formed(Idle)
  BY StatesSent DEF Idle, Formed
<1>2. ASSUME Fail(h) \/ Answer(h)
      PROVE  Typed
  BY <1>0, <1>1, <1>2, <1>i DEF Fail, Answer, peopleVars
<1>3. ASSUME q.next \in {"editable", "check"}
      PROVE  /\ q \in [next : {"editable", "check"}, kind : Kind, record : Nullable(Nat),
                       asked : Nullable(SUBSET Terminal), before : SUBSET Terminal,
                       unchecked : SUBSET Terminal, had : SUBSET Terminal]
             /\ q.record = None => q.asked \in SUBSET Terminal
  BY <1>0, <1>3, CheckState DEF Asks, Formed
<1>4. ASSUME AssertEditable(h)
      PROVE  Typed
  <2> DEFINE s == [q EXCEPT !.next = "check"]
  <2>1. q.next = "editable" /\ Become(h, s)
    BY <1>4 DEF AssertEditable
  <2> HIDE DEF q
  <2>2. s \in [next : {"editable", "check"}, kind : Kind, record : Nullable(Nat),
               asked : Nullable(SUBSET Terminal), before : SUBSET Terminal,
               unchecked : SUBSET Terminal, had : SUBSET Terminal]
        /\ s.record = q.record /\ s.asked = q.asked
    BY <1>3, <2>1
  <2>3. s \in HandlerState
    BY <2>2 DEF HandlerState
  <2> HIDE DEF s
  <2> QED BY <1>0, <1>1, <1>3, <1>4, <2>1, <2>2, <2>3 DEF AssertEditable, peopleVars, Formed
<1>5. ASSUME NEW t \in Terminal, CheckTerminal(h, t)
      PROVE  Typed
  <2> DEFINE s == [q EXCEPT !.unchecked = @ \ {t}]
  <2>1. q.next = "check" /\ Become(h, s)
    BY <1>5 DEF CheckTerminal
  <2> HIDE DEF q
  <2>2. s \in [next : {"editable", "check"}, kind : Kind, record : Nullable(Nat),
               asked : Nullable(SUBSET Terminal), before : SUBSET Terminal,
               unchecked : SUBSET Terminal, had : SUBSET Terminal]
        /\ s.record = q.record /\ s.asked = q.asked
    BY <1>3, <2>1
  <2>3. s \in HandlerState
    BY <2>2 DEF HandlerState
  <2> HIDE DEF s
  <2> QED BY <1>0, <1>1, <1>3, <1>5, <2>1, <2>2, <2>3 DEF CheckTerminal, peopleVars, Formed
<1>6. ASSUME WriteRecord(h)
      PROVE  Typed
  <2>1. q.next = "check" /\ Become(h, Idle) /\ UNCHANGED <<packages, peopleVars, now>>
    BY <1>6 DEF WriteRecord
  <2>2. q.kind \in Kind /\ q.asked \in Nullable(SUBSET Terminal)
        /\ (q.record = None => q.asked \in SUBSET Terminal)
    BY <1>3, <2>1
  <2>3. CASE q.record = None
    <3> DEFINE r == [id |-> rowSeq', kind |-> q.kind, terminals |-> q.asked]
    <3>1. rowSeq' = rowSeq + 1 /\ records' = records \cup {r}
      BY <1>6, <2>3 DEF WriteRecord, NewRow
    <3>2. rowSeq' \in Nat
      BY <1>0, <3>1
    <3>3. r \in Record
      BY <2>2, <2>3, <3>2 DEF Record
    <3> HIDE DEF r, q
    <3> QED BY <1>0, <1>1, <1>i, <2>1, <3>1, <3>2, <3>3 DEF peopleVars
  <2>4. CASE q.record # None
    <3>1. /\ UNCHANGED rowSeq
          /\ \E r \in records : records' = (records \ {r}) \cup
               {IF q.asked = None THEN r ELSE [r EXCEPT !.terminals = q.asked]}
      BY <1>6, <2>4 DEF WriteRecord
    <3>2. PICK r \in records : records' = (records \ {r}) \cup
            {IF q.asked = None THEN r ELSE [r EXCEPT !.terminals = q.asked]}
      BY <3>1
    <3> HIDE DEF q
    <3>3. (IF q.asked = None THEN r ELSE [r EXCEPT !.terminals = q.asked]) \in Record
      BY <1>0, <2>2, <3>2 DEF Record, Nullable
    <3>4. records' \subseteq Record
      BY <1>0, <3>2, <3>3
    <3> QED BY <1>0, <1>1, <1>i, <2>1, <3>1, <3>4 DEF peopleVars
  <2> QED BY <2>3, <2>4
<1>7. ASSUME q.next \in {"assign", "deliver"}, q.people # << >>, Served(h),
             UNCHANGED packages, records' \subseteq Record, assigned' \subseteq Assignment,
             delivered' \subseteq Delivery, rowSeq' \in Nat, UNCHANGED now
      PROVE  Typed
  <2> DEFINE s == [q EXCEPT !.people = Tail(@)]
  <2>1. q \in [next : {"assign", "deliver"}, record : Nat, people : Asked, seen : Nat]
    BY <1>0, <1>7, ServeState
  <2>2. Become(h, s)
    BY <1>7 DEF Served
  <2> HIDE DEF q
  <2>3. Tail(q.people) \in Asked
    BY <1>7, <2>1, OthersLeft
  <2>4. s \in [next : {"assign", "deliver"}, record : Nat, people : Asked, seen : Nat]
    BY <2>1, <2>3
  <2>5. s \in HandlerState /\ Formed(s)
    BY <2>4 DEF HandlerState, Formed
  <2> HIDE DEF s
  <2> QED BY <1>1, <1>7, <2>2, <2>5
<1>8. ASSUME InsertAssignment(h)
      PROVE  Typed
  <2> DEFINE a == [id |-> rowSeq', record |-> q.record, person |-> Head(q.people), expiry |-> None]
  <2>1. /\ q.next = "assign" /\ q.people # << >> /\ rowSeq' = rowSeq + 1
        /\ assigned' = assigned \cup {a} /\ Served(h)
        /\ UNCHANGED <<packages, records, delivered, now>>
    BY <1>8 DEF InsertAssignment, NewRow
  <2>2. q.record \in Nat /\ Head(q.people) \in Person /\ rowSeq' \in Nat
    BY <1>0, <2>1, ServeState, OthersLeft
  <2>3. a \in Assignment
    BY <1>n, <2>2 DEF Assignment
  <2> HIDE DEF a, q
  <2> QED BY <1>0, <1>7, <2>1, <2>2, <2>3
<1>9. ASSUME InsertDelivery(h)
      PROVE  Typed
  <2> DEFINE d == [id |-> rowSeq', record |-> q.record, person |-> Head(q.people),
                   status |-> DeliveredStatus, returned |-> FALSE]
  <2>1. /\ q.next = "deliver" /\ q.people # << >> /\ rowSeq' = rowSeq + 1
        /\ delivered' = delivered \cup {d} /\ Served(h)
        /\ UNCHANGED <<packages, records, assigned, now>>
    BY <1>9 DEF InsertDelivery, NewRow
  <2>2. q.record \in Nat /\ Head(q.people) \in Person /\ rowSeq' \in Nat
    BY <1>0, <2>1, ServeState, OthersLeft
  <2>3. d \in Delivery
    BY <2>2 DEF Delivery, DeliveredStatus, UsageStatus
  <2> HIDE DEF d, q
  <2> QED BY <1>0, <1>7, <2>1, <2>2, <2>3
<1>10. ASSUME NEW s \in HandlerState, s.next \in {"look", "renew"}, Become(h, s),
              s.next = "renew" => s.people # << >>,
              UNCHANGED <<packages, records, delivered, now>>, assigned' \subseteq Assignment,
              rowSeq' \in Nat
       PROVE  Typed
  BY <1>0, <1>1, <1>10 DEF Formed
<1>11. ASSUME LookForPrevious(h)
       PROVE  Typed
  <2>1. /\ q.next = "look" /\ q.people # << >>
        /\ UNCHANGED <<packages, records, assigned, delivered, rowSeq, now>>
    BY <1>11 DEF LookForPrevious, peopleVars
  <2>2. q \in [next : {"look", "renew"}, record : Nat, people : Asked, expiry : Time,
               at : Time, row : Nullable(Nat)]
    BY <1>0, <2>1, LookState
  <2>3. Tail(q.people) \in Asked
    BY <2>1, <2>2, OthersLeft
  <2>4. CASE Become(h, [q EXCEPT !.people = Tail(@)])
    <3> DEFINE s == [q EXCEPT !.people = Tail(@)]
    <3>1. Become(h, s)
      BY <2>4
    <3> HIDE DEF q
    <3>2. s.next = "look" /\ s \in [next : {"look", "renew"}, record : Nat, people : Asked,
                                   expiry : Time, at : Time, row : Nullable(Nat)]
      BY <2>1, <2>2, <2>3
    <3>3. s \in HandlerState /\ s.next \in {"look", "renew"}
      BY <3>2 DEF HandlerState
    <3> HIDE DEF s
    <3> QED BY <1>0, <1>10, <2>1, <3>1, <3>2, <3>3
  <2>5. ASSUME NEW row \in Nullable(Nat), Become(h, [q EXCEPT !.next = "renew", !.row = row])
        PROVE  Typed
    <3> DEFINE s == [q EXCEPT !.next = "renew", !.row = row]
    <3>1. Become(h, s)
      BY <2>5
    <3> HIDE DEF q
    <3>2. s.people # << >> /\ s \in [next : {"look", "renew"}, record : Nat, people : Asked,
                                     expiry : Time, at : Time, row : Nullable(Nat)]
      BY <2>1, <2>2, <2>5
    <3>3. s \in HandlerState /\ s.next \in {"look", "renew"}
      BY <3>2 DEF HandlerState
    <3> HIDE DEF s
    <3> QED BY <1>0, <1>10, <2>1, <3>1, <3>2, <3>3
  <2> DEFINE p == Head(q.people)
             Rows == {a.id : a \in Latest(Assigned(q.record, p))}
                       \cup (IF Assigned(q.record, p) = {} THEN {None} ELSE {})
  <2>6. Rows \subseteq Nullable(Nat)
    BY <1>0, <1>n DEF Latest, Assigned, Assignment, Nullable
  <2>7. \/ Become(h, [q EXCEPT !.people = Tail(@)])
        \/ \E row \in Rows : Become(h, [q EXCEPT !.next = "renew", !.row = row])
    BY <1>11, Zenon DEF LookForPrevious, Served
  <2> HIDE DEF Rows, q, Typed
  <2> QED BY <2>4, <2>5, <2>6, <2>7
<1>12. ASSUME Renew(h)
       PROVE  Typed
  <2> DEFINE s == [q EXCEPT !.next = "look", !.row = None, !.people = Tail(@)]
  <2>1. q.next = "renew" /\ Become(h, s) /\ UNCHANGED <<packages, records, delivered, now>>
    BY <1>12 DEF Renew
  <2>2. q \in [next : {"look", "renew"}, record : Nat, people : Asked, expiry : Time,
               at : Time, row : Nullable(Nat)]
    BY <1>0, <2>1, LookState
  <2>3. q.people # << >>
    BY <2>1 DEF Asks, Formed
  <2>4. q.record \in Nat /\ q.expiry \in Time /\ q.people \in Asked
    BY <2>2
  <2>5. Head(q.people) \in Person /\ Tail(q.people) \in Asked
    BY <2>3, <2>4, OthersLeft
  <2>6. s.next = "look" /\ s \in [next : {"look", "renew"}, record : Nat, people : Asked,
                                 expiry : Time, at : Time, row : Nullable(Nat)]
    <3> HIDE DEF q
    <3> QED BY <1>n, <2>2, <2>5
  <2>7. s \in HandlerState
    BY <2>6 DEF HandlerState
  <2>8. assigned' \subseteq Assignment /\ rowSeq' \in Nat
    <3>1. CASE q.row = None
      <4> DEFINE a == [id |-> rowSeq', record |-> q.record, person |-> Head(q.people),
                       expiry |-> q.expiry]
      <4>1. rowSeq' = rowSeq + 1 /\ assigned' = assigned \cup {a}
        BY <1>12, <3>1 DEF Renew, NewRow
      <4>2. rowSeq' \in Nat
        BY <1>0, <4>1
      <4>3. a \in Assignment
        BY <2>4, <2>5, <4>2 DEF Assignment, Nullable
      <4> QED BY <1>0, <4>1, <4>2, <4>3
    <3>2. CASE q.row # None
      <4>1. PICK a \in assigned : assigned' = (assigned \ {a}) \cup {[a EXCEPT !.expiry = q.expiry]}
        BY <1>12, <3>2 DEF Renew
      <4>2. UNCHANGED rowSeq
        BY <1>12, <3>2 DEF Renew
      <4> HIDE DEF q
      <4>3. [a EXCEPT !.expiry = q.expiry] \in Assignment
        BY <1>0, <2>4, <4>1 DEF Assignment, Nullable
      <4> QED BY <1>0, <4>1, <4>2, <4>3
    <3> QED BY <3>1, <3>2
  <2> HIDE DEF s, q
  <2> QED BY <1>0, <1>10, <2>1, <2>6, <2>7, <2>8
<1> HIDE DEF Typed
<1>13. Typed
  BY <1>2, <1>4, <1>5, <1>6, <1>8, <1>9, <1>11, <1>12, Zenon DEF Continues
<1> QED BY <1>13 DEF Typed

(* No row, no request and every module on at the start.                    *)
LEMMA InitTyped == Init => TypeOK /\ Asks
<1> SUFFICES ASSUME Init
             PROVE  TypeOK /\ Asks
  OBVIOUS
<1>1. AllOn \in [safety : BOOLEAN, stored : SUBSET Toggles]
  BY DEF AllOn
<1>2. Idle \in HandlerState /\ Formed(Idle)
  BY StatesSent DEF Idle, Formed
<1>3. 0 \in Time
  BY SafetyAssumption DEF Time
<1> QED BY <1>1, <1>2, <1>3 DEF Init, TypeOK, Asks

(* Every step keeps the tables and the requests well typed.                *)
LEMMA StepTyped ==
  ASSUME TypeOK, Asks, [Next]_vars
  PROVE  TypeOK' /\ Asks'
<1> DEFINE Typed == RowsTyped' /\ req' \in [Handler -> HandlerState] /\ Asks'
<1>0. RowsTyped /\ calls \in Mixes /\ req \in [Handler -> HandlerState]
  BY TypedParts
<1>1. ASSUME UNCHANGED vars
      PROVE  Typed
  BY <1>0, <1>1 DEF vars, peopleVars, RowsTyped, Asks
<1>2. ASSUME Administration
      PROVE  Typed
  BY <1>2, AdministrationTyped
<1>3. ASSUME NEW h \in Handler, Starts(h)
      PROVE  Typed
  BY <1>3, StartTyped
<1>4. ASSUME NEW h \in Handler, Continues(h)
      PROVE  Typed
  BY <1>4, ContinueTyped
<1>5. calls' \in Mixes
  BY <1>0, Zenon DEF Next, vars
<1> HIDE DEF Typed
<1>6. Typed
  BY <1>1, <1>2, <1>3, <1>4, Zenon DEF Next
<1> QED BY <1>5, <1>6 DEF Typed, TypeOK, RowsTyped

(* Types: every row, list and request is of the kind its table holds, so   *)
(* what a handler carries from one await to the next is what the statement *)
(* after it needs.                                                         *)
THEOREM SafetyTyped == Spec => []TypeOK
<1>1. TypeOK /\ Asks /\ [Next]_vars => (TypeOK /\ Asks)'
  BY StepTyped
<1> QED BY <1>1, InitTyped, PTL DEF Spec

-----------------------------------------------------------------------------
(* The tables of people: a row is a new one, with the next id, or one that *)
(* was there, whose completion and return are not taken back; and there    *)
(* are finitely many.                                                      *)
FromAssigned(a) ==
  \/ \E x \in assigned : /\ x.id = a.id /\ x.record = a.record /\ x.person = a.person
                         /\ x.expiry # None => a.expiry # None
  \/ a.id > rowSeq
FromDelivered(d) ==
  \/ \E x \in delivered : /\ x.id = d.id /\ x.record = d.record /\ x.person = d.person
                          /\ x.returned => d.returned
  \/ d.id > rowSeq
Dated(d) == d.status \in Closing => d.returned

(* In every step the assignments and the deliveries are old rows that kept *)
(* who they are for, or new ones with new ids; a date once set stays, and  *)
(* a delivery that is closed has its date of return.                       *)
LEMMA RowSteps ==
  ASSUME TypeOK, Asks, [Next]_vars, IsFiniteSet(assigned), ReturnsDated
  PROVE  /\ rowSeq' >= rowSeq /\ IsFiniteSet(assigned')
         /\ \A a \in assigned' : FromAssigned(a)
         /\ \A d \in delivered' : FromDelivered(d) /\ Dated(d)
<1> DEFINE Rows == /\ rowSeq' >= rowSeq /\ IsFiniteSet(assigned')
                   /\ \A a \in assigned' : FromAssigned(a)
                   /\ \A d \in delivered' : FromDelivered(d) /\ Dated(d)
<1>0. rowSeq \in Nat /\ assigned \subseteq Assignment /\ delivered \subseteq Delivery
  BY DEF TypeOK
<1>1. /\ \A a \in assigned : FromAssigned(a)
      /\ \A d \in delivered : FromDelivered(d) /\ Dated(d)
  BY DEF FromAssigned, FromDelivered, Dated, ReturnsDated
<1>2. ASSUME rowSeq' >= rowSeq, assigned' \subseteq assigned, delivered' \subseteq delivered
      PROVE  Rows
  BY <1>1, <1>2, FS_Subset
<1>3. ASSUME NEW h \in Handler, Starts(h)
      PROVE  Rows
  <2>1. UNCHANGED <<assigned, delivered, rowSeq>>
    BY <1>3, Zenon DEF Starts, CreateTraining, CreateEpi, CreateComplianceItem, CreateRecord,
         UpdateTraining, UpdateEpi, UpdateTrainingOrEpi, UpdateComplianceItem, Assign, Complete,
         Deliver, peopleVars
  <2> QED BY <1>0, <1>2, <2>1
<1>4. ASSUME NEW d \in delivered, NEW s \in UsageStatus, UpdateDelivery(d, s)
      PROVE  Rows
  <2> DEFINE e == [d EXCEPT !.status = s, !.returned = @ \/ s \in Closing]
  <2>1. delivered' = (delivered \ {d}) \cup {e} /\ UNCHANGED <<assigned, rowSeq>>
    BY <1>4 DEF UpdateDelivery
  <2>2. /\ e.id = d.id /\ e.record = d.record /\ e.person = d.person /\ e.status = s
        /\ e.returned = (d.returned \/ s \in Closing)
    BY <1>0 DEF Delivery
  <2> HIDE DEF e
  <2>3. FromDelivered(e) /\ Dated(e)
    BY <2>2 DEF FromDelivered, Dated
  <2> QED BY <1>0, <1>1, <2>1, <2>3
<1>5. ASSUME Administration, ~ \E d \in delivered, s \in UsageStatus : UpdateDelivery(d, s)
      PROVE  Rows
  <2>1. assigned' \subseteq assigned /\ delivered' \subseteq delivered /\ UNCHANGED rowSeq
    BY <1>5 DEF Administration, UpdateModules, RemoveTraining, RemoveEpi, RemoveComplianceItem,
         RemoveRecord, RemoveAssignment, RemoveDelivery, Tick, peopleVars
  <2> QED BY <1>0, <1>2, <2>1
<1>6. ASSUME NEW a, assigned' = assigned \cup {a}, FromAssigned(a), UNCHANGED delivered,
             rowSeq' >= rowSeq
      PROVE  Rows
  BY <1>1, <1>6, FS_AddElement
<1>7. ASSUME NEW h \in Handler, InsertAssignment(h)
      PROVE  Rows
  <2> DEFINE a == [id |-> rowSeq', record |-> req[h].record, person |-> Head(req[h].people),
                   expiry |-> None]
  <2>1. assigned' = assigned \cup {a} /\ UNCHANGED delivered /\ rowSeq' = rowSeq + 1
    BY <1>7 DEF InsertAssignment, NewRow
  <2>2. a.id = rowSeq'
    OBVIOUS
  <2> HIDE DEF a
  <2> QED BY <1>0, <1>6, <2>1, <2>2 DEF FromAssigned
<1>8. ASSUME NEW h \in Handler, Renew(h)
      PROVE  Rows
  <2>0. UNCHANGED delivered
    BY <1>8 DEF Renew
  <2>1. CASE req[h].row = None
    <3> DEFINE a == [id |-> rowSeq', record |-> req[h].record, person |-> Head(req[h].people),
                     expiry |-> req[h].expiry]
    <3>1. assigned' = assigned \cup {a} /\ rowSeq' = rowSeq + 1
      BY <1>8, <2>1 DEF Renew, NewRow
    <3>2. a.id = rowSeq'
      OBVIOUS
    <3> HIDE DEF a
    <3> QED BY <1>0, <1>6, <2>0, <3>1, <3>2 DEF FromAssigned
  <2>2. CASE req[h].row # None
    <3> DEFINE e == req[h].expiry
    <3>1. PICK a \in assigned : assigned' = (assigned \ {a}) \cup {[a EXCEPT !.expiry = e]}
      BY <1>8, <2>2 DEF Renew
    <3>2. UNCHANGED rowSeq
      BY <1>8, <2>2 DEF Renew
    <3>3. e # None
      <4>1. req[h] \in HandlerState /\ req[h].next = "renew"
        BY <1>8 DEF Renew, TypeOK
      <4> QED BY <4>1, LookState, SafetyAssumption DEF Time
    <3> HIDE DEF e
    <3> DEFINE b == [a EXCEPT !.expiry = e]
    <3>4. b.id = a.id /\ b.record = a.record /\ b.person = a.person /\ b.expiry = e
      BY <1>0, <3>1 DEF Assignment
    <3>5. assigned' = (assigned \ {a}) \cup {b}
      BY <3>1
    <3> HIDE DEF b
    <3>6. FromAssigned(b)
      BY <3>1, <3>3, <3>4 DEF FromAssigned
    <3>7. IsFiniteSet(assigned')
      BY <3>5, FS_RemoveElement, FS_AddElement
    <3> QED BY <1>0, <1>1, <2>0, <3>2, <3>5, <3>6, <3>7
  <2> QED BY <2>1, <2>2
<1>9. ASSUME NEW h \in Handler, InsertDelivery(h)
      PROVE  Rows
  <2> DEFINE d == [id |-> rowSeq', record |-> req[h].record, person |-> Head(req[h].people),
                   status |-> DeliveredStatus, returned |-> FALSE]
  <2>1. delivered' = delivered \cup {d} /\ UNCHANGED assigned /\ rowSeq' = rowSeq + 1
    BY <1>9 DEF InsertDelivery, NewRow
  <2>2. d.id = rowSeq' /\ d.status \notin Closing
    BY DEF DeliveredStatus, Closing
  <2> HIDE DEF d
  <2> QED BY <1>0, <1>1, <2>1, <2>2 DEF FromDelivered, Dated
<1>10. ASSUME NEW h \in Handler, Continues(h), ~ InsertAssignment(h), ~ Renew(h), ~ InsertDelivery(h)
       PROVE  Rows
  <2>1. UNCHANGED <<assigned, delivered>> /\ (rowSeq' = rowSeq \/ NewRow)
    BY <1>10, Zenon DEF Continues, AssertEditable, CheckTerminal, WriteRecord, LookForPrevious,
         Answer, Fail, peopleVars
  <2>2. rowSeq' >= rowSeq
    BY <1>0, <2>1 DEF NewRow
  <2> QED BY <1>2, <2>1, <2>2
<1>11. ASSUME UNCHANGED vars
       PROVE  Rows
  BY <1>0, <1>2, <1>11 DEF vars, peopleVars
<1> HIDE DEF Rows
<1>12. Rows
  BY <1>3, <1>4, <1>5, <1>7, <1>8, <1>9, <1>10, <1>11, Zenon DEF Next
<1> QED BY <1>12 DEF Rows

(* assign and complete agree: the one row a person has that one of them    *)
(* takes for valid or pending, the other does too, at the same instant.    *)
THEOREM SafetyCoverageAgrees == Spec => []CoverageAgrees
<1> DEFINE Inv == TypeOK /\ Asks /\ IsFiniteSet(assigned) /\ ReturnsDated
<1>1. Init => Inv
  BY InitTyped, FS_EmptySet DEF Init, ReturnsDated
<1>2. Inv /\ [Next]_vars => Inv'
  BY StepTyped, RowSteps DEF ReturnsDated, Dated
<1>3. ASSUME Inv
      PROVE  CoverageAgrees
  <2> SUFFICES ASSUME NEW r \in records, NEW p \in Person
               PROVE  /\ Keeps(r.id, p, now) => Covered(r.id, p)
                      /\ (\E a \in Latest(Assigned(r.id, p)) : a.expiry = None) => Covered(r.id, p)
                      /\ Cardinality(Assigned(r.id, p)) = 1 /\ Covered(r.id, p) =>
                           Keeps(r.id, p, now) \/ \E a \in Assigned(r.id, p) : a.expiry = None
    BY DEF CoverageAgrees
  <2> DEFINE A == Assigned(r.id, p)
  <2>0. A \subseteq assigned
    BY DEF Assigned
  <2>1. now \in Nat /\ \A a \in A : a.id \in Nat /\ (a.expiry \in Nat \/ a.expiry = None)
    BY <1>3, <2>0 DEF TypeOK, Assignment, Time, Nullable
  <2>2. \A a \in A : OpenAssignment(a) <=> a.expiry = None \/ ~ Lapsed(a, now)
    BY <2>1 DEF OpenAssignment, Lapsed
  <2>3. Covered(r.id, p) <=> \E a \in A : OpenAssignment(a)
    BY DEF Covered
  <2>4. Keeps(r.id, p, now) <=> \E a \in Latest(A) : ~ Lapsed(a, now)
    BY DEF Keeps
  <2>5. IsFiniteSet(A)
    BY <1>3, <2>0, FS_Subset
  <2> HIDE DEF A
  <2>6. ASSUME Cardinality(A) = 1, Covered(r.id, p)
        PROVE  Keeps(r.id, p, now) \/ \E a \in A : a.expiry = None
    <3>1. PICK a : A = {a}
      BY <2>5, <2>6, FS_Singleton
    <3>2. a \in Latest(A)
      BY <2>1, <3>1 DEF Latest
    <3> QED BY <2>2, <2>3, <2>4, <2>6, <3>1, <3>2
  <2>7. Latest(A) \subseteq A
    BY DEF Latest
  <2>8. (Keeps(r.id, p, now) => Covered(r.id, p))
        /\ ((\E a \in Latest(A) : a.expiry = None) => Covered(r.id, p))
    BY <2>2, <2>3, <2>4, <2>7
  <2> QED BY <2>6, <2>8 DEF A
<1> QED BY <1>1, <1>2, <1>3, PTL DEF Spec

-----------------------------------------------------------------------------
(* A request that serves people one by one has just looked, goes on as it  *)
(* was, or has served the first of them.                                   *)
LEMMA ServeSteps ==
  ASSUME TypeOK, Asks, [Next]_vars, NEW h \in Handler, req'[h].next \in {"assign", "deliver"}
  PROVE  \/ req'[h] = req[h]
         \/ \E r \in records, asked \in Asked : Assign(h, r.id, asked) \/ Deliver(h, r.id, asked)
         \/ req[h].next \in {"assign", "deliver"} /\ req[h].people # << >> /\ Served(h)
<1> DEFINE Known ==
      \/ req'[h] = req[h]
      \/ \E r \in records, asked \in Asked : Assign(h, r.id, asked) \/ Deliver(h, r.id, asked)
      \/ req[h].next \in {"assign", "deliver"} /\ req[h].people # << >> /\ Served(h)
<1>r. req \in [Handler -> HandlerState] /\ Idle.next = "idle"
  BY DEF TypeOK, Idle
<1>1. ASSUME UNCHANGED req
      PROVE  Known
  BY <1>1
<1>2. ASSUME NEW g \in Handler, NEW s, Become(g, s), s.next \notin {"assign", "deliver"} \/ g # h
      PROVE  Known
  BY <1>2, <1>r DEF Become
<1>3. ASSUME NEW t \in Terminal, NEW safety \in BOOLEAN, NEW asked \in ModulesAsked,
             UpdateModules(t, safety, asked)
      PROVE  Known
  <2> DEFINE Has(g) == g \in Checking /\ PackageHas(packages'[t], req[g].kind)
  <2>1. req' = [g \in Handler |-> IF Has(g) THEN [req[g] EXCEPT !.had = @ \cup {t}] ELSE req[g]]
    BY <1>3 DEF UpdateModules
  <2>2. Has(h) => req[h].next \in {"editable", "check"}
    BY DEF Checking
  <2> HIDE DEF Has
  <2>3. CASE Has(h)
    <3>1. req'[h] = [req[h] EXCEPT !.had = @ \cup {t}]
      BY <2>1, <2>3
    <3>2. req'[h].next = req[h].next
      BY <1>r, <2>2, <2>3, <3>1, CheckState
    <3> QED BY <2>2, <2>3, <3>2
  <2>4. CASE ~ Has(h)
    BY <2>1, <2>4
  <2> QED BY <2>3, <2>4
<1>4. ASSUME Administration
      PROVE  Known
  <2>1. UNCHANGED req \/ \E t \in Terminal, safety \in BOOLEAN, asked \in ModulesAsked :
                            UpdateModules(t, safety, asked)
    BY <1>4, Zenon DEF Administration, RemoveTraining, RemoveEpi, RemoveComplianceItem, RemoveRecord,
         RemoveAssignment, RemoveDelivery, UpdateDelivery, Tick
  <2> HIDE DEF Known
  <2> QED BY <1>1, <1>3, <2>1, Zenon
<1>5. ASSUME NEW g \in Handler, NEW asked \in SUBSET Terminal, NEW access \in SUBSET Terminal,
             NEW k, CreateRecord(g, k, asked, access)
      PROVE  Known
  <2> DEFINE s == ToWrite(k, None, asked, {}, asked)
  <2>1. s.next = "check" /\ Become(g, s)
    BY <1>5 DEF CreateRecord, Begin, ToWrite
  <2> HIDE DEF s
  <2> QED BY <1>2, <2>1
<1>6. ASSUME NEW g \in Handler, NEW r \in records, NEW list, NEW access \in SUBSET Terminal,
             \/ UpdateTraining(g, r, list, access) \/ UpdateEpi(g, r, list, access)
             \/ UpdateComplianceItem(g, r, list, access)
      PROVE  Known
  <2>1. \/ Become(g, [UpdateChecks(r, list) EXCEPT !.next = "editable"])
        \/ Become(g, UpdateChecks(r, list))
    BY <1>6, Zenon DEF UpdateTraining, UpdateEpi, UpdateTrainingOrEpi, UpdateComplianceItem, Begin
  <2> DEFINE s == UpdateChecks(r, list)
             e == [s EXCEPT !.next = "editable"]
  <2>2. s.next = "check" /\ e.next = "editable"
    BY DEF UpdateChecks, ToWrite
  <2>3. Become(g, s) \/ Become(g, e)
    BY <2>1
  <2> HIDE DEF s, e
  <2> QED BY <1>2, <2>2, <2>3
<1>7. ASSUME NEW g \in Handler, NEW r \in records, NEW asked \in Asked, NEW expiry \in Time,
             Complete(g, r.id, asked, expiry)
      PROVE  Known
  <2> DEFINE s == [next |-> "look", record |-> r.id, people |-> asked, expiry |-> expiry,
                   at |-> now, row |-> None]
  <2>1. s.next = "look" /\ Become(g, s)
    BY <1>7 DEF Complete, Begin
  <2> HIDE DEF s
  <2> QED BY <1>2, <2>1
<1>8. ASSUME NEW g \in Handler, NEW r \in records, NEW asked \in Asked,
             Assign(g, r.id, asked) \/ Deliver(g, r.id, asked)
      PROVE  Known
  <2>1. CASE g = h
    BY <1>8, <2>1
  <2>2. CASE g # h
    <3>1. PICK s : Become(g, s)
      BY <1>8, Zenon DEF Assign, Deliver, Begin
    <3> QED BY <1>2, <2>2, <3>1
  <2> QED BY <2>1, <2>2
<1>9. ASSUME NEW g \in Handler, Starts(g)
      PROVE  Known
  <2> HIDE DEF Known
  <2> QED BY <1>5, <1>6, <1>7, <1>8, <1>9, Zenon DEF Starts, CreateTraining, CreateEpi,
           CreateComplianceItem
<1>10. ASSUME NEW g \in Handler, Continues(g)
       PROVE  Known
  <2> DEFINE q == req[g]
  <2>1. CASE WriteRecord(g) \/ Answer(g) \/ Fail(g)
    <3>1. Become(g, Idle)
      BY <2>1, Zenon DEF WriteRecord, Answer, Fail
    <3> QED BY <1>2, <1>r, <3>1
  <2>2. CASE InsertAssignment(g) \/ InsertDelivery(g)
    <3>1. q.next \in {"assign", "deliver"} /\ q.people # << >> /\ Served(g)
      BY <2>2 DEF InsertAssignment, InsertDelivery
    <3>2. g # h => Known
      BY <1>2, <3>1 DEF Served
    <3> QED BY <3>1, <3>2
  <2>3. CASE AssertEditable(g)
    <3> DEFINE s == [q EXCEPT !.next = "check"]
    <3>1. q.next = "editable" /\ Become(g, s)
      BY <2>3 DEF AssertEditable
    <3>2. s.next = "check"
      BY <1>r, <3>1, CheckState
    <3> HIDE DEF s
    <3> QED BY <1>2, <3>1, <3>2
  <2>4. ASSUME NEW t \in Terminal, CheckTerminal(g, t)
        PROVE  Known
    <3> DEFINE s == [q EXCEPT !.unchecked = @ \ {t}]
    <3>1. q.next = "check" /\ Become(g, s)
      BY <2>4 DEF CheckTerminal
    <3>2. s.next = "check"
      BY <1>r, <3>1, CheckState
    <3> HIDE DEF s
    <3> QED BY <1>2, <3>1, <3>2
  <2>5. CASE LookForPrevious(g)
    <3>1. q.next = "look"
      BY <2>5 DEF LookForPrevious
    <3>2. q \in [next : {"look", "renew"}, record : Nat, people : Asked, expiry : Time,
                 at : Time, row : Nullable(Nat)]
      BY <1>r, <3>1, LookState
    <3>3. \/ Become(g, [q EXCEPT !.people = Tail(@)])
          \/ \E row : Become(g, [q EXCEPT !.next = "renew", !.row = row])
      BY <2>5, Zenon DEF LookForPrevious, Served
    <3>4. CASE Become(g, [q EXCEPT !.people = Tail(@)])
      <4> DEFINE s == [q EXCEPT !.people = Tail(@)]
      <4>1. s.next = "look" /\ Become(g, s)
        BY <3>1, <3>2, <3>4
      <4> HIDE DEF s
      <4> QED BY <1>2, <4>1
    <3>5. ASSUME NEW row, Become(g, [q EXCEPT !.next = "renew", !.row = row])
          PROVE  Known
      <4> DEFINE s == [q EXCEPT !.next = "renew", !.row = row]
      <4>1. s.next = "renew" /\ Become(g, s)
        BY <3>2, <3>5
      <4> HIDE DEF s
      <4> QED BY <1>2, <4>1
    <3> HIDE DEF Known, q
    <3> QED BY <3>3, <3>4, <3>5
  <2>6. CASE Renew(g)
    <3> DEFINE s == [q EXCEPT !.next = "look", !.row = None, !.people = Tail(@)]
    <3>1. q.next = "renew" /\ Become(g, s)
      BY <2>6 DEF Renew
    <3>2. s.next = "look"
      BY <1>r, <3>1, LookState
    <3> HIDE DEF s
    <3> QED BY <1>2, <3>1, <3>2
  <2> HIDE DEF Known
  <2> QED BY <1>10, <2>1, <2>2, <2>3, <2>4, <2>5, <2>6, Zenon DEF Continues
<1>11. ASSUME UNCHANGED vars
       PROVE  Known
  BY <1>1, <1>11 DEF vars
<1> HIDE DEF Known
<1>12. Known
  BY <1>4, <1>9, <1>10, <1>11, Zenon DEF Next
<1> QED BY <1>12, Zenon DEF Known

(* What a request saw when it looked stays true of the rows there were.    *)
LEMMA LookedKept ==
  ASSUME TypeOK, Asks, Looked, ReturnsDated, IsFiniteSet(assigned), [Next]_vars, TypeOK'
  PROVE  Looked'
<1> SUFFICES ASSUME NEW h \in Handler, req'[h].next \in {"assign", "deliver"}
             PROVE  /\ req'[h].seen <= rowSeq'
                    /\ req'[h].next = "assign" => \A a \in assigned', i \in DOMAIN req'[h].people :
                         a.record = req'[h].record /\ a.person = req'[h].people[i]
                         /\ a.id <= req'[h].seen => a.expiry # None
                    /\ req'[h].next = "deliver" => \A d \in delivered', i \in DOMAIN req'[h].people :
                         d.record = req'[h].record /\ d.person = req'[h].people[i]
                         /\ d.id <= req'[h].seen => d.returned
  BY DEF Looked
<1> DEFINE q == req[h]
           s == req'[h]
           Fresh == /\ s.seen \in Nat /\ s.seen <= rowSeq
                    /\ s.next = "assign" => \A a \in assigned, i \in DOMAIN s.people :
                         a.record = s.record /\ a.person = s.people[i] /\ a.id <= s.seen
                         => a.expiry # None
                    /\ s.next = "deliver" => \A d \in delivered, i \in DOMAIN s.people :
                         d.record = s.record /\ d.person = s.people[i] /\ d.id <= s.seen
                         => d.returned
<1>0. /\ rowSeq \in Nat /\ rowSeq' \in Nat /\ now \in Nat /\ req \in [Handler -> HandlerState]
      /\ assigned \subseteq Assignment /\ delivered \subseteq Delivery
      /\ assigned' \subseteq Assignment /\ delivered' \subseteq Delivery
  BY DEF TypeOK, Time
<1>1. /\ rowSeq' >= rowSeq
      /\ \A a \in assigned' : FromAssigned(a)
      /\ \A d \in delivered' : FromDelivered(d)
  BY RowSteps
<1>2. ASSUME s = q
      PROVE  Fresh
  <2>1. s.seen \in Nat
    BY <1>0, <1>2, ServeState
  <2> QED BY <1>2, <2>1 DEF Looked
<1>3. ASSUME NEW r \in records, NEW asked \in Asked, Assign(h, r.id, asked)
      PROVE  Fresh
  <2>1. PICK people \in Asked :
          /\ Left(people, asked, {p \in Person : Covered(r.id, p)})
          /\ Become(h, [next |-> "assign", record |-> r.id, people |-> people, seen |-> rowSeq])
    BY <1>3 DEF Assign, Begin
  <2>2. s = [next |-> "assign", record |-> r.id, people |-> people, seen |-> rowSeq]
    BY <1>0, <2>1 DEF Become
  <2>3. s.next = "assign" /\ s.record = r.id /\ s.people = people /\ s.seen = rowSeq
    BY <2>2
  <2>4. ASSUME NEW a \in assigned, NEW i \in DOMAIN people, a.record = r.id, a.person = people[i]
        PROVE  a.expiry # None
    <3>1. people[i] \notin {p \in Person : Covered(r.id, p)}
      BY <2>1, LeftOver
    <3>2. a.person \in Person
      BY <1>0 DEF Assignment
    <3>3. ~ Covered(r.id, a.person)
      BY <2>4, <3>1, <3>2
    <3> QED BY <2>4, <3>3 DEF Covered, Assigned, OpenAssignment
  <2> QED BY <1>0, <2>3, <2>4
<1>4. ASSUME NEW r \in records, NEW asked \in Asked, Deliver(h, r.id, asked)
      PROVE  Fresh
  <2>1. PICK people \in Asked :
          /\ Left(people, asked, {p \in Person : Holds(r.id, p)})
          /\ Become(h, [next |-> "deliver", record |-> r.id, people |-> people, seen |-> rowSeq])
    BY <1>4 DEF Deliver, Begin
  <2>2. s = [next |-> "deliver", record |-> r.id, people |-> people, seen |-> rowSeq]
    BY <1>0, <2>1 DEF Become
  <2>3. s.next = "deliver" /\ s.record = r.id /\ s.people = people /\ s.seen = rowSeq
    BY <2>2
  <2>4. ASSUME NEW d \in delivered, NEW i \in DOMAIN people, d.record = r.id, d.person = people[i]
        PROVE  d.returned
    <3>1. people[i] \notin {p \in Person : Holds(r.id, p)}
      BY <2>1, LeftOver
    <3>2. d.person \in Person
      BY <1>0 DEF Delivery
    <3>3. ~ Holds(r.id, d.person)
      BY <2>4, <3>1, <3>2
    <3>4. d.status \in Closing
      BY <2>4, <3>3 DEF Holds, ActiveDelivery
    <3> QED BY <3>4 DEF ReturnsDated
  <2> QED BY <1>0, <2>3, <2>4
<1>5. ASSUME q.next \in {"assign", "deliver"}, q.people # << >>, Served(h)
      PROVE  Fresh
  <2>1. q \in [next : {"assign", "deliver"}, record : Nat, people : Asked, seen : Nat]
    BY <1>0, <1>5, ServeState
  <2>2. s = [q EXCEPT !.people = Tail(@)]
    BY <1>0, <1>5 DEF Served, Become
  <2> HIDE DEF q
  <2>3. s.next = q.next /\ s.record = q.record /\ s.people = Tail(q.people) /\ s.seen = q.seen
    BY <2>1, <2>2
  <2>4. q.seen \in Nat /\ q.people \in Asked
    BY <2>1
  <2>5. \A i \in DOMAIN Tail(q.people) :
          i + 1 \in DOMAIN q.people /\ Tail(q.people)[i] = q.people[i + 1]
    BY <1>5, <2>4, OthersLeft
  <2>6. /\ q.seen <= rowSeq
        /\ q.next = "assign" => \A a \in assigned, i \in DOMAIN q.people :
             a.record = q.record /\ a.person = q.people[i] /\ a.id <= q.seen => a.expiry # None
        /\ q.next = "deliver" => \A d \in delivered, i \in DOMAIN q.people :
             d.record = q.record /\ d.person = q.people[i] /\ d.id <= q.seen => d.returned
    BY <1>5 DEF Looked, q
  <2> DEFINE rest == Tail(q.people)
  <2> HIDE DEF rest
  <2>7. \A i \in DOMAIN rest : i + 1 \in DOMAIN q.people /\ rest[i] = q.people[i + 1]
    BY <2>5 DEF rest
  <2>8. s.people = rest
    BY <2>3 DEF rest
  <2> HIDE DEF s
  <2> QED BY <2>3, <2>4, <2>6, <2>7, <2>8
<1>6. Fresh
  <2> HIDE DEF Fresh
  <2> QED BY <1>2, <1>3, <1>4, <1>5, ServeSteps, Zenon
<1>7. ASSUME s.next = "assign", NEW a \in assigned', NEW i \in DOMAIN s.people,
             a.record = s.record, a.person = s.people[i], a.id <= s.seen
      PROVE  a.expiry # None
  <2>1. a.id \in Nat /\ ~ (a.id > rowSeq)
    BY <1>0, <1>6, <1>7 DEF Assignment
  <2>2. PICK x \in assigned : /\ x.id = a.id /\ x.record = a.record /\ x.person = a.person
                              /\ x.expiry # None => a.expiry # None
    BY <1>1, <2>1 DEF FromAssigned
  <2> HIDE DEF s
  <2> QED BY <1>6, <1>7, <2>2
<1>8. ASSUME s.next = "deliver", NEW d \in delivered', NEW i \in DOMAIN s.people,
             d.record = s.record, d.person = s.people[i], d.id <= s.seen
      PROVE  d.returned
  <2>1. d.id \in Nat /\ ~ (d.id > rowSeq)
    BY <1>0, <1>6, <1>8 DEF Delivery
  <2>2. PICK x \in delivered : /\ x.id = d.id /\ x.record = d.record /\ x.person = d.person
                               /\ x.returned => d.returned
    BY <1>1, <2>1 DEF FromDelivered
  <2> HIDE DEF s
  <2> QED BY <1>6, <1>8, <2>2
<1>9. s.seen <= rowSeq'
  BY <1>0, <1>1, <1>6
<1> QED BY <1>7, <1>8, <1>9

(* assign and deliver: whoever had a pending assignment, or held an EPI    *)
(* never returned, when the request looked is given no second one by it,   *)
(* though it inserts row by row while others do the same.                  *)
THEOREM SafetyNoSecondOpen == Spec => NoSecondOpen
<1> DEFINE Inv == TypeOK /\ Asks /\ IsFiniteSet(assigned) /\ ReturnsDated /\ Looked
<1>1. Init => Inv
  BY InitTyped, FS_EmptySet DEF Init, ReturnsDated, Looked, Idle
<1>2. Inv /\ [Next]_vars => Inv'
  BY StepTyped, RowSteps, LookedKept DEF ReturnsDated, Dated
<1>3. ASSUME Inv, [Next]_vars, NEW h \in Handler, req[h].next \in {"assign", "deliver"},
             assigned' # assigned \/ delivered' # delivered, req'[h] # req[h]
      PROVE  req[h].people # << >>
  <2>0. req \in [Handler -> HandlerState] /\ req[h] \in HandlerState
    BY <1>3 DEF TypeOK
  <2>1. ASSUME Administration
        PROVE  req'[h] = req[h]
    <3>1. UNCHANGED req \/ \E t \in Terminal, safety \in BOOLEAN, asked \in ModulesAsked :
                              UpdateModules(t, safety, asked)
      BY <2>1, Zenon DEF Administration, RemoveTraining, RemoveEpi, RemoveComplianceItem,
           RemoveRecord, RemoveAssignment, RemoveDelivery, UpdateDelivery, Tick
    <3> QED BY <1>3, <3>1 DEF UpdateModules, Checking
  <2>2. ASSUME NEW g \in Handler, Starts(g)
        PROVE  UNCHANGED <<assigned, delivered>>
    BY <2>2, Zenon DEF Starts, CreateTraining, CreateEpi, CreateComplianceItem, CreateRecord,
         UpdateTraining, UpdateEpi, UpdateTrainingOrEpi, UpdateComplianceItem, Assign, Complete,
         Deliver, peopleVars
  <2>3. ASSUME NEW g \in Handler, Continues(g)
        PROVE  \/ UNCHANGED <<assigned, delivered>>
               \/ g = h /\ req[h].people # << >>
    <3>1. CASE InsertAssignment(g) \/ InsertDelivery(g) \/ Renew(g)
      <4>1. PICK s : Become(g, s)
        BY <3>1, Zenon DEF InsertAssignment, InsertDelivery, Renew, Served
      <4>2. g = h
        BY <1>3, <2>0, <4>1 DEF Become
      <4>3. ~ Renew(h)
        BY <1>3 DEF Renew
      <4> QED BY <3>1, <4>2, <4>3 DEF InsertAssignment, InsertDelivery
    <3>2. CASE ~ (InsertAssignment(g) \/ InsertDelivery(g) \/ Renew(g))
      BY <2>3, <3>2, Zenon DEF Continues, AssertEditable, CheckTerminal, WriteRecord,
           LookForPrevious, Answer, Fail, peopleVars
    <3> QED BY <3>1, <3>2
  <2>4. ~ UNCHANGED vars
    BY <1>3 DEF vars, peopleVars
  <2> QED BY <1>3, <2>1, <2>2, <2>3, <2>4, Zenon DEF Next
<1>4. ASSUME Inv, [Next]_vars
      PROVE  [\A h \in Handler :
                /\ req[h].next = "assign" /\ assigned' # assigned /\ req'[h] # req[h] =>
                     \A a \in assigned :
                       a.record = req[h].record /\ a.person = Head(req[h].people)
                       /\ a.id <= req[h].seen => a.expiry # None
                /\ req[h].next = "deliver" /\ delivered' # delivered /\ req'[h] # req[h] =>
                     \A d \in delivered :
                       d.record = req[h].record /\ d.person = Head(req[h].people)
                       /\ d.id <= req[h].seen => d.returned]_vars
  <2>1. ASSUME NEW h \in Handler, req[h].next \in {"assign", "deliver"},
               assigned' # assigned \/ delivered' # delivered, req'[h] # req[h]
        PROVE  1 \in DOMAIN req[h].people /\ Head(req[h].people) = req[h].people[1]
    <3>1. req[h].people \in Asked
      BY <1>4, <2>1, ServeState DEF TypeOK
    <3>2. req[h].people # << >>
      BY <1>3, <1>4, <2>1
    <3> QED BY <3>1, <3>2, OthersLeft
  <2>2. \A h \in Handler :
          /\ req[h].next = "assign" => \A a \in assigned, i \in DOMAIN req[h].people :
               a.record = req[h].record /\ a.person = req[h].people[i] /\ a.id <= req[h].seen
               => a.expiry # None
          /\ req[h].next = "deliver" => \A d \in delivered, i \in DOMAIN req[h].people :
               d.record = req[h].record /\ d.person = req[h].people[i] /\ d.id <= req[h].seen
               => d.returned
    BY <1>4 DEF Looked
  <2> QED BY <2>1, <2>2
<1>5. Inv /\ [Next]_vars =>
        [\A h \in Handler :
           /\ req[h].next = "assign" /\ assigned' # assigned /\ req'[h] # req[h] =>
                \A a \in assigned :
                  a.record = req[h].record /\ a.person = Head(req[h].people)
                  /\ a.id <= req[h].seen => a.expiry # None
           /\ req[h].next = "deliver" /\ delivered' # delivered /\ req'[h] # req[h] =>
                \A d \in delivered :
                  d.record = req[h].record /\ d.person = Head(req[h].people)
                  /\ d.id <= req[h].seen => d.returned]_vars
  BY <1>4
<1> QED BY <1>1, <1>2, <1>5, PTL DEF Spec, NoSecondOpen

-----------------------------------------------------------------------------
(* The lists of records.  The modules of a terminal are changed.           *)
LEMMA ListingModules ==
  ASSUME TypeOK, Listing, NEW t \in Terminal, NEW safety \in BOOLEAN, NEW asked \in ModulesAsked,
         UpdateModules(t, safety, asked)
  PROVE  Listing'
<1> DEFINE Has(g) == g \in Checking /\ PackageHas(packages'[t], req[g].kind)
           stored == IF safety THEN StorableSubModules(asked) ELSE {}
<1>0. /\ req \in [Handler -> HandlerState]
      /\ packages \in [Terminal -> [safety : BOOLEAN, stored : SUBSET Toggles]]
  BY DEF TypeOK
<1>1. req' = [g \in Handler |-> IF Has(g) THEN [req[g] EXCEPT !.had = @ \cup {t}] ELSE req[g]]
  BY DEF UpdateModules
<1>2. packages' = [packages EXCEPT ![t] = [safety |-> safety, stored |-> stored]]
  BY DEF UpdateModules
<1> HIDE DEF stored
<1>3. \A x \in Terminal : x # t => packages'[x] = packages[x]
  BY <1>0, <1>2
<1> SUFFICES ASSUME NEW h \in Handler, req'[h].next \in {"editable", "check"}
             PROVE  /\ \A x \in Terminal : PackageHas(packages'[x], req'[h].kind) => x \in req'[h].had
                    /\ req'[h].record = None \/ req'[h].asked # None => \A x \in req'[h].asked :
                         \/ x \in req'[h].unchecked \cup req'[h].had
                         \/ req'[h].kind # "compliance" /\ x \in req'[h].before
  BY DEF Listing, Listed, Checking, HasSubModule
<1> DEFINE q == req[h]
           s == req'[h]
<1>4. Has(h) <=> q.next \in {"editable", "check"} /\ PackageHas(packages'[t], q.kind)
  BY DEF Checking
<1>5. s = (IF Has(h) THEN [q EXCEPT !.had = @ \cup {t}] ELSE q)
  BY <1>1
<1> HIDE DEF Has
<1>6. q.next \in {"editable", "check"}
  BY <1>4, <1>5
<1>7. q \in [next : {"editable", "check"}, kind : Kind, record : Nullable(Nat),
             asked : Nullable(SUBSET Terminal), before : SUBSET Terminal,
             unchecked : SUBSET Terminal, had : SUBSET Terminal]
  BY <1>0, <1>6, CheckState
<1>8. /\ \A x \in Terminal : PackageHas(packages[x], q.kind) => x \in q.had
      /\ q.record = None \/ q.asked # None => \A x \in q.asked :
           x \in q.unchecked \cup q.had \/ (q.kind # "compliance" /\ x \in q.before)
  BY <1>6 DEF Listing, Listed, Checking, HasSubModule
<1>9. /\ s.record = q.record /\ s.kind = q.kind /\ s.asked = q.asked
      /\ s.before = q.before /\ s.unchecked = q.unchecked
      /\ s.had = IF Has(h) THEN q.had \cup {t} ELSE q.had
  <2> HIDE DEF q
  <2> QED BY <1>5, <1>7
<1>10. Has(h) <=> PackageHas(packages'[t], q.kind)
  BY <1>4, <1>6
<1> HIDE DEF q, s
<1>11. \A x \in Terminal : PackageHas(packages'[x], s.kind) => x \in s.had
  BY <1>3, <1>8, <1>9, <1>10
<1>12. s.record = None \/ s.asked # None => \A x \in s.asked :
         x \in s.unchecked \cup s.had \/ (s.kind # "compliance" /\ x \in s.before)
  BY <1>8, <1>9
<1> QED BY <1>11, <1>12 DEF s

(* A request came to its next statement.                                   *)
LEMMA ListingBecome ==
  ASSUME TypeOK, Listing, UNCHANGED packages, NEW g \in Handler, NEW s, Become(g, s),
         s.next \in {"editable", "check"} => Listed(s)
  PROVE  Listing'
<1>0. req \in [Handler -> HandlerState]
  BY DEF TypeOK
<1> SUFFICES ASSUME NEW h \in Handler, req'[h].next \in {"editable", "check"}
             PROVE  /\ \A x \in Terminal : PackageHas(packages[x], req'[h].kind) => x \in req'[h].had
                    /\ req'[h].record = None \/ req'[h].asked # None => \A x \in req'[h].asked :
                         \/ x \in req'[h].unchecked \cup req'[h].had
                         \/ req'[h].kind # "compliance" /\ x \in req'[h].before
  BY DEF Listing, Listed, Checking, HasSubModule
<1>1. CASE g = h
  <2>1. req'[h] = s
    BY <1>0, <1>1 DEF Become
  <2> QED BY <2>1 DEF Listed, HasSubModule
<1>2. CASE g # h
  <2>1. req'[h] = req[h]
    BY <1>0, <1>2 DEF Become
  <2> QED BY <2>1 DEF Listing, Listed, Checking, HasSubModule
<1> QED BY <1>1, <1>2

(* A list is handed to a request with every terminal that needs the module *)
(* still to be checked, and none is crossed off that does not have it.     *)
LEMMA ListingKept ==
  ASSUME TypeOK, Asks, Listing, [Next]_vars
  PROVE  Listing'
<1>0. req \in [Handler -> HandlerState] /\ records \subseteq Record /\ Idle.next = "idle"
  BY DEF TypeOK, Idle
<1>1. ASSUME UNCHANGED <<packages, req>>
      PROVE  Listing'
  BY <1>1 DEF Listing, Listed, Checking, HasSubModule
<1>2. ASSUME Administration
      PROVE  Listing'
  <2>1. UNCHANGED <<packages, req>> \/ \E t \in Terminal, safety \in BOOLEAN, asked \in ModulesAsked :
                                          UpdateModules(t, safety, asked)
    BY <1>2, Zenon DEF Administration, RemoveTraining, RemoveEpi, RemoveComplianceItem, RemoveRecord,
         RemoveAssignment, RemoveDelivery, UpdateDelivery, Tick
  <2> QED BY <1>1, <2>1, ListingModules, Zenon
<1>3. ASSUME NEW g \in Handler, NEW s, Become(g, s), UNCHANGED packages,
             s.next \notin {"editable", "check"}
      PROVE  Listing'
  BY <1>3, ListingBecome
<1>4. ASSUME NEW g \in Handler, NEW n \in {"editable", "check"}, NEW k, NEW r, NEW a, NEW b, NEW u,
             UNCHANGED packages, Become(g, [ToWrite(k, r, a, b, u) EXCEPT !.next = n]),
             r = None \/ a # None => \A t \in a : t \in u \/ (k # "compliance" /\ t \in b)
      PROVE  Listing'
  <2> DEFINE w == {t \in Terminal : HasSubModule(t, k)}
             s == [ToWrite(k, r, a, b, u) EXCEPT !.next = n]
  <2>1. ToWrite(k, r, a, b, u) = [next |-> "check", kind |-> k, record |-> r, asked |-> a,
                                  before |-> b, unchecked |-> u, had |-> w]
    BY DEF ToWrite
  <2>2. \A t \in Terminal : HasSubModule(t, k) => t \in w
    OBVIOUS
  <2> HIDE DEF w
  <2>3. /\ s.next = n /\ s.record = r /\ s.kind = k /\ s.asked = a /\ s.before = b
        /\ s.unchecked = u /\ s.had = w
    BY <2>1
  <2>4. Become(g, s)
    BY <1>4
  <2> HIDE DEF s
  <2>5. Listed(s)
    BY <1>4, <2>2, <2>3 DEF Listed
  <2> QED BY <1>4, <2>4, <2>5, ListingBecome
<1>5. ASSUME NEW g \in Handler, NEW k, NEW asked \in SUBSET Terminal, NEW access \in SUBSET Terminal,
             CreateRecord(g, k, asked, access)
      PROVE  Listing'
  <2>1. ToWrite(k, None, asked, {}, asked)
          = [ToWrite(k, None, asked, {}, asked) EXCEPT !.next = "check"]
    BY DEF ToWrite
  <2>2. /\ Become(g, [ToWrite(k, None, asked, {}, asked) EXCEPT !.next = "check"])
        /\ UNCHANGED packages
    BY <1>5, <2>1 DEF CreateRecord, Begin
  <2> QED BY <1>4, <2>2
<1>6. ASSUME NEW g \in Handler, NEW r \in records, NEW list, NEW access \in SUBSET Terminal,
             \/ UpdateTraining(g, r, list, access) \/ UpdateEpi(g, r, list, access)
             \/ UpdateComplianceItem(g, r, list, access)
      PROVE  Listing'
  <2> DEFINE u == Unchecked(r, list)
  <2>1. UpdateChecks(r, list) = [UpdateChecks(r, list) EXCEPT !.next = "check"]
    BY DEF UpdateChecks, ToWrite
  <2>2. PICK n \in {"editable", "check"} :
          Become(g, [ToWrite(r.kind, r.id, list, r.terminals, u) EXCEPT !.next = n])
    BY <1>6, <2>1 DEF UpdateTraining, UpdateEpi, UpdateTrainingOrEpi, UpdateComplianceItem,
         UpdateChecks, Begin
  <2>3. UNCHANGED packages
    BY <1>6 DEF UpdateTraining, UpdateEpi, UpdateTrainingOrEpi, UpdateComplianceItem
  <2>4. list # None => \A t \in list : t \in u \/ (r.kind # "compliance" /\ t \in r.terminals)
    BY DEF Unchecked, ToCheck
  <2>5. r.id # None
    BY <1>0, SafetyAssumption DEF Record
  <2> HIDE DEF u
  <2> QED BY <1>4, <2>2, <2>3, <2>4, <2>5
<1>7. ASSUME NEW g \in Handler, NEW r \in records, NEW asked \in Asked,
             \/ Assign(g, r.id, asked) \/ Deliver(g, r.id, asked)
             \/ \E expiry \in Time : Complete(g, r.id, asked, expiry)
      PROVE  Listing'
  <2>1. \A n, people : [next |-> n, record |-> r.id, people |-> people, seen |-> rowSeq].next = n
    OBVIOUS
  <2>2. \A expiry : [next |-> "look", record |-> r.id, people |-> asked, expiry |-> expiry,
                     at |-> now, row |-> None].next = "look"
    OBVIOUS
  <2>3. UNCHANGED packages
    BY <1>7, Zenon DEF Assign, Deliver, Complete
  <2>4. \E s : Become(g, s) /\ s.next \in {"assign", "deliver", "look"}
    BY <1>7, <2>1, <2>2, Zenon DEF Assign, Deliver, Complete, Begin
  <2> QED BY <1>3, <2>3, <2>4
<1>8. ASSUME NEW g \in Handler, Starts(g)
      PROVE  Listing'
  BY <1>5, <1>6, <1>7, <1>8, Zenon DEF Starts, CreateTraining, CreateEpi, CreateComplianceItem
<1>9. ASSUME NEW g \in Handler, req[g].next \in {"editable", "check"}
      PROVE  /\ req[g] \in [next : {"editable", "check"}, kind : Kind, record : Nullable(Nat),
                            asked : Nullable(SUBSET Terminal), before : SUBSET Terminal,
                            unchecked : SUBSET Terminal, had : SUBSET Terminal]
             /\ Listed(req[g])
  BY <1>0, <1>9, CheckState DEF Listing, Checking
<1>10. ASSUME NEW g \in Handler, AssertEditable(g)
       PROVE  Listing'
  <2> DEFINE q == req[g]
             s == [q EXCEPT !.next = "check"]
  <2>1. q.next = "editable" /\ Become(g, s) /\ UNCHANGED packages
    BY <1>10 DEF AssertEditable
  <2>2. q \in [next : {"editable", "check"}, kind : Kind, record : Nullable(Nat),
               asked : Nullable(SUBSET Terminal), before : SUBSET Terminal,
               unchecked : SUBSET Terminal, had : SUBSET Terminal] /\ Listed(q)
    BY <1>9, <2>1
  <2> HIDE DEF q
  <2>3. /\ s.record = q.record /\ s.kind = q.kind /\ s.asked = q.asked /\ s.before = q.before
        /\ s.unchecked = q.unchecked /\ s.had = q.had
    BY <2>2
  <2> HIDE DEF s
  <2>4. Listed(s)
    BY <2>2, <2>3 DEF Listed
  <2> QED BY <2>1, <2>4, ListingBecome
<1>11. ASSUME NEW g \in Handler, NEW t \in Terminal, CheckTerminal(g, t)
       PROVE  Listing'
  <2> DEFINE q == req[g]
             s == [q EXCEPT !.unchecked = @ \ {t}]
  <2>1. q.next = "check" /\ Become(g, s) /\ UNCHANGED packages /\ HasSubModule(t, q.kind)
    BY <1>11 DEF CheckTerminal
  <2>2. q \in [next : {"editable", "check"}, kind : Kind, record : Nullable(Nat),
               asked : Nullable(SUBSET Terminal), before : SUBSET Terminal,
               unchecked : SUBSET Terminal, had : SUBSET Terminal] /\ Listed(q)
    BY <1>9, <2>1
  <2> HIDE DEF q
  <2>3. /\ s.record = q.record /\ s.kind = q.kind /\ s.asked = q.asked /\ s.before = q.before
        /\ s.unchecked = q.unchecked \ {t} /\ s.had = q.had
    BY <2>2
  <2> HIDE DEF s
  <2>4. Listed(s)
    BY <2>1, <2>2, <2>3 DEF Listed
  <2> QED BY <2>1, <2>4, ListingBecome
<1>12. ASSUME NEW g \in Handler, Continues(g), ~ AssertEditable(g),
              ~ \E t \in Terminal : CheckTerminal(g, t)
       PROVE  Listing'
  <2> DEFINE q == req[g]
  <2>0. UNCHANGED packages
    BY <1>12, Zenon DEF Continues, WriteRecord, InsertAssignment, LookForPrevious, Renew,
         InsertDelivery, Answer, Fail
  <2>1. CASE WriteRecord(g) \/ Answer(g) \/ Fail(g)
    <3>1. Become(g, Idle)
      BY <2>1, Zenon DEF WriteRecord, Answer, Fail
    <3> QED BY <1>0, <1>3, <2>0, <3>1
  <2>2. ASSUME q.next \in {"assign", "deliver", "look"}, Served(g)
        PROVE  Listing'
    <3> DEFINE s == [q EXCEPT !.people = Tail(@)]
    <3>1. Become(g, s)
      BY <2>2 DEF Served
    <3>2. s.next = q.next
      BY <1>0, <2>2, ServeState, LookState
    <3> HIDE DEF s
    <3> QED BY <1>3, <2>0, <2>2, <3>1, <3>2
  <2>3. CASE InsertAssignment(g) \/ InsertDelivery(g)
    BY <2>2, <2>3 DEF InsertAssignment, InsertDelivery
  <2>4. ASSUME q.next \in {"look", "renew"}, NEW row,
               Become(g, [q EXCEPT !.next = "renew", !.row = row])
        PROVE  Listing'
    <3> DEFINE s == [q EXCEPT !.next = "renew", !.row = row]
    <3>1. s.next = "renew" /\ Become(g, s)
      BY <1>0, <2>4, LookState
    <3> HIDE DEF s
    <3> QED BY <1>3, <2>0, <3>1
  <2>5. CASE LookForPrevious(g)
    <3>1. /\ q.next = "look"
          /\ Served(g) \/ \E row : Become(g, [q EXCEPT !.next = "renew", !.row = row])
      BY <2>5, Zenon DEF LookForPrevious
    <3> HIDE DEF q
    <3> QED BY <2>2, <2>4, <3>1
  <2>6. CASE Renew(g)
    <3> DEFINE s == [q EXCEPT !.next = "look", !.row = None, !.people = Tail(@)]
    <3>1. q.next = "renew" /\ Become(g, s)
      BY <2>6 DEF Renew
    <3>2. s.next = "look"
      BY <1>0, <3>1, LookState
    <3> HIDE DEF s
    <3> QED BY <1>3, <2>0, <3>1, <3>2
  <2> QED BY <1>12, <2>1, <2>3, <2>5, <2>6, Zenon DEF Continues
<1>13. UNCHANGED vars => UNCHANGED <<packages, req>>
  BY DEF vars
<1> QED BY <1>1, <1>2, <1>8, <1>10, <1>11, <1>12, <1>13, Zenon DEF Next

(* The lists of shared records: a terminal enters one only if it had the   *)
(* module while the request that lists it was served, whatever modules are *)
(* turned off between its checks and its write.                            *)
THEOREM SafetyListedHadModule == Spec => ListedHadModule
<1> DEFINE Inv == TypeOK /\ Asks /\ Listing
           Step == \A h \in Handler : LET q == req[h] IN
             q.next = "check" /\ records' # records /\ req'[h] = Idle =>
               \A r \in records' \ records : \A t \in r.terminals :
                 t \in q.had \/ (q.kind # "compliance" /\ t \in q.before)
<1>1. Init => Inv
  BY InitTyped DEF Init, Listing, Checking, Idle
<1>2. Inv /\ [Next]_vars => Inv'
  BY StepTyped, ListingKept
<1>3. ASSUME Inv, [Next]_vars, NEW h \in Handler, req[h].next = "check", records' # records,
             req'[h] = Idle
      PROVE  WriteRecord(h)
  <2>0. req[h] # Idle /\ req \in [Handler -> HandlerState]
    BY <1>3 DEF Idle, TypeOK
  <2>1. ASSUME Administration
        PROVE  FALSE
    <3>1. UNCHANGED req \/ UNCHANGED records
      BY <2>1, Zenon DEF Administration, UpdateModules, RemoveTraining, RemoveEpi,
           RemoveComplianceItem, RemoveRecord, RemoveAssignment, RemoveDelivery, UpdateDelivery, Tick
    <3> QED BY <1>3, <2>0, <3>1
  <2>2. ASSUME NEW g \in Handler, Starts(g)
        PROVE  UNCHANGED records
    BY <2>2, Zenon DEF Starts, CreateTraining, CreateEpi, CreateComplianceItem, CreateRecord,
         UpdateTraining, UpdateEpi, UpdateTrainingOrEpi, UpdateComplianceItem, Assign, Complete,
         Deliver
  <2>3. ASSUME NEW g \in Handler, Continues(g)
        PROVE  UNCHANGED records \/ WriteRecord(h)
    <3>1. CASE WriteRecord(g)
      <4>1. Become(g, Idle)
        BY <3>1, Zenon DEF WriteRecord
      <4>2. g = h
        BY <1>3, <2>0, <4>1 DEF Become
      <4> QED BY <3>1, <4>2
    <3>2. CASE ~ WriteRecord(g)
      BY <2>3, <3>2, Zenon DEF Continues, AssertEditable, CheckTerminal, InsertAssignment,
           InsertDelivery, Renew, LookForPrevious, Answer, Fail
    <3> QED BY <3>1, <3>2
  <2>4. ~ UNCHANGED vars
    BY <1>3 DEF vars
  <2> QED BY <1>3, <2>1, <2>2, <2>3, <2>4, Zenon DEF Next
<1>4. ASSUME Inv, [Next]_vars
      PROVE  Step
  <2> SUFFICES ASSUME NEW h \in Handler, req[h].next = "check", records' # records,
                      req'[h] = Idle, NEW r \in records' \ records, NEW t \in r.terminals
               PROVE  t \in req[h].had \/ (req[h].kind # "compliance" /\ t \in req[h].before)
    OBVIOUS
  <2> DEFINE q == req[h]
  <2>1. WriteRecord(h)
    BY <1>3, <1>4
  <2>2. /\ Listed(q) /\ q.unchecked = {}
        /\ q.record = None => q.asked \in SUBSET Terminal
        /\ q.asked \in Nullable(SUBSET Terminal)
    <3>1. q.next = "check" /\ q.unchecked = {} /\ q \in HandlerState /\ Listed(q) /\ Formed(q)
      BY <1>4, <2>1 DEF WriteRecord, Listing, Checking, Asks, TypeOK
    <3>2. q.asked \in Nullable(SUBSET Terminal)
      BY <3>1, CheckState
    <3> QED BY <3>1, <3>2 DEF Formed
  <2>3. CASE q.record = None
    <3> DEFINE new == [id |-> rowSeq', kind |-> q.kind, terminals |-> q.asked]
    <3>1. records' = records \cup {new}
      BY <2>1, <2>3 DEF WriteRecord
    <3>2. new.terminals = q.asked
      OBVIOUS
    <3> HIDE DEF new, q
    <3>3. t \in q.asked
      BY <3>1, <3>2
    <3> QED BY <2>2, <2>3, <3>3 DEF Listed, q
  <2>4. CASE q.record # None
    <3>1. PICK x \in records : records' = (records \ {x}) \cup
            {IF q.asked = None THEN x ELSE [x EXCEPT !.terminals = q.asked]}
      BY <2>1, <2>4 DEF WriteRecord
    <3> HIDE DEF q
    <3>2. q.asked # None /\ r = [x EXCEPT !.terminals = q.asked]
      BY <3>1
    <3>3. x \in Record
      BY <1>4, <3>1 DEF TypeOK
    <3>4. t \in q.asked
      BY <3>2, <3>3 DEF Record
    <3> QED BY <2>2, <3>2, <3>4 DEF Listed, q
  <2> QED BY <2>3, <2>4
<1>5. Inv /\ [Next]_vars => [Step]_vars
  BY <1>4
<1> QED BY <1>1, <1>2, <1>5, PTL DEF Spec, ListedHadModule
=============================================================================
