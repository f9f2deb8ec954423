--------------------------- MODULE TenancyProofs ---------------------------
(***************************************************************************)
(* Proofs about Tenancy, for any number of users, terminals, occurrence    *)
(* types and requests in flight, and whatever operations a behaviour       *)
(* calls.                                                                  *)
(***************************************************************************)
EXTENDS Tenancy, FiniteSetTheorems, FunctionTheorems, TLAPS

(* Ids are handed out once, in order, so a row is found by its id.         *)
RowIds ==
  /\ \A x \in records : x.id \in 1 .. rowSeq
  /\ \A x, y \in records : x.id = y.id => x = y

(* What a request that saves a plan holds between its statements is true   *)
(* of the rows it names, as long as they are there.                        *)
PlanHeld(q) ==
  q.plan # None =>
    /\ q.plan \in 1 .. rowSeq
    /\ \A p \in OfKind("plan") : p.id = q.plan => p.terminal = q.terminal
RisksHeld(q) ==
  /\ q.risks \subseteq 1 .. rowSeq
  /\ \A x \in OfKind("risk") : x.id \in q.risks => x.terminal = q.terminal

PlansHeld ==
  \A h \in Handler :
    /\ req[h].next = "risks" => PlanHeld(req[h])
    /\ req[h].next = "save"  => PlanHeld(req[h]) /\ RisksHeld(req[h])

PlansInvariant == RowIds /\ PlansHeld /\ PlanRisksSameTerminal

(* What a removal or an edit was granted is true of the row it names, as   *)
(* long as it is there, and no later row can take its id.                  *)
Granted(q) ==
  /\ q.id \in 1 .. rowSeq
  /\ \A x \in records : x.id = q.id => x.terminal = q.terminal

GrantsInvariant ==
  /\ RowIds
  /\ \A h \in Handler : req[h].next \in {"remove", "change"} => Granted(req[h])

(* Undisturbed, the codes in use and those about to be used have been      *)
(* counted out.                                                            *)
CodesCounted ==
  ~ disturbed =>
    /\ \A t \in Existing : terminal[t].code <= Cardinality(Existing)
    /\ \A h \in Handler : req[h].next = "code" => req[h].code <= GenerateCode

-----------------------------------------------------------------------------
(* The local states a request passes through are states of HandlerState.   *)
LEMMA HandlerStates ==
  /\ Idle \in HandlerState
  /\ \A k \in Kind, t \in Terminal, d \in Nullable(OccType) :
       [next |-> "insert", kind |-> k, terminal |-> t, detail |-> d] \in HandlerState
  /\ \A i \in Nullable(Nat), t \in Terminal, A \in SUBSET Nat :
       /\ [next |-> "risks", plan |-> i, terminal |-> t, asked |-> A] \in HandlerState
       /\ [next |-> "save", plan |-> i, terminal |-> t, risks |-> A] \in HandlerState
  /\ \A i \in Nat, t \in Terminal, d \in Nullable(OccType) :
       /\ [next |-> "remove", id |-> i, terminal |-> t] \in HandlerState
       /\ [next |-> "change", id |-> i, terminal |-> t, type |-> d] \in HandlerState
  /\ \A t \in Terminal, c \in Nat :
       [next |-> "code", terminal |-> t, code |-> c] \in HandlerState
  /\ \A t \in Terminal, U \in SUBSET (Kind \cup {"user"}), f \in BOOLEAN :
       [next |-> "count", terminal |-> t, uncounted |-> U, found |-> f] \in HandlerState
BY DEF HandlerState, Idle

(* What is known of a request's local state from the step it is to take.   *)
LEMMA StateFields ==
  ASSUME NEW q \in HandlerState
  PROVE  /\ q.next = "insert" => /\ q.kind \in Kind
                                 /\ q.terminal \in Terminal
                                 /\ q.detail \in Nullable(OccType)
         /\ q.next = "risks" => /\ q.plan \in Nullable(Nat)
                                /\ q.terminal \in Terminal
                                /\ q.asked \in SUBSET Nat
         /\ q.next = "save" => /\ q.plan \in Nullable(Nat)
                               /\ q.terminal \in Terminal
                               /\ q.risks \in SUBSET Nat
         /\ q.next = "remove" => q.id \in Nat /\ q.terminal \in Terminal
         /\ q.next = "change" => /\ q.id \in Nat
                                 /\ q.terminal \in Terminal
                                 /\ q.type \in Nullable(OccType)
         /\ q.next = "code" => q.terminal \in Terminal /\ q.code \in Nat
         /\ q.next = "count" => /\ q.terminal \in Terminal
                                /\ q.uncounted \in SUBSET (Kind \cup {"user"})
                                /\ q.found \in BOOLEAN
BY DEF HandlerState, Idle

(* A count leaves a state of the same kind.                                *)
LEMMA CountState ==
  ASSUME NEW q \in HandlerState, q.next = "count",
         NEW U \in SUBSET (Kind \cup {"user"}), NEW f \in BOOLEAN
  PROVE  [q EXCEPT !.uncounted = U, !.found = f] \in HandlerState
<1>1. q \in [next : {"count"}, terminal : Terminal, uncounted : SUBSET (Kind \cup {"user"}),
             found : BOOLEAN]
  BY DEF HandlerState, Idle
<1>2. [q EXCEPT !.uncounted = U, !.found = f]
        \in [next : {"count"}, terminal : Terminal, uncounted : SUBSET (Kind \cup {"user"}),
             found : BOOLEAN]
  BY <1>1
<1> QED BY <1>2 DEF HandlerState

(* There are finitely many terminals, and the code generated is a number.  *)
LEMMA ExistingFinite == IsFiniteSet(Existing) /\ Cardinality(Existing) \in Nat
<1>1. Existing \subseteq Terminal
  BY DEF Existing
<1>2. IsFiniteSet(Existing)
  BY <1>1, FS_Subset, TenancyAssumption
<1> QED BY <1>2, FS_CardinalityType

(* The next code is a number, however the terminals are made.              *)
LEMMA CodeIsNumber == GenerateCode \in Nat
BY ExistingFinite DEF GenerateCode

(* A request's new local state keeps every request well typed.             *)
LEMMA BecomeTyped ==
  ASSUME req \in [Handler -> HandlerState], NEW h \in Handler, NEW s \in HandlerState,
         Become(h, s)
  PROVE  req' \in [Handler -> HandlerState]
BY DEF Become

(* The terminal a creation resolves exists, unless there is none.          *)
LEMMA Resolved ==
  ASSUME NEW who, NEW asked, ResolveTerminalId(who, asked) # None
  PROVE  ResolveTerminalId(who, asked) \in Terminal
BY DEF ResolveTerminalId, Existing

(* Making or editing a user touches nothing but the user.                  *)
LEMMA UserSteps ==
  ASSUME NEW u, NEW role, NEW home, NEW linked, NEW allowed, NEW types,
         \/ CreateUser(u, role, home, linked, allowed, types)
         \/ UpdateUser(u, role, home, linked, allowed, types)
  PROVE  UNCHANGED <<permitted, terminalVars, recordVars, req>>
<1>1. CASE CreateUser(u, role, home, linked, allowed, types)
  BY <1>1 DEF CreateUser
<1>2. CASE UpdateUser(u, role, home, linked, allowed, types)
  BY <1>2 DEF UpdateUser
<1> QED BY <1>1, <1>2

-----------------------------------------------------------------------------
(* The steps in which an administrator changes users and terminals keep    *)
(* the tables well typed.                                                  *)
LEMMA AdministrationTyped ==
  ASSUME TypeOK, Administration, UNCHANGED calls
  PROVE  TypeOK'
<1> USE DEF TypeOK, terminalVars, recordVars
<1>1. ASSUME NEW s \in SUBSET Terminal, SetPermission(s)
      PROVE  TypeOK'
  BY <1>1 DEF SetPermission
<1>2. ASSUME NEW u \in User, NEW home \in Nullable(Terminal),
             NEW allowed \in SUBSET Terminal, NEW role \in Role, NEW linked \in BOOLEAN,
             NEW types \in SUBSET OccType,
             CreateUser(u, role, home, linked, allowed, types)
      PROVE  TypeOK'
  <2> DEFINE row == [role |-> role, allowed |-> allowed, types |-> types,
                     home |-> IF role = "entity" THEN None ELSE home,
                     linked |-> role = "entity" /\ linked]
  <2>1. row \in Member
    BY DEF Member, Nullable
  <2>2. member' = [member EXCEPT ![u] = row]
    BY <1>2 DEF CreateUser
  <2> HIDE DEF row
  <2>3. member' \in [User -> Nullable(Member)]
    BY <2>1, <2>2 DEF Nullable
  <2> QED BY <1>2, <2>3 DEF CreateUser
<1>3. ASSUME NEW u \in User, NEW body \in Bodies, NEW role \in Carried(body, "role", Role),
             NEW home \in Carried(body, "home", Terminal),
             NEW linked \in Carried(body, "linked", BOOLEAN),
             NEW allowed \in Carried(body, "allowed", SUBSET Terminal),
             NEW types \in Carried(body, "types", SUBSET OccType),
             UpdateUser(u, role, home, linked, allowed, types)
      PROVE  TypeOK'
  <2> DEFINE r == IF role # None THEN role ELSE member[u].role
             m == IF home = None /\ role = "entity" THEN None
                  ELSE IF home = None THEN member[u].home ELSE home
             l == CASE linked # None -> linked
                    [] linked = None /\ role \in Role \ {"entity"} -> FALSE
                    [] OTHER -> member[u].linked
             a == IF allowed # None THEN allowed ELSE member[u].allowed
             y == IF types # None THEN types ELSE member[u].types
             row == [member[u] EXCEPT !.role = r, !.home = m, !.linked = l,
                                      !.allowed = a, !.types = y]
  <2>0. /\ role \in Nullable(Role) /\ home \in Nullable(Terminal)
        /\ linked \in Nullable(BOOLEAN) /\ allowed \in Nullable(SUBSET Terminal)
        /\ types \in Nullable(SUBSET OccType)
    BY DEF Carried, Nullable
  <2>1. member[u] \in Member
    BY <1>3 DEF UpdateUser, Nullable
  <2>2. /\ r \in Role /\ m \in Nullable(Terminal) /\ l \in BOOLEAN
        /\ a \in SUBSET Terminal /\ y \in SUBSET OccType
    BY <2>0, <2>1 DEF Member, Nullable
  <2>3. member' = [member EXCEPT ![u].role = r, ![u].home = m, ![u].linked = l,
                                 ![u].allowed = a, ![u].types = y]
    BY <1>3 DEF UpdateUser
  <2> HIDE DEF r, m, l, a, y
  <2>4. member' = [member EXCEPT ![u] = row]
    BY <2>1, <2>3 DEF Member
  <2>5. row \in Member
    BY <2>1, <2>2 DEF Member
  <2> HIDE DEF row
  <2>6. member' \in [User -> Nullable(Member)]
    BY <2>4, <2>5 DEF Nullable
  <2> QED BY <1>3, <2>6 DEF UpdateUser
<1>4. ASSUME NEW t \in Terminal, RemoveTerminal(t)
      PROVE  TypeOK'
  BY <1>4 DEF RemoveTerminal, RemovedStatus, TerminalStatus
<1>5. ASSUME NEW t \in Terminal, NEW c \in Code \cup Codes, NEW s \in TerminalStatus,
             UpdateTerminal(t, c, s)
      PROVE  TypeOK'
  <2>0. \A x \in Terminal : terminal[x].code \in Nat
    OBVIOUS
  <2>1. c \in Nat
    <3>1. CASE c \in Code
      BY <3>1, TenancyAssumption
    <3>2. CASE c \in Codes
      <4>1. PICK x \in Existing : c = terminal[x].code
        BY <3>2, Zenon DEF Codes
      <4>2. x \in Terminal
        BY DEF Existing
      <4> QED BY <2>0, <4>1, <4>2, Zenon
    <3> QED BY <3>1, <3>2
  <2>2. [status |-> s, code |-> c] \in [status : TerminalStatus \cup {"none", "deleted"}, code : Nat]
    BY <2>1
  <2>3. disturbed' \in BOOLEAN
    BY <1>5 DEF UpdateTerminal
  <2> QED BY <1>5, <2>2, <2>3 DEF UpdateTerminal
<1>6. ASSUME NEW t \in Terminal, NEW h \in Handler, AskTerminal(h, t)
      PROVE  TypeOK'
  <2>1. req' \in [Handler -> HandlerState]
    BY <1>6, HandlerStates, CodeIsNumber, BecomeTyped DEF AskTerminal, Begin
  <2> QED BY <1>6, <2>1 DEF AskTerminal
<1>7. ASSUME NEW t \in Terminal, NEW h \in Handler, NEW c \in Code,
             AskTerminalWithCode(h, t, c)
      PROVE  TypeOK'
  <2>1. req' \in [Handler -> HandlerState]
    BY <1>7, HandlerStates, TenancyAssumption, BecomeTyped DEF AskTerminalWithCode, Begin
  <2> QED BY <1>7, <2>1 DEF AskTerminalWithCode
<1>8. ASSUME NEW h \in Handler, NEW t \in Terminal, StartHardDelete(h, t)
      PROVE  TypeOK'
  <2>1. CountedTables \in SUBSET (Kind \cup {"user"})
    BY DEF CountedTables
  <2>2. req' \in [Handler -> HandlerState]
    BY <1>8, <2>1, HandlerStates, BecomeTyped DEF StartHardDelete, Begin
  <2> QED BY <1>8, <2>2 DEF StartHardDelete
<1> HIDE DEF TypeOK, terminalVars, recordVars
<1> QED BY <1>1, <1>2, <1>3, <1>4, <1>5, <1>6, <1>7, <1>8, Zenon DEF Administration

(* So do the steps that a request begins with.                             *)
LEMMA RequestTyped ==
  ASSUME TypeOK, NEW h \in Handler, NEW u \in Members, Requests(h, u), UNCHANGED calls
  PROVE  TypeOK'
<1> USE DEF TypeOK, terminalVars, recordVars
<1>1. ASSUME NEW k \in Kind, NEW t, NEW d \in Nullable(OccType),
             t # None => t \in Terminal, Ask(h, k, t, d)
      PROVE  TypeOK'
  <2>1. [next |-> "insert", kind |-> k, terminal |-> t, detail |-> d] \in HandlerState
    BY <1>1, HandlerStates DEF Ask
  <2>2. req' \in [Handler -> HandlerState]
    BY <1>1, <2>1, BecomeTyped DEF Ask, Begin
  <2> QED BY <1>1, <2>2 DEF Ask
<1>2. ASSUME NEW t \in Terminal,
             \/ CreateRisk(h, u, t) \/ CreateMapElement(h, u, t)
             \/ CreateDocument(h, u, t) \/ CreateAlert(h, u, t)
             \/ \E type \in OccType : CreateOccurrence(h, u, t, type)
      PROVE  TypeOK'
  <2>1. {"risk", "element", "document", "alert", "occurrence"} \subseteq Kind
    BY DEF Kind
  <2>2. None \in Nullable(OccType) /\ \A type \in OccType : type \in Nullable(OccType)
    BY DEF Nullable
  <2>3. ResolveTerminalId(member[u], t) # None => ResolveTerminalId(member[u], t) \in Terminal
    BY Resolved
  <2> HIDE DEF TypeOK
  <2> QED BY <1>1, <1>2, <2>1, <2>2, <2>3, Zenon
          DEF CreateRisk, CreateMapElement, CreateDocument, CreateAlert, CreateOccurrence
<1>3. ASSUME NEW r \in records, NEW x \in Record, records' = (records \ {r}) \cup {x},
             UNCHANGED <<member, permitted, terminalVars, links, rowSeq, req>>
      PROVE  TypeOK'
  BY <1>3
<1>4. ASSUME NEW t \in Terminal,
             UpdateRisk(u, t) \/ UpdateMapElement(u, t) \/ UpdateDocument(u, t)
      PROVE  TypeOK'
  <2>1. PICK r \in records : Update(u, r, t)
    BY <1>4, Zenon DEF UpdateRisk, UpdateMapElement, UpdateDocument, OfKind
  <2>2. r \in Record /\ Edited(r, t) = r
    BY DEF Edited
  <2>3. /\ records' = (records \ {r}) \cup {r}
        /\ UNCHANGED <<member, permitted, terminalVars, links, rowSeq, req>>
    BY <2>1, <2>2 DEF Update
  <2> HIDE DEF TypeOK
  <2> QED BY <1>3, <2>2, <2>3
<1>5. ASSUME NEW r \in records, NEW s \in AlertStatus, SetAlert(r, s)
      PROVE  TypeOK'
  <2>1. [r EXCEPT !.detail = s] \in Record
    BY DEF Record
  <2> HIDE DEF TypeOK
  <2> QED BY <1>3, <1>5, <2>1 DEF SetAlert
<1>6. ASSUME NEW r \in OfKind("alert"), Acknowledge(u, r) \/ Resolve(u, r)
      PROVE  TypeOK'
  BY <1>5, <1>6, Zenon DEF Acknowledge, Resolve, OfKind, AlertStatus
<1>7. ASSUME NEW r \in records, AskRemoval(h, u, r)
      PROVE  TypeOK'
  <2>1. r.id \in Nat /\ r.terminal \in Terminal
    BY DEF Record
  <2>2. [next |-> "remove", id |-> r.id, terminal |-> r.terminal] \in HandlerState
    BY <2>1, HandlerStates DEF Nullable
  <2>3. req' \in [Handler -> HandlerState]
    BY <1>7, <2>2, BecomeTyped DEF AskRemoval, Begin
  <2> QED BY <1>7, <2>3 DEF AskRemoval
<1>8. ASSUME NEW t \in Terminal, NEW A \in SUBSET (1 .. rowSeq), CreatePlan(h, u, t, A)
      PROVE  TypeOK'
  <2> DEFINE v == ResolveTerminalId(member[u], t)
  <2>1. /\ v # None /\ Begin(h, [next |-> "risks", plan |-> None, terminal |-> v, asked |-> A])
        /\ UNCHANGED <<member, permitted, terminalVars, recordVars>>
    BY <1>8 DEF CreatePlan
  <2>2. v \in Terminal /\ A \in SUBSET Nat /\ None \in Nullable(Nat)
    BY <2>1, Resolved DEF Nullable
  <2> HIDE DEF v
  <2>3. req' \in [Handler -> HandlerState]
    BY <2>1, <2>2, HandlerStates, BecomeTyped DEF Begin
  <2> QED BY <2>1, <2>3
<1>9. ASSUME NEW p \in OfKind("plan"), NEW A \in SUBSET (1 .. rowSeq), UpdatePlan(h, u, p, A)
      PROVE  TypeOK'
  <2>1. p.id \in Nullable(Nat) /\ p.terminal \in Terminal /\ A \in SUBSET Nat
    BY DEF OfKind, Record, Nullable
  <2>2. req' \in [Handler -> HandlerState]
    BY <1>9, <2>1, HandlerStates, BecomeTyped DEF UpdatePlan, Begin
  <2> QED BY <1>9, <2>2 DEF UpdatePlan
<1>10. ASSUME NEW r \in records, NEW d \in Nullable(OccType), AskChange(h, u, r, d)
       PROVE  TypeOK'
  <2>1. r.id \in Nat /\ r.terminal \in Terminal
    BY DEF Record
  <2>2. [next |-> "change", id |-> r.id, terminal |-> r.terminal, type |-> d] \in HandlerState
    BY <2>1, HandlerStates
  <2>3. req' \in [Handler -> HandlerState]
    BY <1>10, <2>2, BecomeTyped DEF AskChange, Begin
  <2> QED BY <1>10, <2>3 DEF AskChange
<1> HIDE DEF TypeOK, terminalVars, recordVars
<1>11. ASSUME RemoveRisk(h, u) \/ RemoveMapElement(h, u) \/ RemoveDocument(h, u)
                \/ RemovePlan(h, u)
       PROVE  TypeOK'
  BY <1>7, <1>11, Zenon DEF RemoveRisk, RemoveMapElement, RemoveDocument, RemovePlan, OfKind
<1>12. ASSUME RemoveOccurrence(h, u) \/ \E type \in OccType : UpdateOccurrence(h, u, type)
       PROVE  TypeOK'
  BY <1>10, <1>12, Zenon DEF RemoveOccurrence, UpdateOccurrence, OfKind, Nullable
<1> QED BY <1>2, <1>4, <1>6, <1>8, <1>9, <1>11, <1>12, Zenon DEF Requests

(* And those that a request goes on with.                                  *)
LEMMA ContinuesTyped ==
  ASSUME TypeOK, NEW h \in Handler, Continues(h), UNCHANGED calls
  PROVE  TypeOK'
<1> USE DEF TypeOK, terminalVars, recordVars
<1>0. req[h] \in HandlerState
  OBVIOUS
<1>1. ASSUME CreateTerminal(h)
      PROVE  TypeOK'
  <2> DEFINE q == req[h]
  <2>1. q.terminal \in Terminal /\ q.code \in Nat
    BY <1>0, <1>1, StateFields DEF CreateTerminal
  <2>2. req' \in [Handler -> HandlerState]
    BY <1>1, HandlerStates, BecomeTyped DEF CreateTerminal
  <2>3. \/ terminal' = terminal
        \/ terminal' = [terminal EXCEPT ![q.terminal] = [status |-> "Ativo", code |-> q.code]]
    BY <1>1 DEF CreateTerminal
  <2>4. [status |-> "Ativo", code |-> q.code]
          \in [status : TerminalStatus \cup {"none", "deleted"}, code : Nat]
    BY <2>1 DEF TerminalStatus
  <2> HIDE DEF q
  <2>5. terminal' \in [Terminal -> [status : TerminalStatus \cup {"none", "deleted"}, code : Nat]]
    BY <2>1, <2>3, <2>4
  <2> QED BY <1>1, <2>2, <2>5 DEF CreateTerminal
<1>2. ASSUME Insert(h)
      PROVE  TypeOK'
  <2> DEFINE q == req[h]
             x == [id |-> rowSeq', kind |-> q.kind, terminal |-> q.terminal,
                   detail |-> IF q.kind = "alert" THEN "ACTIVE" ELSE q.detail,
                   active |-> TRUE]
  <2>1. q.kind \in Kind /\ q.terminal \in Terminal /\ q.detail \in Nullable(OccType)
    BY <1>0, <1>2, StateFields DEF Insert
  <2>2. req' \in [Handler -> HandlerState]
    BY <1>2, HandlerStates, BecomeTyped DEF Insert
  <2>3. rowSeq' \in Nat /\ records' = records \cup {x}
    BY <1>2 DEF Insert
  <2>4. x \in Record
    BY <2>1, <2>3 DEF Record, AlertStatus, Nullable
  <2> HIDE DEF x
  <2> QED BY <1>2, <2>2, <2>3, <2>4 DEF Insert
<1>3. ASSUME Remove(h)
      PROVE  TypeOK'
  <2>1. req' \in [Handler -> HandlerState]
    BY <1>3, HandlerStates, BecomeTyped DEF Remove
  <2>2. records' \subseteq records /\ links' \subseteq links
    BY <1>3 DEF Remove
  <2> QED BY <1>3, <2>1, <2>2 DEF Remove
<1>4. ASSUME FindRisks(h)
      PROVE  TypeOK'
  <2> DEFINE q == req[h]
  <2>1. q.plan \in Nullable(Nat) /\ q.terminal \in Terminal /\ q.asked \in SUBSET Nat
    BY <1>0, <1>4, StateFields DEF FindRisks
  <2>2. ValidRiskIds(q.terminal, q.asked) \in SUBSET Nat
    BY <2>1 DEF ValidRiskIds
  <2>3. req' \in [Handler -> HandlerState]
    BY <1>4, <2>1, <2>2, HandlerStates, BecomeTyped DEF FindRisks
  <2> QED BY <1>4, <2>3 DEF FindRisks
<1>5. ASSUME SavePlan(h)
      PROVE  TypeOK'
  <2> DEFINE q == req[h]
             id == IF q.plan = None THEN rowSeq + 1 ELSE q.plan
             x == [id |-> id, kind |-> "plan", terminal |-> q.terminal, detail |-> None,
                   active |-> TRUE]
  <2>1. q.plan \in Nullable(Nat) /\ q.terminal \in Terminal /\ q.risks \in SUBSET Nat
    BY <1>0, <1>5, StateFields DEF SavePlan
  <2>2. req' \in [Handler -> HandlerState]
    BY <1>5, HandlerStates, BecomeTyped DEF SavePlan
  <2>3. id \in Nat
    BY <2>1 DEF Nullable
  <2>4. x \in Record
    BY <2>1, <2>3 DEF Record, Kind
  <2>5. /\ \/ records' = records \cup {x} /\ rowSeq' = id
           \/ UNCHANGED <<records, rowSeq>>
        /\ links' = {l \in links : l[1] # id} \cup {<<id, r>> : r \in q.risks}
    BY <1>5 DEF SavePlan
  <2> HIDE DEF x, id
  <2>6. records' \subseteq Record /\ rowSeq' \in Nat
    BY <2>3, <2>4, <2>5
  <2>7. {<<id, r>> : r \in q.risks} \subseteq Nat \X Nat
    BY <2>1, <2>3
  <2>8. links' \subseteq Nat \X Nat
    BY <2>5, <2>7
  <2> QED BY <1>5, <2>2, <2>6, <2>8 DEF SavePlan
<1>6. ASSUME NEW table \in Kind \cup {"user"}, CountAttached(h, table)
      PROVE  TypeOK'
  <2> DEFINE U == req[h].uncounted \ {table}
             f == req[h].found \/ Attached(req[h].terminal, table)
  <2>1. req[h].next = "count"
    BY <1>6 DEF CountAttached
  <2>2. U \in SUBSET (Kind \cup {"user"}) /\ f \in BOOLEAN
    BY <1>0, <2>1, StateFields
  <2>3. Become(h, [req[h] EXCEPT !.uncounted = U, !.found = f])
    BY <1>6 DEF CountAttached
  <2> HIDE DEF U, f
  <2>4. [req[h] EXCEPT !.uncounted = U, !.found = f] \in HandlerState
    BY <1>0, <2>1, <2>2, CountState
  <2>5. req' \in [Handler -> HandlerState]
    BY <2>3, <2>4, BecomeTyped
  <2> QED BY <1>6, <2>5 DEF CountAttached
<1>7. ASSUME HardDelete(h)
      PROVE  TypeOK'
  <2> DEFINE t == req[h].terminal
             M == [u \in User |-> IF u \in Members /\ member[u].home = t
                                  THEN [member[u] EXCEPT !.home = None]
                                  ELSE member[u]]
  <2>1. t \in Terminal
    BY <1>0, <1>7, StateFields DEF HardDelete
  <2>2. req' \in [Handler -> HandlerState]
    BY <1>7, HandlerStates, BecomeTyped DEF HardDelete
  <2>3. \/ terminal' = [terminal EXCEPT ![t].status = "deleted"] /\ member' = M
             /\ disturbed' = TRUE
        \/ UNCHANGED <<terminal, member, disturbed>>
    BY <1>7 DEF HardDelete
  <2>4. ASSUME NEW u \in User
        PROVE  M[u] \in Nullable(Member)
    BY <2>4 DEF Members, Nullable, Member
  <2>5. M \in [User -> Nullable(Member)]
    BY <2>4, Zenon
  <2> HIDE DEF M, t
  <2>6. terminal' \in [Terminal -> [status : TerminalStatus \cup {"none", "deleted"}, code : Nat]]
    BY <2>1, <2>3
  <2> QED BY <1>7, <2>2, <2>3, <2>5, <2>6 DEF HardDelete
<1>8. ASSUME Fail(h)
      PROVE  TypeOK'
  <2>1. req' \in [Handler -> HandlerState]
    BY <1>8, HandlerStates, BecomeTyped DEF Fail
  <2> QED BY <1>8, <2>1 DEF Fail
<1>9. ASSUME ChangeOccurrence(h)
      PROVE  TypeOK'
  <2> DEFINE q == req[h]
  <2>1. q.type \in Nullable(OccType)
    BY <1>0, <1>9, StateFields DEF ChangeOccurrence
  <2>2. req' \in [Handler -> HandlerState]
    BY <1>9, HandlerStates, BecomeTyped DEF ChangeOccurrence
  <2>3. records' = {IF r.id = q.id THEN Changed(r, q.type) ELSE r : r \in records}
    BY <1>9 DEF ChangeOccurrence
  <2>4. \A r \in records : Changed(r, q.type) \in Record
    BY <2>1 DEF Changed, Record, Nullable
  <2> HIDE DEF q
  <2>5. records' \subseteq Record
    BY <2>3, <2>4
  <2> QED BY <1>9, <2>2, <2>5 DEF ChangeOccurrence
<1> HIDE DEF TypeOK, terminalVars, recordVars
<1> QED BY <1>1, <1>2, <1>3, <1>4, <1>5, <1>6, <1>7, <1>8, <1>9, Zenon DEF Continues

(* What the seed leaves is well typed.                                     *)
LEMMA InitTyped == Init => TypeOK
<1> SUFFICES ASSUME Init
             PROVE  TypeOK
  OBVIOUS
<1>1. PICK n \in Seeds : \E code \in [Terminal -> 0 .. n] : SeededTerminals(n, code)
  BY DEF Init
<1>2. PICK code \in [Terminal -> 0 .. n] : SeededTerminals(n, code)
  BY <1>1
<1>3. n \in Nat
  BY TenancyAssumption
<1>4. terminal \in [Terminal -> [status : TerminalStatus \cup {"none", "deleted"}, code : Nat]]
  <2> DEFINE row(t) == [status |-> CASE code[t] = 0 -> "none" [] code[t] = 2 -> "Revisao"
                                     [] OTHER -> "Ativo",
                        code |-> code[t]]
  <2>1. terminal = [t \in Terminal |-> row(t)]
    BY <1>2, Zenon DEF SeededTerminals
  <2>2. \A t \in Terminal :
          row(t) \in [status : TerminalStatus \cup {"none", "deleted"}, code : Nat]
    BY <1>3 DEF TerminalStatus
  <2> HIDE DEF row
  <2> QED BY <2>1, <2>2
<1>5. SeededUsers \subseteq Member
  <2> DEFINE row(role, home, linked) ==
        [role |-> role, home |-> home, linked |-> linked, allowed |-> {},
         types |-> IF role = "admin" THEN {} ELSE OccType]
  <2>1. SeededUsers = {row("admin", None, FALSE), row("entity", None, TRUE)}
                        \cup {row("terminal", t, FALSE) : t \in Existing}
    BY DEF SeededUsers
  <2>2. \A t \in Existing : t \in Terminal
    BY DEF Existing
  <2>3. \A role \in Role, home \in Nullable(Terminal), linked \in BOOLEAN :
          row(role, home, linked) \in Member
    BY DEF Member
  <2>4. /\ row("admin", None, FALSE) \in Member /\ row("entity", None, TRUE) \in Member
        /\ \A t \in Terminal : row("terminal", t, FALSE) \in Member
    BY <2>3 DEF Role, Nullable
  <2> HIDE DEF row
  <2> QED BY <2>1, <2>2, <2>4, Zenon
<1>6. member \in [User -> Nullable(Member)] /\ permitted \subseteq Terminal
  BY <1>5 DEF Init, Nullable, Existing
<1>7. req \in [Handler -> HandlerState]
  BY HandlerStates DEF Init
<1> QED BY <1>4, <1>6, <1>7 DEF Init, TypeOK

(* Every step keeps the tables and the requests well typed.                *)
LEMMA StepTyped == TypeOK /\ [Next]_vars => TypeOK'
<1>1. ASSUME TypeOK, UNCHANGED vars
      PROVE  TypeOK'
  BY <1>1 DEF TypeOK, vars, terminalVars, recordVars
<1> QED BY <1>1, AdministrationTyped, RequestTyped, ContinuesTyped, Zenon DEF Next

(* Every table holds rows of its type, and every request is in a state its *)
(* handler can be in: among them that the next code is a number and that a *)
(* row is never left without its terminal.                                 *)
THEOREM TenancyTyped == Spec => []TypeOK
BY InitTyped, StepTyped, PTL DEF Spec

-----------------------------------------------------------------------------
(* What a step may do to the rows: nothing, or an insert, a deletion, the  *)
(* writing of a plan with its links, of an occurrence by its id, or of an  *)
(* alert's status.                                                         *)
LEMMA RowSteps ==
  ASSUME TypeOK, Next
  PROVE  \/ UNCHANGED recordVars
         \/ \E h \in Handler : Insert(h) \/ Remove(h) \/ SavePlan(h) \/ ChangeOccurrence(h)
         \/ \E r \in OfKind("alert"), s \in AlertStatus : SetAlert(r, s)
<1>1. ASSUME Administration
      PROVE  UNCHANGED recordVars
  <2>1. \A s : SetPermission(s) => UNCHANGED recordVars
    BY Zenon DEF SetPermission
  <2>2. \A u, home, allowed, role, linked, types :
          \/ CreateUser(u, role, home, linked, allowed, types)
          \/ UpdateUser(u, role, home, linked, allowed, types)
          => UNCHANGED recordVars
    BY UserSteps, Zenon
  <2>3. \A h, t, c, s :
          \/ RemoveTerminal(t) \/ UpdateTerminal(t, c, s) \/ AskTerminal(h, t)
          \/ AskTerminalWithCode(h, t, c) \/ StartHardDelete(h, t)
          => UNCHANGED recordVars
    BY Zenon DEF RemoveTerminal, UpdateTerminal, AskTerminal, AskTerminalWithCode,
         StartHardDelete
  <2> QED BY <1>1, <2>1, <2>2, <2>3, Zenon DEF Administration
<1>2. ASSUME NEW h \in Handler, Continues(h)
      PROVE  UNCHANGED recordVars \/ Insert(h) \/ Remove(h) \/ SavePlan(h) \/ ChangeOccurrence(h)
  BY <1>2, Zenon DEF Continues, CreateTerminal, FindRisks, CountAttached, HardDelete, Fail
<1>3. ASSUME NEW h \in Handler, NEW u \in Members, Requests(h, u)
      PROVE  \/ UNCHANGED recordVars
             \/ \E r \in OfKind("alert"), s \in AlertStatus : SetAlert(r, s)
  <2>1. ASSUME NEW t \in Terminal,
               \/ CreateRisk(h, u, t) \/ CreateMapElement(h, u, t) \/ CreateDocument(h, u, t)
               \/ CreateAlert(h, u, t) \/ (\E type \in OccType : CreateOccurrence(h, u, t, type))
               \/ (\E A \in SUBSET (1 .. rowSeq) : CreatePlan(h, u, t, A))
        PROVE  UNCHANGED recordVars
    BY <2>1, Zenon DEF CreateRisk, CreateMapElement, CreateDocument, CreateAlert,
         CreateOccurrence, Ask, CreatePlan
  <2>2. ASSUME NEW t \in Terminal,
               UpdateRisk(u, t) \/ UpdateMapElement(u, t) \/ UpdateDocument(u, t)
        PROVE  UNCHANGED recordVars
    <3>1. PICK r \in records : Update(u, r, t)
      BY <2>2, Zenon DEF UpdateRisk, UpdateMapElement, UpdateDocument, OfKind
    <3>2. (records \ {r}) \cup {r} = records
      OBVIOUS
    <3> QED BY <3>1, <3>2 DEF Update, Edited, recordVars
  <2>3. ASSUME \/ \E p \in OfKind("plan"), A \in SUBSET (1 .. rowSeq) : UpdatePlan(h, u, p, A)
               \/ RemoveRisk(h, u) \/ RemoveMapElement(h, u) \/ RemoveDocument(h, u)
               \/ RemovePlan(h, u) \/ RemoveOccurrence(h, u)
               \/ \E type \in OccType : UpdateOccurrence(h, u, type)
        PROVE  UNCHANGED recordVars
    BY <2>3, Zenon DEF UpdatePlan, RemoveRisk, RemoveMapElement, RemoveDocument, RemovePlan,
         AskRemoval, RemoveOccurrence, UpdateOccurrence, AskChange
  <2>4. ASSUME NEW r \in OfKind("alert"), Acknowledge(u, r) \/ Resolve(u, r)
        PROVE  \E s \in AlertStatus : SetAlert(r, s)
    BY <2>4, Zenon DEF Acknowledge, Resolve, AlertStatus
  <2> QED BY <1>3, <2>1, <2>2, <2>3, <2>4, Zenon DEF Requests
<1> QED BY <1>1, <1>2, <1>3, Zenon DEF Next

(* Only an exclusion takes a terminal away.                                *)
LEMMA TerminalSteps ==
  ASSUME TypeOK, Next
  PROVE  \/ \A t \in Terminal : TerminalExists(t) => TerminalExists(t)'
         \/ \E h \in Handler : HardDelete(h)
<1> USE DEF TypeOK
<1>1. ASSUME NEW t \in Terminal, RemoveTerminal(t)
      PROVE  \A x \in Terminal : TerminalExists(x) => TerminalExists(x)'
  BY <1>1 DEF RemoveTerminal, TerminalExists, RemovedStatus, TerminalStatus
<1>2. ASSUME NEW t \in Terminal, NEW c, NEW s \in TerminalStatus, UpdateTerminal(t, c, s)
      PROVE  \A x \in Terminal : TerminalExists(x) => TerminalExists(x)'
  BY <1>2 DEF UpdateTerminal, TerminalExists
<1>3. ASSUME NEW h \in Handler, CreateTerminal(h)
      PROVE  \A x \in Terminal : TerminalExists(x) => TerminalExists(x)'
  BY <1>3 DEF CreateTerminal, TerminalExists, TerminalStatus
<1>4. ASSUME terminal' = terminal
      PROVE  \A x \in Terminal : TerminalExists(x) => TerminalExists(x)'
  BY <1>4 DEF TerminalExists
<1> HIDE DEF TypeOK
<1>5. ASSUME Administration
      PROVE  \/ terminal' = terminal
             \/ \E t \in Terminal : RemoveTerminal(t)
             \/ \E t \in Terminal, c \in Code \cup Codes, s \in TerminalStatus :
                  UpdateTerminal(t, c, s)
  <2>1. \A s : SetPermission(s) => terminal' = terminal
    BY Zenon DEF SetPermission, terminalVars
  <2>2. \A u, home, allowed, role, linked, types :
          \/ CreateUser(u, role, home, linked, allowed, types)
          \/ UpdateUser(u, role, home, linked, allowed, types)
          => terminal' = terminal
    BY UserSteps, Zenon DEF terminalVars
  <2>3. \A h, t, c :
          AskTerminal(h, t) \/ AskTerminalWithCode(h, t, c) \/ StartHardDelete(h, t)
          => terminal' = terminal
    BY Zenon DEF AskTerminal, AskTerminalWithCode, StartHardDelete, terminalVars
  <2> QED BY <1>5, <2>1, <2>2, <2>3, Zenon DEF Administration
<1>6. ASSUME NEW h \in Handler, Continues(h)
      PROVE  terminal' = terminal \/ CreateTerminal(h) \/ HardDelete(h)
  BY <1>6, Zenon DEF Continues, Insert, Remove, ChangeOccurrence, FindRisks, SavePlan,
       CountAttached, Fail, terminalVars
<1>7. ASSUME NEW h \in Handler, NEW u \in Members, Requests(h, u)
      PROVE  terminal' = terminal
  BY <1>7, Zenon DEF Requests, CreateRisk, CreateMapElement, CreateDocument, CreateAlert,
       CreateOccurrence, Ask, CreatePlan, UpdateRisk, UpdateMapElement, UpdateDocument, Update,
       UpdatePlan, Acknowledge, Resolve, SetAlert, RemoveRisk, RemoveMapElement,
       RemoveDocument, RemovePlan, AskRemoval, RemoveOccurrence, UpdateOccurrence, AskChange,
       terminalVars
<1> QED BY <1>1, <1>2, <1>3, <1>4, <1>5, <1>6, <1>7, Zenon DEF Next

(* The writing of an occurrence keeps every row's id, kind and terminal,   *)
(* and makes no row of two and no two of one.                              *)
LEMMA ChangedRows ==
  ASSUME TypeOK, NEW h \in Handler, ChangeOccurrence(h)
  PROVE  /\ UNCHANGED <<rowSeq, links>>
         /\ \A x \in records' :
              \E y \in records : y.id = x.id /\ y.kind = x.kind /\ y.terminal = x.terminal
         /\ \A y \in records :
              \E x \in records' : y.id = x.id /\ y.kind = x.kind /\ y.terminal = x.terminal
         /\ (\A x, y \in records : x.id = y.id => x = y)
              => \A x, y \in records' : x.id = y.id => x = y
<1> DEFINE f(r) == IF r.id = req[h].id THEN Changed(r, req[h].type) ELSE r
<1>1. UNCHANGED <<rowSeq, links>> /\ records' = {f(r) : r \in records}
  BY DEF ChangeOccurrence
<1>2. \A r \in records : r \in Record
  BY DEF TypeOK
<1>3. \A r \in records : /\ f(r).id = r.id /\ f(r).kind = r.kind
                         /\ f(r).terminal = r.terminal
  BY <1>2 DEF Record, Changed
<1> HIDE DEF f
<1>4. ASSUME \A x, y \in records : x.id = y.id => x = y
      PROVE  \A x, y \in records' : x.id = y.id => x = y
  BY <1>1, <1>3, <1>4
<1> QED BY <1>1, <1>3, <1>4

(* A row is where it was, or has just been inserted for a terminal that is *)
(* there.                                                                  *)
LEMMA RowsKept ==
  ASSUME TypeOK, Next
  PROVE  /\ rowSeq' \in Nat /\ rowSeq <= rowSeq'
         /\ \A x \in records' :
              \/ \E y \in records : y.id = x.id /\ y.kind = x.kind /\ y.terminal = x.terminal
              \/ /\ x.id = rowSeq + 1 /\ rowSeq' = rowSeq + 1
                 /\ x.terminal \in Terminal /\ TerminalExists(x.terminal)
                 /\ UNCHANGED terminal
<1> USE DEF TypeOK
<1>1. CASE UNCHANGED recordVars
  BY <1>1 DEF recordVars
<1>2. ASSUME NEW h \in Handler, Insert(h)
      PROVE  /\ rowSeq' = rowSeq + 1
             /\ \A x \in records' : x \in records \/
                  /\ x.id = rowSeq + 1 /\ x.terminal \in Terminal
                  /\ TerminalExists(x.terminal) /\ UNCHANGED terminal
  <2>1. req[h] \in HandlerState /\ req[h].next = "insert"
    BY <1>2 DEF Insert
  <2>2. req[h].terminal \in Terminal
    BY <2>1, StateFields
  <2> QED BY <1>2, <2>2 DEF Insert, terminalVars
<1>3. ASSUME NEW h \in Handler, Remove(h)
      PROVE  rowSeq' = rowSeq /\ records' \subseteq records
  BY <1>3 DEF Remove
<1>4. ASSUME NEW h \in Handler, SavePlan(h)
      PROVE  \/ rowSeq' = rowSeq /\ records' = records
             \/ /\ rowSeq' = rowSeq + 1
                /\ \A x \in records' : x \in records \/
                     /\ x.id = rowSeq + 1 /\ x.terminal \in Terminal
                     /\ TerminalExists(x.terminal) /\ UNCHANGED terminal
  <2>1. req[h] \in HandlerState /\ req[h].next = "save"
    BY <1>4 DEF SavePlan
  <2>2. req[h].terminal \in Terminal
    BY <2>1, StateFields
  <2> QED BY <1>4, <2>2 DEF SavePlan, terminalVars
<1>5. ASSUME NEW r \in OfKind("alert"), NEW s \in AlertStatus, SetAlert(r, s)
      PROVE  /\ rowSeq' = rowSeq
             /\ \A x \in records' :
                  \E y \in records : y.id = x.id /\ y.kind = x.kind /\ y.terminal = x.terminal
  <2>1. r \in Record /\ r \in records
    BY DEF OfKind
  <2> DEFINE z == [r EXCEPT !.detail = s]
  <2>2. z.id = r.id /\ z.kind = r.kind /\ z.terminal = r.terminal
    BY <2>1 DEF Record
  <2>3. records' = (records \ {r}) \cup {z} /\ rowSeq' = rowSeq
    BY <1>5 DEF SetAlert
  <2> HIDE DEF z
  <2> QED BY <2>1, <2>2, <2>3
<1>6. CASE \E h \in Handler : Insert(h)
  BY <1>2, <1>6
<1>7. CASE \E h \in Handler : Remove(h)
  BY <1>3, <1>7
<1>8. CASE \E h \in Handler : SavePlan(h)
  BY <1>4, <1>8
<1>9. CASE \E r \in OfKind("alert"), s \in AlertStatus : SetAlert(r, s)
  BY <1>5, <1>9
<1>10. ASSUME NEW h \in Handler, ChangeOccurrence(h)
       PROVE  /\ rowSeq' = rowSeq
              /\ \A x \in records' :
                   \E y \in records : y.id = x.id /\ y.kind = x.kind /\ y.terminal = x.terminal
  BY <1>10, ChangedRows
<1>11. CASE \E h \in Handler : ChangeOccurrence(h)
  BY <1>10, <1>11
<1> HIDE DEF TypeOK
<1> QED BY <1>1, <1>6, <1>7, <1>8, <1>9, <1>11, RowSteps, Zenon

-----------------------------------------------------------------------------
(* No record outlives its terminal: an exclusion is the only step that     *)
(* takes a terminal away, and it is refused while a record refers to it.   *)
THEOREM TenancyRecordsKeepTerminal == Spec => []RecordsKeepTerminal
<1>1. Init => RecordsKeepTerminal
  BY DEF Init, RecordsKeepTerminal
<1>2. TypeOK /\ RecordsKeepTerminal /\ [Next]_vars => RecordsKeepTerminal'
  <2> SUFFICES ASSUME TypeOK, RecordsKeepTerminal, Next, NEW x \in records'
               PROVE  TerminalExists(x.terminal)'
    <3>1. UNCHANGED vars /\ RecordsKeepTerminal => RecordsKeepTerminal'
      BY DEF vars, recordVars, terminalVars, RecordsKeepTerminal, TerminalExists
    <3> QED BY <3>1, Zenon DEF RecordsKeepTerminal
  <2>1. CASE /\ x.terminal \in Terminal /\ TerminalExists(x.terminal) /\ UNCHANGED terminal
    BY <2>1 DEF TerminalExists
  <2>2. ASSUME NEW y \in records, y.terminal = x.terminal
        PROVE  TerminalExists(x.terminal)'
    <3>1. TerminalExists(x.terminal) /\ x.terminal \in Terminal
      BY <2>2 DEF RecordsKeepTerminal, TypeOK, Record
    <3>2. ASSUME NEW h \in Handler, HardDelete(h)
          PROVE  TerminalExists(x.terminal)'
      <4> DEFINE t == req[h].terminal
      <4>1. CASE terminal' = terminal
        BY <3>1, <4>1 DEF TerminalExists
      <4>2. CASE ~ Refused(t) /\ terminal' = [terminal EXCEPT ![t].status = "deleted"]
        <5>1. x.terminal # t
          BY <2>2, <4>2, Zenon DEF Refused
        <5> QED BY <3>1, <4>2, <5>1 DEF TerminalExists, TypeOK
      <4> QED BY <3>2, <4>1, <4>2 DEF HardDelete
    <3> QED BY <3>1, <3>2, TerminalSteps
  <2> QED BY <2>1, <2>2, RowsKept, Zenon
<1> QED BY <1>1, <1>2, TenancyTyped, PTL DEF Spec

-----------------------------------------------------------------------------
(* A request of this step comes to hold a plan or its risks only by asking *)
(* for a plan or by finding the risks.                                     *)
LEMMA HolderSteps ==
  ASSUME TypeOK, Next, NEW h \in Handler
  PROVE  \/ req'[h] = req[h]
         \/ req'[h].next \notin {"risks", "save"}
         \/ FindRisks(h)
         \/ \E u \in Members, t \in Terminal, A \in SUBSET (1 .. rowSeq) : CreatePlan(h, u, t, A)
         \/ \E u \in Members, p \in OfKind("plan"), A \in SUBSET (1 .. rowSeq) :
              UpdatePlan(h, u, p, A)
<1> DEFINE Other == req'[h] = req[h] \/ req'[h].next \notin {"risks", "save"}
<1>0. req \in [Handler -> HandlerState]
  BY DEF TypeOK
<1>1. ASSUME NEW g \in Handler, NEW s, Become(g, s), s.next \notin {"risks", "save"}
      PROVE  Other
  BY <1>0, <1>1 DEF Become
<1>2. ASSUME NEW g \in Handler, NEW s, Become(g, s), g # h
      PROVE  Other
  BY <1>0, <1>2 DEF Become
<1>3. ASSUME UNCHANGED req
      PROVE  Other
  BY <1>3
<1>4. Idle.next \notin {"risks", "save"}
  BY DEF Idle
<1>5. \A d, k, t : [next |-> "insert", kind |-> k, terminal |-> t, detail |-> d].next
                     \notin {"risks", "save"}
  OBVIOUS
<1>6. /\ \A i, t : [next |-> "remove", id |-> i, terminal |-> t].next \notin {"risks", "save"}
      /\ \A i, t, d : [next |-> "change", id |-> i, terminal |-> t, type |-> d].next
                        \notin {"risks", "save"}
      /\ \A t, c : [next |-> "code", terminal |-> t, code |-> c].next \notin {"risks", "save"}
      /\ \A t, U, f : [next |-> "count", terminal |-> t, uncounted |-> U, found |-> f].next
                        \notin {"risks", "save"}
  OBVIOUS
<1> HIDE DEF Other
<1>7. ASSUME NEW g \in Handler, Continues(g)
      PROVE  Other \/ FindRisks(h)
  <2>1. \/ CreateTerminal(g) \/ Insert(g) \/ Remove(g) \/ ChangeOccurrence(g) \/ SavePlan(g)
        \/ HardDelete(g) \/ Fail(g)
        => Other
    BY <1>1, <1>4, Zenon DEF CreateTerminal, Insert, Remove, ChangeOccurrence, SavePlan,
         HardDelete, Fail
  <2>2. ASSUME NEW table, CountAttached(g, table)
        PROVE  Other
    <3> DEFINE U == req[g].uncounted \ {table}
               f == req[g].found \/ Attached(req[g].terminal, table)
               s == [req[g] EXCEPT !.uncounted = U, !.found = f]
    <3>1. Become(g, s) /\ req[g].next = "count"
      BY <2>2 DEF CountAttached
    <3>2. req[g] \in HandlerState
      BY <1>0
    <3>3. s.next = "count"
      BY <3>1, <3>2 DEF HandlerState, Idle
    <3> HIDE DEF s
    <3> QED BY <1>1, <3>1, <3>3
  <2>3. FindRisks(g) => Other \/ FindRisks(h)
    BY <1>2, Zenon DEF FindRisks
  <2> QED BY <1>7, <2>1, <2>2, <2>3, Zenon DEF Continues
<1>8. ASSUME NEW g \in Handler, NEW u \in Members, Requests(g, u)
      PROVE  \/ Other
             \/ \E t \in Terminal, A \in SUBSET (1 .. rowSeq) : CreatePlan(h, u, t, A)
             \/ \E p \in OfKind("plan"), A \in SUBSET (1 .. rowSeq) : UpdatePlan(h, u, p, A)
  <2>1. \A k, t, d : Ask(g, k, t, d) => Other
    BY <1>1, <1>5, Zenon DEF Ask, Begin
  <2>2. ASSUME NEW t \in Terminal,
               \/ CreateRisk(g, u, t) \/ CreateMapElement(g, u, t)
               \/ CreateDocument(g, u, t) \/ CreateAlert(g, u, t)
               \/ \E type \in OccType : CreateOccurrence(g, u, t, type)
        PROVE  Other
    BY <2>1, <2>2, Zenon DEF CreateRisk, CreateMapElement, CreateDocument, CreateAlert,
         CreateOccurrence
  <2>3. ASSUME NEW t \in Terminal,
               UpdateRisk(u, t) \/ UpdateMapElement(u, t) \/ UpdateDocument(u, t)
        PROVE  Other
    BY <2>3, <1>3, Zenon DEF UpdateRisk, UpdateMapElement, UpdateDocument, Update
  <2>4. ASSUME NEW r \in OfKind("alert"), Acknowledge(u, r) \/ Resolve(u, r)
        PROVE  Other
    BY <2>4, <1>3, Zenon DEF Acknowledge, Resolve, SetAlert
  <2>5. \/ RemoveRisk(g, u) \/ RemoveMapElement(g, u) \/ RemoveDocument(g, u) \/ RemovePlan(g, u)
        \/ RemoveOccurrence(g, u) \/ \E type \in OccType : UpdateOccurrence(g, u, type)
        => Other
    BY <1>1, <1>6, Zenon DEF RemoveRisk, RemoveMapElement, RemoveDocument, RemovePlan,
         AskRemoval, RemoveOccurrence, UpdateOccurrence, AskChange, Begin
  <2>6. ASSUME NEW t \in Terminal, NEW A \in SUBSET (1 .. rowSeq), CreatePlan(g, u, t, A)
        PROVE  Other \/ CreatePlan(h, u, t, A)
    BY <2>6, <1>2, Zenon DEF CreatePlan, Begin
  <2>7. ASSUME NEW p \in OfKind("plan"), NEW A \in SUBSET (1 .. rowSeq), UpdatePlan(g, u, p, A)
        PROVE  Other \/ UpdatePlan(h, u, p, A)
    BY <2>7, <1>2, Zenon DEF UpdatePlan, Begin
  <2> QED BY <1>8, <2>2, <2>3, <2>4, <2>5, <2>6, <2>7, Zenon DEF Requests
<1>9. ASSUME Administration
      PROVE  Other
  <2>1. \A s : SetPermission(s) => UNCHANGED req
    BY Zenon DEF SetPermission
  <2>2. \A u, home, allowed, role, linked, types :
          \/ CreateUser(u, role, home, linked, allowed, types)
          \/ UpdateUser(u, role, home, linked, allowed, types)
          => UNCHANGED req
    BY UserSteps, Zenon DEF terminalVars
  <2>3. \A t, c, s : RemoveTerminal(t) \/ UpdateTerminal(t, c, s) => UNCHANGED req
    BY Zenon DEF RemoveTerminal, UpdateTerminal
  <2>4. \A g \in Handler : \A t, c :
          AskTerminal(g, t) \/ AskTerminalWithCode(g, t, c) \/ StartHardDelete(g, t) => Other
    BY <1>1, <1>6, Zenon DEF AskTerminal, AskTerminalWithCode, StartHardDelete, Begin
  <2> QED BY <1>3, <1>9, <2>1, <2>2, <2>3, <2>4, Zenon DEF Administration
<1>10. Other => req'[h] = req[h] \/ req'[h].next \notin {"risks", "save"}
  BY Zenon DEF Other
<1> QED BY <1>7, <1>8, <1>9, <1>10, Zenon DEF Next

(* Ids stay the names of rows.                                             *)
LEMMA RowIdsStep ==
  ASSUME TypeOK, RowIds, Next
  PROVE  RowIds'
<1> USE DEF TypeOK
<1>0. rowSeq \in Nat /\ \A x \in records : x.id \in 1 .. rowSeq
  BY DEF RowIds
<1>1. ASSUME records' \subseteq records, rowSeq' = rowSeq
      PROVE  RowIds'
  BY <1>1 DEF RowIds
<1>2. ASSUME NEW x, x.id = rowSeq + 1, records' = records \cup {x}, rowSeq' = rowSeq + 1
      PROVE  RowIds'
  BY <1>0, <1>2 DEF RowIds
<1>3. ASSUME NEW r \in OfKind("alert"), NEW s \in AlertStatus, SetAlert(r, s)
      PROVE  RowIds'
  <2>1. r \in Record /\ r \in records
    BY DEF OfKind
  <2> DEFINE z == [r EXCEPT !.detail = s]
  <2>2. z.id = r.id
    BY <2>1 DEF Record
  <2>3. records' = (records \ {r}) \cup {z} /\ rowSeq' = rowSeq
    BY <1>3 DEF SetAlert
  <2> HIDE DEF z
  <2> QED BY <2>1, <2>2, <2>3 DEF RowIds
<1>4. ASSUME NEW h \in Handler, Insert(h)
      PROVE  RowIds'
  <2> DEFINE x == [id |-> rowSeq', kind |-> req[h].kind, terminal |-> req[h].terminal,
                   detail |-> IF req[h].kind = "alert" THEN "ACTIVE" ELSE req[h].detail,
                   active |-> TRUE]
  <2>1. rowSeq' = rowSeq + 1 /\ records' = records \cup {x} /\ x.id = rowSeq + 1
    BY <1>4 DEF Insert
  <2> HIDE DEF x
  <2> QED BY <1>2, <2>1
<1>5. ASSUME NEW h \in Handler, SavePlan(h)
      PROVE  RowIds'
  <2> DEFINE x == [id |-> rowSeq + 1, kind |-> "plan", terminal |-> req[h].terminal,
                   detail |-> None, active |-> TRUE]
  <2>1. \/ rowSeq' = rowSeq /\ records' = records
        \/ rowSeq' = rowSeq + 1 /\ records' = records \cup {x} /\ x.id = rowSeq + 1
    BY <1>5 DEF SavePlan
  <2> HIDE DEF x
  <2> QED BY <1>1, <1>2, <2>1
<1>6. \A h \in Handler : Remove(h) => records' \subseteq records /\ rowSeq' = rowSeq
  BY DEF Remove
<1>7. UNCHANGED recordVars => records' \subseteq records /\ rowSeq' = rowSeq
  BY DEF recordVars
<1> HIDE DEF TypeOK
<1>8. ASSUME NEW h \in Handler, ChangeOccurrence(h)
      PROVE  RowIds'
  BY <1>0, <1>8, ChangedRows DEF RowIds
<1> QED BY <1>1, <1>3, <1>4, <1>5, <1>6, <1>7, <1>8, RowSteps, Zenon

(* What a request that saves a plan holds stays true of the rows.          *)
LEMMA PlansHeldStep ==
  ASSUME TypeOK, RowIds, PlansHeld, Next
  PROVE  PlansHeld'
<1>0. rowSeq \in Nat /\ req \in [Handler -> HandlerState] /\ records \subseteq Record
  BY DEF TypeOK
<1>1. \A x \in records' :
        \/ \E y \in records : y.id = x.id /\ y.kind = x.kind /\ y.terminal = x.terminal
        \/ x.id = rowSeq + 1
  BY RowsKept, Zenon
<1>2. rowSeq' \in Nat /\ rowSeq <= rowSeq'
  BY RowsKept
<1>3. ASSUME NEW q, PlanHeld(q)
      PROVE  /\ q.plan # None => /\ q.plan \in 1 .. rowSeq'
                                 /\ \A p \in OfKind("plan")' : p.id = q.plan => p.terminal = q.terminal
  BY <1>0, <1>1, <1>2, <1>3 DEF PlanHeld, OfKind
<1>4. ASSUME NEW q, RisksHeld(q)
      PROVE  /\ q.risks \subseteq 1 .. rowSeq'
             /\ \A x \in OfKind("risk")' : x.id \in q.risks => x.terminal = q.terminal
  BY <1>0, <1>1, <1>2, <1>4 DEF RisksHeld, OfKind
<1>5. SUFFICES ASSUME NEW h \in Handler
               PROVE  /\ req'[h].next = "risks" => PlanHeld(req[h])'
                      /\ req'[h].next = "save"  => PlanHeld(req[h])' /\ RisksHeld(req[h])'
  BY Zenon DEF PlansHeld
<1>6. ASSUME NEW q, req'[h].plan = q.plan, req'[h].terminal = q.terminal, PlanHeld(q)
      PROVE  PlanHeld(req[h])'
  BY <1>3, <1>6, Zenon DEF PlanHeld
<1>7. ASSUME NEW q, req'[h].risks = q.risks, req'[h].terminal = q.terminal, RisksHeld(q)
      PROVE  RisksHeld(req[h])'
  BY <1>4, <1>7, Zenon DEF RisksHeld
<1>8. CASE req'[h] = req[h]
  BY <1>6, <1>7, <1>8, Zenon DEF PlansHeld
<1>9. CASE req'[h].next \notin {"risks", "save"}
  BY <1>9
<1>10. CASE FindRisks(h)
  <2> DEFINE q == req[h]
             s == [next |-> "save", plan |-> q.plan, terminal |-> q.terminal,
                   risks |-> ValidRiskIds(q.terminal, q.asked)]
  <2>1. q.next = "risks" /\ req' = [req EXCEPT ![h] = s]
    BY <1>10 DEF FindRisks, Become
  <2>2. req'[h] = s
    BY <1>0, <2>1
  <2>3. PlanHeld(q)
    BY <2>1, Zenon DEF PlansHeld
  <2>4. \A x, y \in records : x.id = y.id => x = y
    BY DEF RowIds
  <2>5. \A x \in records : x.id \in 1 .. rowSeq
    BY DEF RowIds
  <2>6. RisksHeld(s)
    BY <2>4, <2>5 DEF RisksHeld, ValidRiskIds, OfKind
  <2>7. /\ req'[h].plan = q.plan /\ req'[h].terminal = q.terminal
        /\ req'[h].risks = s.risks /\ req'[h].terminal = s.terminal
    BY <2>2
  <2> HIDE DEF q, s
  <2> QED BY <1>6, <1>7, <2>3, <2>6, <2>7, Zenon
<1>11. ASSUME NEW u \in Members, NEW t \in Terminal, NEW A, CreatePlan(h, u, t, A)
       PROVE  /\ req'[h].next = "risks" /\ PlanHeld(req[h])'
  <2> DEFINE q == [next |-> "risks", plan |-> None,
                   terminal |-> ResolveTerminalId(member[u], t), asked |-> A]
  <2>1. req'[h] = q
    BY <1>0, <1>11 DEF CreatePlan, Begin, Become
  <2>2. PlanHeld(q)
    BY DEF PlanHeld
  <2>3. q.next = "risks"
    OBVIOUS
  <2> HIDE DEF q
  <2> QED BY <1>6, <2>1, <2>2, <2>3, Zenon
<1>12. ASSUME NEW u \in Members, NEW p \in OfKind("plan"), NEW A, UpdatePlan(h, u, p, A)
       PROVE  /\ req'[h].next = "risks" /\ PlanHeld(req[h])'
  <2> DEFINE q == [next |-> "risks", plan |-> p.id, terminal |-> p.terminal, asked |-> A]
  <2>1. req'[h] = q
    BY <1>0, <1>12 DEF UpdatePlan, Begin, Become
  <2>2. PlanHeld(q)
    BY DEF PlanHeld, RowIds, OfKind
  <2>3. q.next = "risks"
    OBVIOUS
  <2> HIDE DEF q
  <2> QED BY <1>6, <2>1, <2>2, <2>3, Zenon
<1>13. req'[h].next = "risks" => req'[h].next # "save"
  OBVIOUS
<1> QED BY <1>8, <1>9, <1>10, <1>11, <1>12, <1>13, HolderSteps, Zenon

(* Links keep to risks of the plan's own terminal.                         *)
LEMMA LinksStep ==
  ASSUME TypeOK, PlansInvariant, Next
  PROVE  PlanRisksSameTerminal'
<1>0. rowSeq \in Nat /\ req \in [Handler -> HandlerState] /\ links \subseteq Nat \X Nat
  BY DEF TypeOK
<1>1. ASSUME links' \subseteq links,
             \A x \in records : x.kind # "alert" =>
               \E y \in records' : x.id = y.id /\ x.kind = y.kind /\ x.terminal = y.terminal
      PROVE  PlanRisksSameTerminal'
  <2> SUFFICES ASSUME NEW l \in links'
               PROVE  \E p \in OfKind("plan")', r \in OfKind("risk")' :
                        l = <<p.id, r.id>> /\ p.terminal = r.terminal
    BY Zenon DEF PlanRisksSameTerminal
  <2>1. PICK p \in OfKind("plan"), r \in OfKind("risk") : l = <<p.id, r.id>> /\ p.terminal = r.terminal
    BY <1>1, Zenon DEF PlansInvariant, PlanRisksSameTerminal
  <2>2. /\ \E y \in OfKind("plan")' : p.id = y.id /\ p.terminal = y.terminal
        /\ \E y \in OfKind("risk")' : r.id = y.id /\ r.terminal = y.terminal
    BY <1>1 DEF OfKind
  <2> QED BY <2>1, <2>2, Zenon
<1>2. ASSUME NEW h \in Handler, Remove(h)
      PROVE  PlanRisksSameTerminal'
  <2> DEFINE id == req[h].id
  <2> SUFFICES ASSUME NEW l \in links'
               PROVE  \E p \in OfKind("plan")', r \in OfKind("risk")' :
                        l = <<p.id, r.id>> /\ p.terminal = r.terminal
    BY Zenon DEF PlanRisksSameTerminal
  <2>1. l \in links /\ id # l[1] /\ id # l[2]
    BY <1>2 DEF Remove
  <2>2. PICK p \in OfKind("plan"), r \in OfKind("risk") : l = <<p.id, r.id>> /\ p.terminal = r.terminal
    BY <2>1, Zenon DEF PlansInvariant, PlanRisksSameTerminal
  <2>3. p.id # id /\ r.id # id
    BY <2>1, <2>2
  <2>4. records' = {x \in records : x.id # id}
    BY <1>2 DEF Remove
  <2> HIDE DEF id
  <2>5. p \in OfKind("plan")' /\ r \in OfKind("risk")'
    BY <2>3, <2>4 DEF OfKind
  <2> QED BY <2>2, <2>5, Zenon
<1>3. ASSUME NEW h \in Handler, SavePlan(h)
      PROVE  PlanRisksSameTerminal'
  <2> DEFINE q  == req[h]
             id == IF q.plan = None THEN rowSeq + 1 ELSE q.plan
             x  == [id |-> id, kind |-> "plan", terminal |-> q.terminal, detail |-> None,
                    active |-> TRUE]
  <2>1. /\ q.next = "save"
        /\ RisksThere(q.risks)
        /\ links' = {l \in links : l[1] # id} \cup {<<id, r>> : r \in q.risks}
        /\ q.plan = None => records' = records \cup {x}
        /\ q.plan # None => records' = records /\ \E p \in OfKind("plan") : p.id = id
    BY <1>3 DEF SavePlan
  <2>2. PlanHeld(q) /\ RisksHeld(q)
    BY <2>1, Zenon DEF PlansInvariant, PlansHeld
  <2>3. records \subseteq records'
    BY <2>1
  <2>4. PICK p \in OfKind("plan")' : p.id = id /\ p.terminal = q.terminal
    <3>1. CASE q.plan = None
      <4>1. x \in OfKind("plan")' /\ x.id = id /\ x.terminal = q.terminal
        BY <2>1, <3>1 DEF OfKind
      <4> QED BY <4>1, Zenon
    <3>2. CASE q.plan # None
      BY <2>1, <2>2, <3>2 DEF PlanHeld, OfKind
    <3> QED BY <3>1, <3>2
  <2>5. \A r \in q.risks : \E y \in OfKind("risk")' : y.id = r /\ y.terminal = q.terminal
    <3> SUFFICES ASSUME NEW r \in q.risks
                 PROVE  \E y \in OfKind("risk")' : y.id = r /\ y.terminal = q.terminal
      OBVIOUS
    <3>1. PICK y \in OfKind("risk") : y.id = r
      BY <2>1, Zenon DEF RisksThere
    <3>2. y.terminal = q.terminal
      BY <2>2, <3>1, Zenon DEF RisksHeld
    <3>3. y \in OfKind("risk")'
      BY <2>3 DEF OfKind
    <3> QED BY <3>1, <3>2, <3>3, Zenon
  <2> HIDE DEF q, id, x
  <2> SUFFICES ASSUME NEW l \in links'
               PROVE  \E a \in OfKind("plan")', r \in OfKind("risk")' :
                        l = <<a.id, r.id>> /\ a.terminal = r.terminal
    BY Zenon DEF PlanRisksSameTerminal
  <2>6. CASE l \in links
    <3>1. PICK a \in OfKind("plan"), r \in OfKind("risk") :
            l = <<a.id, r.id>> /\ a.terminal = r.terminal
      BY <2>6, Zenon DEF PlansInvariant, PlanRisksSameTerminal
    <3>2. a \in OfKind("plan")' /\ r \in OfKind("risk")'
      BY <2>3 DEF OfKind
    <3> QED BY <3>1, <3>2, Zenon
  <2>7. CASE l \in {<<id, r>> : r \in q.risks}
    <3>1. PICK r \in q.risks : l = <<id, r>>
      BY <2>7, Zenon
    <3>2. PICK y \in OfKind("risk")' : y.id = r /\ y.terminal = q.terminal
      BY <2>5, Zenon
    <3>3. l = <<p.id, y.id>> /\ p.terminal = y.terminal
      BY <2>4, <3>1, <3>2, Zenon
    <3> QED BY <3>3, Zenon
  <2> QED BY <2>1, <2>6, <2>7
<1>4. ASSUME NEW h \in Handler, Insert(h)
      PROVE  records \subseteq records' /\ links' \subseteq links
  BY <1>4 DEF Insert
<1>5. ASSUME NEW r \in OfKind("alert"), NEW s \in AlertStatus, SetAlert(r, s)
      PROVE  /\ \A x \in records : x.kind # "alert" => x \in records'
             /\ links' \subseteq links
  BY <1>5 DEF SetAlert, OfKind
<1>6. UNCHANGED recordVars => records \subseteq records' /\ links' \subseteq links
  BY DEF recordVars
<1>7. records \subseteq records' => \A x \in records : x.kind # "alert" => x \in records'
  OBVIOUS
<1>8. ASSUME NEW h \in Handler, ChangeOccurrence(h)
      PROVE  PlanRisksSameTerminal'
  BY <1>1, <1>8, ChangedRows, Zenon
<1> QED BY <1>1, <1>2, <1>3, <1>4, <1>5, <1>6, <1>7, <1>8, RowSteps, Zenon

(* A plan is linked to risks of its own terminal only, whatever happens    *)
(* between the look-up of the risks and the statement that writes the      *)
(* links: what the request holds stays true of the rows it names, because  *)
(* no row changes its terminal and no id names a second row, and the keys  *)
(* of PlanRisk see to the rest.                                            *)
THEOREM TenancyPlanRisksSameTerminal == Spec => []PlanRisksSameTerminal
<1>1. Init => PlansInvariant
  <2> SUFFICES ASSUME Init
               PROVE  PlansInvariant
    OBVIOUS
  <2>1. \A h \in Handler : req[h].next = "idle"
    BY DEF Init, Idle
  <2>2. PlansHeld
    BY <2>1 DEF PlansHeld
  <2> QED BY <2>2 DEF Init, PlansInvariant, RowIds, PlanRisksSameTerminal
<1>2. TypeOK /\ PlansInvariant /\ [Next]_vars => PlansInvariant'
  <2>1. ASSUME PlansInvariant, UNCHANGED vars
        PROVE  PlansInvariant'
    BY <2>1, Zenon DEF vars, recordVars, terminalVars, PlansInvariant, RowIds, PlansHeld, PlanHeld,
         RisksHeld, OfKind, PlanRisksSameTerminal
  <2>2. ASSUME TypeOK, PlansInvariant, Next
        PROVE  PlansInvariant'
    BY <2>2, RowIdsStep, PlansHeldStep, LinksStep, Zenon DEF PlansInvariant
  <2> QED BY <2>1, <2>2
<1>3. PlansInvariant => PlanRisksSameTerminal
  BY DEF PlansInvariant
<1> QED BY <1>1, <1>2, <1>3, TenancyTyped, PTL DEF Spec

-----------------------------------------------------------------------------
(* For every row a user can be given, the list and the check agree, but for*)
(* the occurrences that were removed: the two pieces of code decide from   *)
(* the rows alone, and a missing home is no terminal.                      *)
LEMMA ListsAgree == TypeOK => ListsMatchAccess
<1> SUFFICES ASSUME TypeOK, NEW u \in Members
             PROVE  LET who == member[u] IN
  /\ \A r \in OfKind("occurrence") :
       /\ ListsOccurrence(who, r) => CheckTenantAccess(who, r) /\ ListsNotifications(who, r)
       /\ who.role # "admin" /\ r.active /\ CheckTenantAccess(who, r) => ListsOccurrence(who, r)
  /\ who.role = "terminal" => \A r \in OfKind("alert") :
       ListsAlert(who, r) => UserCanAccessTerminal(who, r.terminal)
  /\ MayWrite(who) =>
       /\ \A t \in Terminal : UserCanAccessTerminal(who, t) <=> t \in TenantScope(who)
       /\ VisibleTerminals(who) = TenantScope(who)
  /\ who.role = "entity" /\ who.linked => EffectiveAllowedTerminals(who) = TenantScope(who)
  /\ who.role = "terminal" /\ who.types # {} =>
       \A r \in OfKind("occurrence") : MayOpenType(who, r.detail) => TypeAllowed(who, r)
  BY Zenon DEF ListsMatchAccess
<1> DEFINE who == member[u]
<1>1. /\ who.role \in Role /\ who.home \in Nullable(Terminal)
      /\ who.allowed \subseteq Terminal /\ who.linked \in BOOLEAN
  BY DEF TypeOK, Members, Member, Nullable
<1>2. \A r \in records : r.terminal \in Terminal
  BY DEF TypeOK, Record
<1> HIDE DEF who
<1> USE DEF TenantScope, UserCanAccessTerminal, TerminalIdsForUser, Home,
            EntityPermittedTerminals, Role
<1>3. ASSUME NEW r \in OfKind("occurrence")
      PROVE  /\ ListsOccurrence(who, r) => CheckTenantAccess(who, r) /\ ListsNotifications(who, r)
             /\ who.role # "admin" /\ r.active /\ CheckTenantAccess(who, r)
                  => ListsOccurrence(who, r)
  <2>1. r.terminal \in Terminal
    BY <1>2 DEF OfKind
  <2> QED BY <1>1, <2>1, TenancyAssumption
          DEF ListsOccurrence, ListsRecord, CheckTenantAccess, ListsNotifications, TypeAllowed
<1>4. ASSUME who.role = "terminal", NEW r \in OfKind("alert"), ListsAlert(who, r)
      PROVE  UserCanAccessTerminal(who, r.terminal)
  BY <1>4 DEF ListsAlert
<1>5. ASSUME MayWrite(who)
      PROVE  /\ \A t \in Terminal : UserCanAccessTerminal(who, t) <=> t \in TenantScope(who)
             /\ VisibleTerminals(who) = TenantScope(who)
  <2>1. who.role \in {"admin", "terminal"}
    BY <1>5 DEF MayWrite
  <2> QED BY <1>1, <2>1, TenancyAssumption DEF VisibleTerminals
<1>6. who.role = "entity" /\ who.linked => EffectiveAllowedTerminals(who) = TenantScope(who)
  BY DEF EffectiveAllowedTerminals
<1>7. ASSUME who.role = "terminal", who.types # {}, NEW r \in OfKind("occurrence"),
             MayOpenType(who, r.detail)
      PROVE  TypeAllowed(who, r)
  BY <1>7 DEF MayOpenType, TypeAllowed
<1> QED BY <1>3, <1>4, <1>5, <1>6, <1>7, Zenon DEF who

(* A request comes to hold a row to remove or to edit only when it is      *)
(* granted one, and then of the row's own terminal.                        *)
LEMMA GrantSteps ==
  ASSUME TypeOK, Next, NEW h \in Handler
  PROVE  \/ req'[h] = req[h]
         \/ req'[h].next \notin {"remove", "change"}
         \/ \E r \in records : req'[h].id = r.id /\ req'[h].terminal = r.terminal
<1> DEFINE Fine(q) == \/ q.next \notin {"remove", "change"}
                      \/ \E r \in records : q.id = r.id /\ q.terminal = r.terminal
           Other == req'[h] = req[h] \/ Fine(req'[h])
<1>0. req \in [Handler -> HandlerState]
  BY DEF TypeOK
<1>1. ASSUME NEW g \in Handler, NEW s, Become(g, s), Fine(s)
      PROVE  Other
  <2>1. CASE g = h
    <3>1. req'[h] = s
      BY <1>0, <1>1, <2>1 DEF Become
    <3> QED BY <1>1, <3>1, Zenon
  <2>2. CASE g # h
    BY <1>0, <1>1, <2>2 DEF Become
  <2> QED BY <2>1, <2>2
<1>2. ASSUME UNCHANGED req
      PROVE  Other
  BY <1>2
<1>3. /\ Fine(Idle)
      /\ \A k, t, d : Fine([next |-> "insert", kind |-> k, terminal |-> t, detail |-> d])
      /\ \A t, c : Fine([next |-> "code", terminal |-> t, code |-> c])
      /\ \A t, U, f : Fine([next |-> "count", terminal |-> t, uncounted |-> U, found |-> f])
      /\ \A i, t, A : Fine([next |-> "risks", plan |-> i, terminal |-> t, asked |-> A])
      /\ \A i, t, A : Fine([next |-> "save", plan |-> i, terminal |-> t, risks |-> A])
  BY DEF Idle
<1>4. \A r \in records :
        /\ Fine([next |-> "remove", id |-> r.id, terminal |-> r.terminal])
        /\ \A d : Fine([next |-> "change", id |-> r.id, terminal |-> r.terminal, type |-> d])
  OBVIOUS
<1> HIDE DEF Fine, Other
<1>5. ASSUME NEW g \in Handler, Continues(g)
      PROVE  Other
  <2>1. \/ CreateTerminal(g) \/ Insert(g) \/ Remove(g) \/ ChangeOccurrence(g) \/ SavePlan(g)
        \/ HardDelete(g) \/ Fail(g) \/ FindRisks(g)
        => Other
    BY <1>1, <1>3, Zenon DEF CreateTerminal, Insert, Remove, ChangeOccurrence, SavePlan,
         HardDelete, Fail, FindRisks
  <2>2. ASSUME NEW table, CountAttached(g, table)
        PROVE  Other
    <3> DEFINE U == req[g].uncounted \ {table}
               f == req[g].found \/ Attached(req[g].terminal, table)
               s == [req[g] EXCEPT !.uncounted = U, !.found = f]
    <3>1. Become(g, s) /\ req[g].next = "count"
      BY <2>2 DEF CountAttached
    <3>2. req[g] \in HandlerState
      BY <1>0
    <3>3. s.next = "count"
      BY <3>1, <3>2 DEF HandlerState, Idle
    <3> HIDE DEF s
    <3>4. Fine(s)
      BY <3>3 DEF Fine
    <3> QED BY <1>1, <3>1, <3>4
  <2> QED BY <1>5, <2>1, <2>2, Zenon DEF Continues
<1>6. ASSUME NEW g \in Handler, NEW u \in Members, Requests(g, u)
      PROVE  Other
  <2>1. \A k, t, d : Ask(g, k, t, d) => Other
    BY <1>1, <1>3, Zenon DEF Ask, Begin
  <2>2. ASSUME NEW t \in Terminal,
               \/ CreateRisk(g, u, t) \/ CreateMapElement(g, u, t)
               \/ CreateDocument(g, u, t) \/ CreateAlert(g, u, t)
               \/ \E type \in OccType : CreateOccurrence(g, u, t, type)
        PROVE  Other
    BY <2>1, <2>2, Zenon DEF CreateRisk, CreateMapElement, CreateDocument, CreateAlert,
         CreateOccurrence
  <2>3. ASSUME NEW t \in Terminal,
               UpdateRisk(u, t) \/ UpdateMapElement(u, t) \/ UpdateDocument(u, t)
        PROVE  Other
    BY <2>3, <1>2, Zenon DEF UpdateRisk, UpdateMapElement, UpdateDocument, Update
  <2>4. ASSUME NEW r \in OfKind("alert"), Acknowledge(u, r) \/ Resolve(u, r)
        PROVE  Other
    BY <2>4, <1>2, Zenon DEF Acknowledge, Resolve, SetAlert
  <2>5. ASSUME NEW r \in records,
               AskRemoval(g, u, r) \/ \E d : AskChange(g, u, r, d)
        PROVE  Other
    BY <2>5, <1>1, <1>4, Zenon DEF AskRemoval, AskChange, Begin
  <2>6. \/ RemoveRisk(g, u) \/ RemoveMapElement(g, u) \/ RemoveDocument(g, u) \/ RemovePlan(g, u)
        \/ RemoveOccurrence(g, u) \/ \E type \in OccType : UpdateOccurrence(g, u, type)
        => Other
    BY <2>5, Zenon DEF RemoveRisk, RemoveMapElement, RemoveDocument, RemovePlan,
         RemoveOccurrence, UpdateOccurrence, OfKind
  <2>7. ASSUME NEW A,
               \/ \E t \in Terminal : CreatePlan(g, u, t, A)
               \/ \E p \in OfKind("plan") : UpdatePlan(g, u, p, A)
        PROVE  Other
    BY <2>7, <1>1, <1>3, Zenon DEF CreatePlan, UpdatePlan, Begin
  <2> QED BY <1>6, <2>2, <2>3, <2>4, <2>6, <2>7, Zenon DEF Requests
<1>7. ASSUME Administration
      PROVE  Other
  <2>1. \A s : SetPermission(s) => UNCHANGED req
    BY Zenon DEF SetPermission
  <2>2. \A u, home, allowed, role, linked, types :
          \/ CreateUser(u, role, home, linked, allowed, types)
          \/ UpdateUser(u, role, home, linked, allowed, types)
          => UNCHANGED req
    BY UserSteps, Zenon DEF terminalVars
  <2>3. \A t, c, s : RemoveTerminal(t) \/ UpdateTerminal(t, c, s) => UNCHANGED req
    BY Zenon DEF RemoveTerminal, UpdateTerminal
  <2>4. \A g \in Handler : \A t, c :
          AskTerminal(g, t) \/ AskTerminalWithCode(g, t, c) \/ StartHardDelete(g, t) => Other
    BY <1>1, <1>3, Zenon DEF AskTerminal, AskTerminalWithCode, StartHardDelete, Begin
  <2> QED BY <1>2, <1>7, <2>1, <2>2, <2>3, <2>4, Zenon DEF Administration
<1> QED BY <1>5, <1>6, <1>7, Zenon DEF Next, Other, Fine

(* What a request was granted stays true of the row it is about to write.  *)
LEMMA GrantsStep ==
  ASSUME TypeOK, GrantsInvariant, Next
  PROVE  GrantsInvariant'
<1>0. rowSeq \in Nat /\ rowSeq' \in Nat /\ rowSeq <= rowSeq'
  BY RowsKept DEF TypeOK
<1>1. \A x \in records' :
        \/ \E y \in records : y.id = x.id /\ y.terminal = x.terminal
        \/ x.id = rowSeq + 1
  BY RowsKept, Zenon
<1>2. RowIds'
  BY RowIdsStep DEF GrantsInvariant
<1>3. ASSUME NEW q, Granted(q)
      PROVE  /\ q.id \in 1 .. rowSeq'
             /\ \A x \in records' : x.id = q.id => x.terminal = q.terminal
  BY <1>0, <1>1, <1>3 DEF Granted
<1>4. ASSUME NEW h \in Handler, req'[h].next \in {"remove", "change"}
      PROVE  Granted(req[h])'
  <2>1. CASE req'[h] = req[h]
    <3> DEFINE q == req[h]
    <3>1. req'[h] = q /\ q.next \in {"remove", "change"}
      BY <1>4, <2>1
    <3>2. Granted(q)
      BY <3>1, Zenon DEF GrantsInvariant
    <3>3. /\ q.id \in 1 .. rowSeq'
          /\ \A x \in records' : x.id = q.id => x.terminal = q.terminal
      BY <1>3, <3>2, Zenon
    <3> HIDE DEF q
    <3> QED BY <3>1, <3>3 DEF Granted
  <2>2. CASE \E r \in records : req'[h].id = r.id /\ req'[h].terminal = r.terminal
    <3>1. PICK r \in records : req'[h].id = r.id /\ req'[h].terminal = r.terminal
      BY <2>2
    <3>2. Granted(r)
      BY DEF Granted, GrantsInvariant, RowIds
    <3> QED BY <1>3, <3>1, <3>2, Zenon DEF Granted
  <2> QED BY <1>4, <2>1, <2>2, GrantSteps, Zenon
<1> QED BY <1>2, <1>4, Zenon DEF GrantsInvariant

(* The rules of the tenancy agree for every row a user can be given, and   *)
(* the row a request writes by its id is of the terminal it was granted:   *)
(* no other step moves a row to another terminal or gives its id again,    *)
(* however many statements come between the check and the write.           *)
THEOREM TenancyScopeAgrees == Spec => []ScopeAgrees
<1>1. Init => GrantsInvariant
  <2> SUFFICES ASSUME Init
               PROVE  GrantsInvariant
    OBVIOUS
  <2>1. \A h \in Handler : req[h].next = "idle"
    BY DEF Init, Idle
  <2> QED BY <2>1 DEF Init, GrantsInvariant, RowIds
<1>2. TypeOK /\ GrantsInvariant /\ [Next]_vars => GrantsInvariant'
  <2>1. ASSUME GrantsInvariant, UNCHANGED vars
        PROVE  GrantsInvariant'
    BY <2>1, Zenon DEF vars, recordVars, GrantsInvariant, RowIds, Granted
  <2> QED BY <2>1, GrantsStep
<1>3. GrantsInvariant => GrantsHold
  BY Zenon DEF GrantsInvariant, Granted, GrantsHold
<1> QED BY <1>1, <1>2, <1>3, ListsAgree, TenancyTyped, PTL DEF Spec, ScopeAgrees

-----------------------------------------------------------------------------
(* The seed numbers its terminals from one without a gap.                  *)
LEMMA SeedCounted ==
  ASSUME NEW n \in Nat, NEW code \in [Terminal -> 0 .. n], SeededTerminals(n, code)
  PROVE  \A t \in Existing : terminal[t].code <= Cardinality(Existing)
<1> USE DEF SeededTerminals
<1>1. \A t \in Terminal : /\ code[t] = 0 => terminal[t].status = "none"
                          /\ code[t] # 0 => terminal[t].status \in {"Revisao", "Ativo"}
                          /\ terminal[t].code = code[t]
  OBVIOUS
<1>2. \A t \in Terminal : t \in Existing <=> code[t] # 0
  BY <1>1 DEF Existing, TerminalExists, TerminalStatus
<1>3. \A c \in 1 .. n : \E t \in Terminal : code[t] = c
  <2> SUFFICES ASSUME NEW c \in 1 .. n
               PROVE  \E t \in Terminal : code[t] = c
    OBVIOUS
  <2> DEFINE T == {t \in Terminal : code[t] = c}
  <2>1. Cardinality(T) = 1
    OBVIOUS
  <2>2. IsFiniteSet(T)
    <3>1. T \in SUBSET Terminal
      OBVIOUS
    <3> HIDE DEF T
    <3> QED BY <3>1, FS_Subset, TenancyAssumption
  <2>3. \E x : T = {x}
    BY <2>1, <2>2, FS_Singleton, Zenon
  <2> QED BY <2>3
<1>4. n <= Cardinality(Existing)
  <2> DEFINE f == [c \in 1 .. n |-> CHOOSE t \in Terminal : code[t] = c]
  <2>1. \A c \in 1 .. n : f[c] \in Terminal /\ code[f[c]] = c
    BY <1>3
  <2>2. f \in [1 .. n -> Existing]
    BY <1>2, <2>1
  <2>3. \A a, b \in 1 .. n : f[a] = f[b] => a = b
    BY <2>1
  <2> HIDE DEF f
  <2>4. IsFiniteSet(1 .. n) /\ Cardinality(1 .. n) = n
    BY FS_Interval
  <2>5. ~ Cardinality(Existing) < Cardinality(1 .. n)
    <3> SUFFICES ASSUME Cardinality(Existing) < Cardinality(1 .. n)
                 PROVE  FALSE
      OBVIOUS
    <3> DEFINE S == 1 .. n
    <3>1. f \in [S -> Existing] /\ IsFiniteSet(S) /\ Cardinality(Existing) < Cardinality(S)
      BY <2>2, <2>4
    <3> HIDE DEF S
    <3>2. \E a, b \in S : a # b /\ f[a] = f[b]
      BY <3>1, ExistingFinite, FS_PigeonHole
    <3> QED BY <2>3, <3>2, Zenon DEF S
  <2> QED BY <2>4, <2>5, ExistingFinite
<1>5. \A t \in Existing : terminal[t].code \in 0 .. n
  BY <1>1 DEF Existing
<1> QED BY <1>4, <1>5, ExistingFinite

(* A request whose code is counted out stays so, and becomes so only by    *)
(* counting.                                                               *)
LEMMA CodeSteps ==
  ASSUME TypeOK, Next, ~ disturbed'
  PROVE  /\ ~ disturbed
         /\ \/ UNCHANGED terminal
            \/ \E t \in Terminal : RemoveTerminal(t)
            \/ \E t \in Terminal, s \in TerminalStatus : UpdateTerminal(t, terminal[t].code, s)
            \/ \E h \in Handler : CreateTerminal(h)
         /\ \A h \in Handler : req'[h].next = "code" =>
              req'[h] = req[h] \/ req'[h].code = GenerateCode
<1> DEFINE Same == \A h \in Handler : req'[h].next = "code" =>
                     req'[h] = req[h] \/ req'[h].code = GenerateCode
           Kept == disturbed' = disturbed /\ UNCHANGED terminal
<1>0. req \in [Handler -> HandlerState] /\ disturbed \in BOOLEAN
  BY DEF TypeOK
<1>1. ASSUME NEW g \in Handler, NEW s, Become(g, s),
             s.next = "code" => s.code = GenerateCode
      PROVE  Same
  BY <1>0, <1>1 DEF Become
<1>2. ASSUME UNCHANGED req
      PROVE  Same
  BY <1>2
<1>3. Idle.next # "code"
  BY DEF Idle
<1>4. /\ \A d, k, t : [next |-> "insert", kind |-> k, terminal |-> t, detail |-> d].next # "code"
      /\ \A i, t : [next |-> "remove", id |-> i, terminal |-> t].next # "code"
      /\ \A i, t, d : [next |-> "change", id |-> i, terminal |-> t, type |-> d].next # "code"
      /\ \A i, t, A : [next |-> "risks", plan |-> i, terminal |-> t, asked |-> A].next # "code"
      /\ \A i, t, A : [next |-> "save", plan |-> i, terminal |-> t, risks |-> A].next # "code"
      /\ \A t, U, f : [next |-> "count", terminal |-> t, uncounted |-> U, found |-> f].next
                        # "code"
      /\ \A t, c : [next |-> "code", terminal |-> t, code |-> c].code = c
  OBVIOUS
<1> HIDE DEF Same
<1>5. ASSUME NEW g \in Handler, Continues(g)
      PROVE  Same /\ (Kept \/ CreateTerminal(g))
  <2>1. /\ \/ CreateTerminal(g) \/ Insert(g) \/ Remove(g) \/ ChangeOccurrence(g)
           \/ SavePlan(g) \/ HardDelete(g) \/ Fail(g)
           => Same
        /\ FindRisks(g) => Same
    BY <1>1, <1>3, <1>4, Zenon DEF CreateTerminal, Insert, Remove, ChangeOccurrence, SavePlan,
         HardDelete, Fail, FindRisks
  <2>2. ASSUME NEW table, CountAttached(g, table)
        PROVE  Same
    <3> DEFINE U == req[g].uncounted \ {table}
               f == req[g].found \/ Attached(req[g].terminal, table)
               s == [req[g] EXCEPT !.uncounted = U, !.found = f]
    <3>1. Become(g, s) /\ req[g].next = "count"
      BY <2>2 DEF CountAttached
    <3>2. req[g] \in HandlerState
      BY <1>0
    <3>3. s.next = "count"
      BY <3>1, <3>2 DEF HandlerState, Idle
    <3>4. s.next # "code"
      BY <3>3
    <3> HIDE DEF s
    <3> QED BY <1>1, <3>1, <3>4, Zenon
  <2>3. \/ Insert(g) \/ Remove(g) \/ ChangeOccurrence(g) \/ SavePlan(g) \/ FindRisks(g)
        \/ Fail(g)
        => Kept
    BY Zenon DEF Insert, Remove, ChangeOccurrence, SavePlan, FindRisks, Fail, terminalVars
  <2>4. \A table : CountAttached(g, table) => Kept
    BY Zenon DEF CountAttached, terminalVars
  <2>5. HardDelete(g) => Kept
    BY DEF HardDelete
  <2> HIDE DEF Kept
  <2> QED BY <1>5, <2>1, <2>2, <2>3, <2>4, <2>5, Zenon DEF Continues
<1>6. ASSUME NEW g \in Handler, NEW u \in Members, Requests(g, u)
      PROVE  Same /\ Kept
  <2>1. \A k, t, d : Ask(g, k, t, d) => Same /\ Kept
    BY <1>1, <1>4, Zenon DEF Ask, Begin, terminalVars
  <2>2. ASSUME NEW t \in Terminal,
               \/ CreateRisk(g, u, t) \/ CreateMapElement(g, u, t)
               \/ CreateDocument(g, u, t) \/ CreateAlert(g, u, t)
               \/ \E type \in OccType : CreateOccurrence(g, u, t, type)
        PROVE  Same /\ Kept
    BY <2>1, <2>2, Zenon DEF CreateRisk, CreateMapElement, CreateDocument, CreateAlert,
         CreateOccurrence
  <2>3. ASSUME NEW t \in Terminal,
               UpdateRisk(u, t) \/ UpdateMapElement(u, t) \/ UpdateDocument(u, t)
        PROVE  Same /\ Kept
    BY <2>3, <1>2, Zenon DEF UpdateRisk, UpdateMapElement, UpdateDocument, Update, terminalVars
  <2>4. ASSUME NEW r \in OfKind("alert"), Acknowledge(u, r) \/ Resolve(u, r)
        PROVE  Same /\ Kept
    BY <2>4, <1>2, Zenon DEF Acknowledge, Resolve, SetAlert, terminalVars
  <2>5. \/ RemoveRisk(g, u) \/ RemoveMapElement(g, u) \/ RemoveDocument(g, u) \/ RemovePlan(g, u)
        \/ RemoveOccurrence(g, u) \/ \E type \in OccType : UpdateOccurrence(g, u, type)
        => Same /\ Kept
    BY <1>1, <1>4, Zenon DEF RemoveRisk, RemoveMapElement, RemoveDocument, RemovePlan,
         AskRemoval, RemoveOccurrence, UpdateOccurrence, AskChange, Begin, terminalVars
  <2>6. ASSUME NEW t \in Terminal, NEW A \in SUBSET (1 .. rowSeq), CreatePlan(g, u, t, A)
        PROVE  Same /\ Kept
    BY <2>6, <1>1, <1>4, Zenon DEF CreatePlan, Begin, terminalVars
  <2>7. ASSUME NEW p \in OfKind("plan"), NEW A \in SUBSET (1 .. rowSeq), UpdatePlan(g, u, p, A)
        PROVE  Same /\ Kept
    BY <2>7, <1>1, <1>4, Zenon DEF UpdatePlan, Begin, terminalVars
  <2> HIDE DEF Kept
  <2> QED BY <1>6, <2>2, <2>3, <2>4, <2>5, <2>6, <2>7, Zenon DEF Requests
<1>7. ASSUME Administration
      PROVE  /\ Same
             /\ \/ Kept
                \/ \E t \in Terminal : RemoveTerminal(t)
                \/ \E t \in Terminal, s \in TerminalStatus :
                     UpdateTerminal(t, terminal[t].code, s)
  <2>1. \A s : SetPermission(s) => Same /\ Kept
    BY <1>2, Zenon DEF SetPermission, terminalVars
  <2>2. \A u, home, allowed, role, linked, types :
          \/ CreateUser(u, role, home, linked, allowed, types)
          \/ UpdateUser(u, role, home, linked, allowed, types)
          => UNCHANGED req /\ Kept
    BY UserSteps, Zenon DEF terminalVars
  <2>3. \A t, c, s : RemoveTerminal(t) \/ UpdateTerminal(t, c, s) => Same
    BY <1>2, Zenon DEF RemoveTerminal, UpdateTerminal
  <2>4. ASSUME NEW t \in Terminal, NEW c, NEW s \in TerminalStatus, UpdateTerminal(t, c, s)
        PROVE  UpdateTerminal(t, terminal[t].code, s)
    <3>1. c = terminal[t].code
      BY <1>0, <2>4 DEF UpdateTerminal
    <3> QED BY <2>4, <3>1
  <2>5. \A g \in Handler : \A t, c : ~ AskTerminalWithCode(g, t, c)
    BY DEF AskTerminalWithCode
  <2>6. \A g \in Handler : \A t : AskTerminal(g, t) \/ StartHardDelete(g, t) => Same /\ Kept
    BY <1>1, <1>4, Zenon DEF AskTerminal, StartHardDelete, Begin, terminalVars
  <2> HIDE DEF Kept
  <2> QED BY <1>2, <1>7, <2>1, <2>2, <2>3, <2>4, <2>5, <2>6, Zenon DEF Administration
<1>8. Same /\ (Kept \/ (\E t \in Terminal : RemoveTerminal(t))
                    \/ (\E t \in Terminal, s \in TerminalStatus :
                          UpdateTerminal(t, terminal[t].code, s))
                    \/ (\E h \in Handler : CreateTerminal(h)))
  BY <1>5, <1>6, <1>7, Zenon DEF Next
<1>9. ~ disturbed
  BY <1>0, <1>8 DEF RemoveTerminal, UpdateTerminal, CreateTerminal
<1> QED BY <1>8, <1>9, Zenon DEF Same

(* Counting stays ahead of the codes: a creation moves both by one.        *)
LEMMA CodesCountedStep ==
  ASSUME TypeOK, CodesCounted, Next
  PROVE  CodesCounted'
<1> SUFFICES ASSUME ~ disturbed'
             PROVE  /\ \A t \in Existing' : terminal'[t].code <= Cardinality(Existing)'
                    /\ \A h \in Handler : req'[h].next = "code" => req'[h].code <= GenerateCode'
  BY Zenon DEF CodesCounted
<1>0. /\ terminal \in [Terminal -> [status : TerminalStatus \cup {"none", "deleted"}, code : Nat]]
      /\ req \in [Handler -> HandlerState]
  BY DEF TypeOK
<1>1. /\ \A t \in Existing : terminal[t].code <= Cardinality(Existing)
      /\ \A h \in Handler : req[h].next = "code" => req[h].code <= GenerateCode
      /\ \A h \in Handler : req'[h].next = "code" =>
           req'[h] = req[h] \/ req'[h].code = GenerateCode
      /\ \/ UNCHANGED terminal
         \/ \E t \in Terminal : RemoveTerminal(t)
         \/ \E t \in Terminal, s \in TerminalStatus : UpdateTerminal(t, terminal[t].code, s)
         \/ \E h \in Handler : CreateTerminal(h)
  BY CodeSteps, Zenon DEF CodesCounted
<1> DEFINE n == Cardinality(Existing)
<1>2. n \in Nat /\ IsFiniteSet(Existing) /\ GenerateCode = n + 1
  BY ExistingFinite DEF GenerateCode
<1>3. \A h \in Handler : req'[h].next = "code" => req'[h].code <= n + 1
  BY <1>1, <1>2
<1>4. ASSUME Existing' = Existing, \A t \in Terminal : terminal'[t].code = terminal[t].code
      PROVE  /\ \A t \in Existing' : terminal'[t].code <= Cardinality(Existing)'
             /\ Cardinality(Existing)' = n
  <2>1. Cardinality(Existing)' = n
    BY <1>4
  <2>2. \A t \in Existing : t \in Terminal
    BY DEF Existing
  <2> QED BY <1>1, <1>4, <2>1, <2>2
<1>5. ASSUME UNCHANGED terminal
      PROVE  Existing' = Existing /\ \A t \in Terminal : terminal'[t].code = terminal[t].code
  BY <1>5 DEF Existing, TerminalExists
<1>6. ASSUME NEW t \in Terminal,
             \/ RemoveTerminal(t)
             \/ \E s \in TerminalStatus : UpdateTerminal(t, terminal[t].code, s)
      PROVE  Existing' = Existing /\ \A x \in Terminal : terminal'[x].code = terminal[x].code
  <2>1. PICK s \in TerminalStatus :
          terminal' = [terminal EXCEPT ![t] = [status |-> s, code |-> terminal[t].code]]
            \/ terminal' = [terminal EXCEPT ![t].status = s]
    BY <1>6 DEF RemoveTerminal, RemovedStatus, TerminalStatus, UpdateTerminal
  <2>2. terminal[t].status \in TerminalStatus
    BY <1>6 DEF RemoveTerminal, UpdateTerminal, TerminalExists
  <2>3. \A x \in Terminal : terminal'[x].code = terminal[x].code
    BY <1>0, <2>1
  <2>4. \A x \in Terminal :
          terminal'[x].status \in TerminalStatus <=> terminal[x].status \in TerminalStatus
    BY <1>0, <2>1, <2>2
  <2>5. Existing' = Existing
    BY <2>4 DEF Existing, TerminalExists
  <2> QED BY <2>3, <2>5
<1>7. ASSUME NEW h \in Handler, CreateTerminal(h), terminal' # terminal
      PROVE  /\ \A t \in Existing' : terminal'[t].code <= Cardinality(Existing)'
             /\ Cardinality(Existing)' = n + 1
  <2> DEFINE c == req[h].terminal
  <2>1. /\ req[h].next = "code" /\ terminal[c].status = "none"
        /\ terminal' = [terminal EXCEPT ![c] = [status |-> "Ativo", code |-> req[h].code]]
    BY <1>7 DEF CreateTerminal
  <2>2. c \in Terminal /\ req[h].code \in Nat
    BY <1>0, <2>1, StateFields
  <2>3. req[h].code <= n + 1
    BY <1>1, <1>2, <2>1
  <2>4. /\ \A x \in Terminal : x # c => terminal'[x] = terminal[x]
        /\ terminal'[c].status = "Ativo" /\ terminal'[c].code = req[h].code
    BY <1>0, <2>1, <2>2
  <2>5. terminal'[c].status \in TerminalStatus /\ terminal[c].status \notin TerminalStatus
    BY <2>1, <2>4 DEF TerminalStatus
  <2>6. Existing' = Existing \cup {c} /\ c \notin Existing
    BY <2>2, <2>4, <2>5 DEF Existing, TerminalExists
  <2>7. Cardinality(Existing)' = n + 1
    <3>1. Cardinality(Existing \cup {c}) = n + 1
      BY <1>2, <2>6, FS_AddElement
    <3> QED BY <2>6, <3>1
  <2>8. \A x \in Existing : x \in Terminal /\ x # c /\ terminal[x].code \in Nat
    BY <1>0, <2>6 DEF Existing
  <2> HIDE DEF c, n
  <2>9. ASSUME NEW x \in Existing'
        PROVE  terminal'[x].code <= n + 1
    BY <1>1, <1>2, <2>3, <2>4, <2>6, <2>8, <2>9 DEF n
  <2> QED BY <2>7, <2>9
<1>8. \/ /\ \A t \in Existing' : terminal'[t].code <= Cardinality(Existing)'
         /\ Cardinality(Existing)' = n
      \/ /\ \A t \in Existing' : terminal'[t].code <= Cardinality(Existing)'
         /\ Cardinality(Existing)' = n + 1
  BY <1>1, <1>4, <1>5, <1>6, <1>7, Zenon
<1>9. GenerateCode' = Cardinality(Existing)' + 1
  <2>1. Cardinality(Existing)' \in Nat
    BY <1>2, <1>8
  <2>2. GenerateCode' = 1 + Cardinality(Existing)'
    BY DEF GenerateCode
  <2> QED BY <2>1, <2>2
<1>10. \A h \in Handler : req'[h].next = "code" => req'[h].code <= GenerateCode'
  <2>1. \A h \in Handler : req'[h].next = "code" => req'[h].code \in Nat
    <3>1. req' \in [Handler -> HandlerState]
      BY StepTyped DEF TypeOK
    <3> QED BY <3>1, StateFields
  <2> QED BY <1>2, <1>3, <1>8, <1>9, <2>1
<1> QED BY <1>8, <1>10

(* Until a code is typed or a terminal excluded for good, the code that    *)
(* would be generated now is free: no code is above the number of the      *)
(* terminals, for the seed counts them from one and every creation in      *)
(* flight was counted, however many overlap.                               *)
THEOREM TenancyGeneratedCodeFree == Spec => []GeneratedCodeFree
<1>1. Init => CodesCounted
  <2> SUFFICES ASSUME Init
               PROVE  CodesCounted
    OBVIOUS
  <2>1. PICK n \in Seeds : \E code \in [Terminal -> 0 .. n] : SeededTerminals(n, code)
    BY DEF Init
  <2>2. PICK code \in [Terminal -> 0 .. n] : SeededTerminals(n, code)
    BY <2>1
  <2>3. n \in Nat
    BY TenancyAssumption
  <2>4. \A h \in Handler : req[h].next # "code"
    BY DEF Init, Idle
  <2> QED BY <2>2, <2>3, <2>4, SeedCounted DEF CodesCounted
<1>2. TypeOK /\ CodesCounted /\ [Next]_vars => CodesCounted'
  <2>1. ASSUME CodesCounted, UNCHANGED vars
        PROVE  CodesCounted'
    BY <2>1, Zenon DEF vars, terminalVars, CodesCounted, Existing, TerminalExists, GenerateCode
  <2> QED BY <2>1, CodesCountedStep
<1>3. TypeOK /\ CodesCounted => GeneratedCodeFree
  <2> SUFFICES ASSUME TypeOK, CodesCounted, ~ disturbed, GenerateCode \in Codes
               PROVE  FALSE
    BY DEF GeneratedCodeFree
  <2>1. PICK t \in Existing : terminal[t].code = GenerateCode
    BY Zenon DEF Codes
  <2>2. terminal[t].code <= Cardinality(Existing)
    BY DEF CodesCounted
  <2> QED BY <2>1, <2>2, ExistingFinite DEF GenerateCode
<1> QED BY <1>1, <1>2, <1>3, TenancyTyped, PTL DEF Spec
=============================================================================
