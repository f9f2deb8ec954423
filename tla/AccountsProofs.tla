--------------------------- MODULE AccountsProofs ---------------------------
(***************************************************************************)
(* What holds of Accounts for any number of users, requests, passwords,    *)
(* rows and instants: its types, that a rotation revokes before it issues, *)
(* that the gating of the terms is backed by an acceptance, that the       *)
(* tokens in use after a change of password descend from it, that two      *)
(* records of one reading are apart, that history blocks an exclusion, and *)
(* that the access report agrees with itself, at any instant.              *)
(***************************************************************************)
EXTENDS Accounts, TLAPS, FiniteSetTheorems, WellFoundedInduction

-----------------------------------------------------------------------------
(* The values that pass through a handler, by the statement it is about to *)
(* send.                                                                   *)
LEMMA HandlerStates ==
  /\ Idle \in HandlerState
  /\ \A u \in User, p \in Password, l \in BOOLEAN :
       [next |-> "open", user |-> u, secret |-> p, late |-> l] \in HandlerState
  /\ \A u \in User, p \in Password, n \in {"hash", "sweep"} :
       [next |-> n, user |-> u, secret |-> p] \in HandlerState
  /\ \A u \in User, n \in {"find", "closeAll"} : [next |-> n, user |-> u] \in HandlerState
  /\ \A s \in Nat : [next |-> "close", session |-> s] \in HandlerState
  /\ \A u \in User, v \in Version, t \in Nat :
       [next |-> "gate", user |-> u, version |-> v, at |-> t] \in HandlerState
BY DEF HandlerState, Idle

(* A request between the verification of a refresh token and the new pair  *)
(* of tokens, or between a login and its tokens.                           *)
LEMMA RefreshStates ==
  ASSUME NEW u \in User, NEW p \in Password, NEW l \in BOOLEAN, NEW n \in {"rotate", "issue"},
         NEW f \in Null(Nat), NEW s \in Null(Nat)
  PROVE  [next |-> n, user |-> u, from |-> f, session |-> s, secret |-> p, late |-> l]
           \in HandlerState
BY DEF HandlerState

(* A reading about to be recorded, with what the look-up found.            *)
LEMMA RecordStates ==
  ASSUME NEW u \in User, NEW o \in Occurrence, NEW t \in Nat, NEW n \in Nat, NEW b \in BOOLEAN
  PROVE  [next |-> "record", user |-> u, occ |-> o, at |-> t, seen |-> n, blind |-> b]
           \in HandlerState
BY DEF HandlerState

(* An exclusion that is counting the history of its user.                  *)
LEMMA CountStates ==
  ASSUME NEW u \in User, NEW U \in SUBSET History, NEW F \in SUBSET History,
         NEW H \in SUBSET History
  PROVE  [next |-> "count", user |-> u, uncounted |-> U, found |-> F, held |-> H]
           \in HandlerState
BY DEF HandlerState

(* What such a value holds.                                                *)
LEMMA OpenState ==
  ASSUME NEW q \in HandlerState, q.next = "open"
  PROVE  /\ q.user \in User /\ q.secret \in Password /\ q.late \in BOOLEAN
         /\ \A l \in BOOLEAN : [q EXCEPT !.late = l] =
              [next |-> q.next, user |-> q.user, secret |-> q.secret, late |-> l]
<1>1. q \in [next : {"open"}, user : User, secret : Password, late : BOOLEAN]
  BY DEF HandlerState, Idle
<1> QED BY <1>1

(* A refresh in flight knows its user, its token, its session and its      *)
(* secret, and the sweep changes nothing of it but the mark.               *)
LEMMA RefreshState ==
  ASSUME NEW q \in HandlerState, q.next \in {"rotate", "issue"}
  PROVE  /\ q.user \in User /\ q.from \in Null(Nat) /\ q.session \in Null(Nat)
         /\ q.secret \in Password /\ q.late \in BOOLEAN
         /\ [q EXCEPT !.next = "issue"] =
              [next |-> "issue", user |-> q.user, from |-> q.from, session |-> q.session,
               secret |-> q.secret, late |-> q.late]
         /\ \A l \in BOOLEAN : [q EXCEPT !.late = l] =
              [next |-> q.next, user |-> q.user, from |-> q.from, session |-> q.session,
               secret |-> q.secret, late |-> l]
<1>1. q \in [next : {"rotate", "issue"}, user : User, from : Null(Nat), session : Null(Nat),
             secret : Password, late : BOOLEAN]
  BY DEF HandlerState, Idle
<1>2. [q EXCEPT !.next = "issue"] =
        [next |-> "issue", user |-> q.user, from |-> q.from, session |-> q.session,
         secret |-> q.secret, late |-> q.late]
  BY <1>1
<1>3. \A l \in BOOLEAN : [q EXCEPT !.late = l] =
        [next |-> q.next, user |-> q.user, from |-> q.from, session |-> q.session,
         secret |-> q.secret, late |-> l]
  BY <1>1
<1> QED BY <1>1, <1>2, <1>3

(* A change of password in flight knows its user and the new password.     *)
LEMMA PasswordState ==
  ASSUME NEW q \in HandlerState, q.next \in {"hash", "sweep"}
  PROVE  /\ q.user \in User /\ q.secret \in Password
         /\ [q EXCEPT !.next = "sweep"] =
              [next |-> "sweep", user |-> q.user, secret |-> q.secret]
BY DEF HandlerState, Idle

(* What the remaining handlers know of their user.                         *)
LEMMA OtherStates ==
  ASSUME NEW q \in HandlerState
  PROVE  /\ q.next \in {"find", "closeAll", "gate", "record", "count"} => q.user \in User
         /\ q.next = "gate" => q.version \in Version /\ q.at \in Nat
         /\ q.next = "record" => q.occ \in Occurrence
BY DEF HandlerState, Idle

(* An exclusion that counts keeps its user and the shape of its counts.    *)
LEMMA CountState ==
  ASSUME NEW q \in HandlerState, q.next = "count",
         NEW U \in SUBSET History, NEW F \in SUBSET History
  PROVE  /\ q.user \in User /\ q.uncounted \subseteq History /\ q.found \subseteq History
         /\ [q EXCEPT !.uncounted = U, !.found = F] \in HandlerState
<1>1. q \in [next : {"count"}, user : User, uncounted : SUBSET History,
             found : SUBSET History, held : SUBSET History]
  BY DEF HandlerState, Idle
<1>2. [q EXCEPT !.uncounted = U, !.found = F]
        \in [next : {"count"}, user : User, uncounted : SUBSET History,
             found : SUBSET History, held : SUBSET History]
  BY <1>1
<1> QED BY <1>1, <1>2 DEF HandlerState

(* What a sweep does to the other requests.                                *)
LEMMA Marked ==
  ASSUME NEW q \in HandlerState, NEW u \in User
  PROVE  /\ MarkedLate(q, u) \in HandlerState
         /\ MarkedLate(q, u).next = q.next
         /\ q.next \notin {"open", "rotate", "issue"} => MarkedLate(q, u) = q
         /\ q.next \in {"open", "rotate", "issue"} =>
              /\ MarkedLate(q, u).user = q.user
              /\ MarkedLate(q, u).secret = q.secret
              /\ q.user = u => MarkedLate(q, u).late = TRUE
              /\ q.user # u => MarkedLate(q, u) = q
         /\ q.next \in {"rotate", "issue"} => MarkedLate(q, u).from = q.from
<1>1. CASE q.next = "open" /\ q.user = u
  <2> DEFINE r(l) == [next |-> q.next, user |-> q.user, secret |-> q.secret, late |-> l]
  <2>1. \A l \in BOOLEAN : [q EXCEPT !.late = l] = r(l)
    BY <1>1, OpenState
  <2>2. MarkedLate(q, u) = [q EXCEPT !.late = TRUE]
    BY <1>1, Zenon DEF MarkedLate
  <2>3. MarkedLate(q, u) = r(TRUE)
    BY <2>1, <2>2, Zenon
  <2>4. r(TRUE) \in HandlerState
    BY <1>1, OpenState, HandlerStates
  <2> QED BY <1>1, <2>3, <2>4
<1>2. CASE q.next \in {"rotate", "issue"} /\ q.user = u
  <2> DEFINE r(l) == [next |-> q.next, user |-> q.user, from |-> q.from,
                      session |-> q.session, secret |-> q.secret, late |-> l]
  <2>1. \A l \in BOOLEAN : [q EXCEPT !.late = l] = r(l)
    BY <1>2, RefreshState
  <2>2. MarkedLate(q, u) = [q EXCEPT !.late = TRUE]
    BY <1>2, Zenon DEF MarkedLate
  <2>3. MarkedLate(q, u) = r(TRUE)
    BY <2>1, <2>2, Zenon
  <2>4. r(TRUE) \in HandlerState
    BY <1>2, RefreshState, RefreshStates
  <2> QED BY <1>2, <2>3, <2>4
<1>3. CASE ~ (q.next \in {"open", "rotate", "issue"} /\ q.user = u)
  BY <1>3 DEF MarkedLate
<1> QED BY <1>1, <1>2, <1>3

(* A row of the tokens or the sessions that is closed stays a row.         *)
LEMMA RevokedTyped ==
  ASSUME tokens \subseteq Token, NEW chosen
  PROVE  Revoked(chosen) \subseteq Token
BY DEF Revoked, Token

(* The same of the sessions.                                               *)
LEMMA ClosedTyped ==
  ASSUME sessions \subseteq Session, NEW chosen
  PROVE  Closed(chosen) \subseteq Session
BY DEF Closed, Session

-----------------------------------------------------------------------------
(* Types *)

(* The tables are empty and no request is in flight.                       *)
LEMMA InitTyped == Init => TypeOK
BY HandlerStates, AccountsAssumption DEF Init, TypeOK, Account, Null

(* The administration of users.                                            *)
LEMMA AdministrationTyped ==
  ASSUME TypeOK, NEW op \in calls, NEW u \in User, Administration(op, u)
  PROVE  account' \in [User -> Account] /\ swept' \in [User -> BOOLEAN]
           /\ history' \in [User -> SUBSET History] /\ UNCHANGED <<rowVars, now, req>>
<1> USE AccountsAssumption DEF TypeOK, Account, rowVars
<1>1. ASSUME NEW p \in Password, CreateUser(u, p)
      PROVE  account' \in [User -> Account]
  <2>1. account[u] \in Account
    OBVIOUS
  <2>2. [account[u] EXCEPT !.status = "ACTIVE", !.password = p] \in Account
    BY <2>1
  <2>3. account' = [account EXCEPT ![u] = [@ EXCEPT !.status = "ACTIVE", !.password = p]]
    BY <1>1 DEF CreateUser, NewStatus
  <2> QED BY <2>2, <2>3
<1>2. ASSUME NEW p \in Password, UpdateUser(u, p)
      PROVE  account' \in [User -> Account] /\ swept' \in [User -> BOOLEAN]
  BY <1>2 DEF UpdateUser
<1>3. ASSUME NEW s \in StatusAsked, UpdateStatus(u, s)
      PROVE  account' \in [User -> Account]
  BY <1>3 DEF UpdateStatus
<1>4. ASSUME NEW table \in History, Work(u, table)
      PROVE  history' \in [User -> SUBSET History]
  BY <1>4 DEF Work
<1> QED
  BY <1>1, <1>2, <1>3, <1>4
  DEF Administration, CreateUser, UpdateUser, UpdateStatus, Work

(* The first statement of a request.                                       *)
LEMMA StartTyped ==
  ASSUME TypeOK, calls' = calls, NEW op \in calls, NEW h \in Handler, NEW u \in User,
         Starts(op, h, u)
  PROVE  TypeOK'
<1> USE AccountsAssumption DEF TypeOK, rowVars, userVars, Begin, Become
<1>1. ASSUME NEW p \in Password, Login(h, u, p)
      PROVE  TypeOK'
  BY <1>1, HandlerStates DEF Login
<1>2. ASSUME NEW p \in Password, NEW q \in Password, ChangePassword(h, u, p, q)
      PROVE  TypeOK'
  BY <1>2, HandlerStates DEF ChangePassword
<1>3. ASSUME NEW t \in tokens, CheckRefresh(h, t)
      PROVE  TypeOK'
  <2>1. /\ t.user \in User /\ t.id \in Null(Nat) /\ t.session \in Null(Nat)
        /\ t.secret \in Password /\ t.late \in BOOLEAN
    BY DEF Token, Null
  <2>2. req' \in [Handler -> HandlerState]
    BY <1>3, <2>1, RefreshStates DEF CheckRefresh, AfterCheck
  <2> QED BY <1>3, <2>2 DEF CheckRefresh
<1>4. ASSUME NEW t \in tokens, Logout(h, t)
      PROVE  TypeOK'
  <2>1. t.user \in User
    BY DEF Token
  <2> QED BY <1>4, <2>1, HandlerStates, RevokedTyped DEF Logout
<1>5. ASSUME LogoutAll(h, u)
      PROVE  TypeOK'
  BY <1>5, HandlerStates, RevokedTyped DEF LogoutAll
<1>6. ASSUME NEW v \in Version, AcceptTerms(h, u, v)
      PROVE  TypeOK'
  <2>1. acceptances' \subseteq Acceptance /\ rowSeq' \in Nat
    BY <1>6 DEF AcceptTerms, NewRow, Acceptance
  <2> QED BY <1>6, <2>1, HandlerStates DEF AcceptTerms
<1>7. ASSUME NEW o \in Occurrence, NEW blind \in BOOLEAN, LookForView(h, u, o, blind)
      PROVE  TypeOK'
  BY <1>7, RecordStates DEF LookForView
<1>8. ASSUME StartHardDelete(h, u)
      PROVE  TypeOK'
  BY <1>8, CountStates DEF StartHardDelete
<1> QED
  BY <1>1, <1>2, <1>3, <1>4, <1>5, <1>6, <1>7, <1>8 DEF Starts

(* The statements after it.                                                *)
LEMMA ContinueTyped ==
  ASSUME TypeOK, calls' = calls, NEW h \in Handler, Continues(h)
  PROVE  TypeOK'
<1> USE AccountsAssumption DEF TypeOK, rowVars, userVars, Become
<1> DEFINE q == req[h]
<1>q. q \in HandlerState
  OBVIOUS
<1>n. Never \in Null(Nat) /\ Nat \subseteq Null(Nat)
  BY DEF Null
<1>1. CASE OpenSession(h)
  <2>1. q.next = "open" /\ q.user \in User /\ q.secret \in Password /\ q.late \in BOOLEAN
    BY <1>1, <1>q, OpenState DEF OpenSession
  <2>2. rowSeq' \in Nat
    BY <1>1 DEF OpenSession, NewRow
  <2>3. [id |-> rowSeq', user |-> q.user, loginAt |-> now, open |-> TRUE] \in Session
    BY <2>1, <2>2 DEF Session
  <2>4. sessions' \subseteq Session
    BY <1>1, <2>3, Zenon DEF OpenSession
  <2>5. ToIssue(h, Never, rowSeq') \in HandlerState
    BY <1>n, <2>1, <2>2, RefreshStates DEF ToIssue
  <2> QED BY <1>1, <2>2, <2>5, <2>4 DEF OpenSession
<1>2. CASE SessionNotOpened(h)
  <2>1. q.next = "open" /\ q.user \in User /\ q.secret \in Password /\ q.late \in BOOLEAN
    BY <1>2, <1>q, OpenState DEF SessionNotOpened
  <2>2. ToIssue(h, Never, Never) \in HandlerState
    BY <1>n, <2>1, RefreshStates DEF ToIssue
  <2> QED BY <1>2, <2>2 DEF SessionNotOpened
<1>3. CASE RotateToken(h)
  <2> DEFINE r == [next |-> "issue", user |-> q.user, from |-> q.from,
                   session |-> q.session, secret |-> q.secret, late |-> q.late]
  <2>1. q.next \in {"rotate", "issue"}
    BY <1>3 DEF RotateToken
  <2>2. r \in HandlerState
    BY <1>q, <2>1, RefreshState, RefreshStates
  <2>3. [q EXCEPT !.next = "issue"] = r
    BY <1>q, <2>1, RefreshState, Zenon
  <2>4. [q EXCEPT !.next = "issue"] \in HandlerState
    BY <2>2, <2>3, Zenon
  <2> QED BY <1>3, <2>4, RevokedTyped DEF RotateToken
<1>4. CASE IssueToken(h)
  <2>1. /\ q.user \in User /\ q.from \in Null(Nat) /\ q.session \in Null(Nat)
        /\ q.secret \in Password /\ q.late \in BOOLEAN
    BY <1>4, <1>q, RefreshState DEF IssueToken
  <2>2. rowSeq' \in Nat /\ now + TTL \in Nat
    BY <1>4 DEF IssueToken, NewRow
  <2>3. [id |-> rowSeq', user |-> q.user, from |-> q.from, session |-> q.session,
         revoked |-> FALSE, expiresAt |-> now + TTL, secret |-> q.secret, late |-> q.late]
          \in Token
    BY <2>1, <2>2 DEF Token
  <2>4. tokens' \subseteq Token
    BY <1>4, <2>3, Zenon DEF IssueToken
  <2> QED BY <1>4, <2>2, <2>4, HandlerStates DEF IssueToken
<1>5. CASE FindOpenSession(h)
  <2>1. \A s \in sessions : s.id \in Nat
    BY DEF Session
  <2> QED BY <1>5, <2>1, HandlerStates DEF FindOpenSession, OpenSessions
<1>6. CASE CloseSession(h)
  BY <1>6, HandlerStates, ClosedTyped DEF CloseSession
<1>7. CASE CloseAllSessions(h)
  BY <1>7, HandlerStates, ClosedTyped DEF CloseAllSessions
<1>8. CASE WriteHash(h)
  <2> DEFINE r == [next |-> "sweep", user |-> q.user, secret |-> q.secret]
  <2>1. q.next \in {"hash", "sweep"}
    BY <1>8 DEF WriteHash
  <2>2. [q EXCEPT !.next = "sweep"] = r
    BY <1>q, <2>1, PasswordState, Zenon
  <2>3. q.user \in User /\ q.secret \in Password /\ r \in HandlerState
    BY <1>q, <2>1, PasswordState, HandlerStates
  <2>4. /\ q.user \in User /\ q.secret \in Password
        /\ [q EXCEPT !.next = "sweep"] \in HandlerState
    BY <2>2, <2>3, Zenon
  <2>5. account' \in [User -> Account] /\ swept' \in [User -> BOOLEAN]
    BY <1>8, <2>4 DEF WriteHash, Account
  <2> QED BY <1>8, <2>4, <2>5 DEF WriteHash
<1>9. CASE SweepTokens(h)
  <2>1. q.user \in User /\ q.secret \in Password
    BY <1>9, <1>q, PasswordState DEF SweepTokens
  <2>2. [next |-> "issue", user |-> q.user, from |-> Never, session |-> Never,
         secret |-> q.secret, late |-> FALSE] \in HandlerState
    BY <1>n, <2>1, RefreshStates
  <2>3. req' \in [Handler -> HandlerState]
    BY <1>9, <2>1, <2>2, Marked DEF SweepTokens
  <2>4. swept' \in [User -> BOOLEAN]
    BY <1>9, <2>1 DEF SweepTokens
  <2> QED BY <1>9, <2>3, <2>4, RevokedTyped DEF SweepTokens
<1>10. CASE GateUser(h)
  <2>1. q.user \in User /\ q.version \in Version /\ q.at \in Nat
    BY <1>10, <1>q, OtherStates DEF GateUser
  <2>2. account' \in [User -> Account]
    BY <1>10, <2>1 DEF GateUser, Account, StampedAt, Null
  <2> QED BY <1>10, <2>2, HandlerStates DEF GateUser
<1>11. CASE RecordView(h)
  <2>1. q.user \in User /\ q.occ \in Occurrence
    BY <1>11, <1>q, OtherStates DEF RecordView
  <2>2. rowSeq' \in Nat /\ views' \subseteq View
    BY <1>11, <2>1 DEF RecordView, NewRow, View
  <2> QED BY <1>11, <2>2, HandlerStates DEF RecordView
<1>12. ASSUME NEW table \in History, CountHistory(h, table)
       PROVE  TypeOK'
  <2> DEFINE U == q.uncounted \ {table}
             F == IF Counted(q.user, table) THEN q.found \cup {table} ELSE q.found
  <2>1. q.next = "count" /\ q.uncounted \subseteq History /\ q.found \subseteq History
    BY <1>12, <1>q, CountState, Zenon DEF CountHistory
  <2>2. U \in SUBSET History /\ F \in SUBSET History
    BY <2>1
  <2> HIDE DEF U, F
  <2>3. [q EXCEPT !.uncounted = U, !.found = F] \in HandlerState
    BY <1>q, <2>1, <2>2, CountState
  <2>4. req' \in [Handler -> HandlerState]
    BY <1>12, <2>3 DEF CountHistory, U, F
  <2> QED BY <1>12, <2>4 DEF CountHistory
<1>13. CASE HardDelete(h)
  <2>1. q.user \in User
    BY <1>13, <1>q, OtherStates DEF HardDelete
  <2>2. account' \in [User -> Account]
    BY <1>13, <2>1 DEF HardDelete, Account
  <2>3. tokens' \subseteq Token /\ sessions' \subseteq Session /\ acceptances' \subseteq Acceptance
    BY <1>13 DEF HardDelete, Others
  <2> QED BY <1>13, <2>2, <2>3, HandlerStates DEF HardDelete
<1>14. CASE Fail(h)
  BY <1>14, HandlerStates DEF Fail
<1> QED
  BY <1>1, <1>2, <1>3, <1>4, <1>5, <1>6, <1>7, <1>8, <1>9, <1>10, <1>11, <1>12, <1>13, <1>14
  DEF Continues

(* Every step keeps the types: the administration, the first statements    *)
(* and the ones that follow have a lemma each.                             *)
LEMMA StepTyped == TypeOK /\ [Next]_vars => TypeOK'
<1> SUFFICES ASSUME TypeOK, [Next]_vars PROVE TypeOK'
  OBVIOUS
<1>1. CASE UNCHANGED vars
  BY <1>1 DEF TypeOK, vars, rowVars, userVars
<1>2. CASE calls' = calls /\ Tick
  BY <1>2 DEF TypeOK, Tick, rowVars, userVars
<1>3. ASSUME calls' = calls, NEW op \in calls, NEW u \in User, Administration(op, u)
      PROVE  TypeOK'
  BY <1>3, AdministrationTyped DEF TypeOK, rowVars
<1>4. ASSUME calls' = calls, NEW op \in calls, NEW u \in User, NEW h \in Handler,
             Starts(op, h, u)
      PROVE  TypeOK'
  BY <1>4, StartTyped
<1>5. ASSUME calls' = calls, NEW h \in Handler, Continues(h)
      PROVE  TypeOK'
  BY <1>5, ContinueTyped
<1> QED BY <1>1, <1>2, <1>3, <1>4, <1>5 DEF Next

(* Every variable keeps its type: a handler in flight holds only what its  *)
(* next statement needs, and no row has a column of another kind.          *)
THEOREM AccountsTyped == Spec => []TypeOK
<1>1. TypeOK /\ [Next]_vars => TypeOK'
  BY StepTyped
<1> QED BY InitTyped, <1>1, PTL DEF Spec
-----------------------------------------------------------------------------
(* The facts carried from statement to statement *)

(* A request that holds a user was let in by a row of that user.           *)
Carries == {"open", "rotate", "issue", "hash", "sweep", "gate"}
KnownUsers ==
  /\ \A h \in Handler : req[h].next \in Carries => account[req[h].user].status # "none"
  /\ \A u \in User : account[u].status = "none" => ~ swept[u] /\ account[u].version = Never

(* A rotation in flight, and one that has ended, name a token of the same  *)
(* user that is still stored, revoked once the rotation has passed it.     *)
RotationTraced ==
  /\ \A t \in tokens : t.from # Never =>
       \E x \in tokens : x.id = t.from /\ x.user = t.user /\ x.revoked
  /\ \A h \in Handler :
       req[h].next \in {"rotate", "issue"} /\ RowExists(req[h].user) /\ req[h].from # Never =>
         \E x \in tokens : /\ x.id = req[h].from /\ x.user = req[h].user
                           /\ req[h].next = "issue" => x.revoked

(* The gating in flight is backed as the one stored is.                    *)
AcceptanceStored(u, v, at) ==
  \E a \in acceptances : a.user = u /\ a.version = v /\ a.at = at

GatingTraced ==
  /\ \A u \in User : RowExists(u) /\ account[u].version # Never =>
       AcceptanceStored(u, account[u].version, account[u].at)
  /\ \A h \in Handler : req[h].next = "gate" /\ RowExists(req[h].user) =>
       AcceptanceStored(req[h].user, req[h].version, req[h].at)

(* A token about to be issued, like one stored, descends from a login with *)
(* the password of now, or is late.                                        *)
SecretsCurrent ==
  /\ TokensOfCurrentPassword
  /\ \A h \in Handler :
       req[h].next \in {"open", "rotate", "issue"} /\ swept[req[h].user] /\ ~ req[h].late =>
         req[h].secret = account[req[h].user].password

-----------------------------------------------------------------------------
(* The steps that touch what these facts are about; any other leaves the   *)
(* rows alone, and no request carries anything new after it.               *)
Disturbs ==
  \/ \E u \in User, p \in Password : CreateUser(u, p) \/ UpdateUser(u, p)
  \/ \E u \in User, s \in StatusAsked : UpdateStatus(u, s)
  \/ \E h \in Handler, u \in User, p \in Password :
       Login(h, u, p) \/ \E new \in Password : ChangePassword(h, u, p, new)
  \/ \E h \in Handler, u \in User, v \in Version : AcceptTerms(h, u, v)
  \/ \E h \in Handler, t \in tokens : CheckRefresh(h, t) \/ Logout(h, t)
  \/ \E h \in Handler, u \in User : LogoutAll(h, u)
  \/ \E h \in Handler :
       \/ OpenSession(h) \/ SessionNotOpened(h) \/ RotateToken(h) \/ IssueToken(h)
       \/ WriteHash(h) \/ SweepTokens(h) \/ GateUser(h) \/ HardDelete(h)

Undisturbed ==
  /\ UNCHANGED <<account, swept, tokens, acceptances>>
  /\ \A h \in Handler : req'[h] = req[h] \/ req'[h].next \notin Carries

(* Every step is one of the actions above or leaves the facts alone.       *)
LEMMA Disturbances == TypeOK /\ [Next]_vars => Undisturbed \/ Disturbs
<1> SUFFICES ASSUME TypeOK, [Next]_vars, ~ Disturbs PROVE Undisturbed
  OBVIOUS
<1> USE DEF Undisturbed, rowVars, userVars
<1>r. req \in [Handler -> HandlerState]
  BY DEF TypeOK
<1>1. CASE UNCHANGED vars
  BY <1>1 DEF vars
<1>2. CASE Tick
  BY <1>2 DEF Tick
<1>3. ASSUME NEW op \in calls, NEW u \in User, Administration(op, u)
      PROVE  Undisturbed
  BY <1>3 DEF Administration, Work, Disturbs
<1>4. ASSUME NEW op \in calls, NEW u \in User, NEW h \in Handler, Starts(op, h, u)
      PROVE  Undisturbed
  BY <1>4, <1>r DEF Starts, LookForView, StartHardDelete, Begin, Become, Carries, Disturbs
<1>5. ASSUME NEW h \in Handler, Continues(h)
      PROVE  Undisturbed
  <2>1. CASE FindOpenSession(h) \/ CloseSession(h) \/ CloseAllSessions(h)
    BY <2>1, <1>r DEF FindOpenSession, CloseSession, CloseAllSessions, Become, Carries, Idle
  <2>2. CASE RecordView(h) \/ Fail(h)
    BY <2>2, <1>r DEF RecordView, Fail, Become, Carries, Idle
  <2>3. CASE \E table \in History : CountHistory(h, table)
    BY <2>3, <1>r DEF CountHistory, Become, Carries
  <2> QED BY <2>1, <2>2, <2>3, <1>5 DEF Continues, Disturbs
<1> QED BY <1>1, <1>2, <1>3, <1>4, <1>5 DEF Next

(* Revoking changes no other column of a token, and drops none.            *)
LEMMA RevokedRows ==
  ASSUME tokens \subseteq Token, NEW chosen
  PROVE  /\ \A t \in tokens : \E y \in Revoked(chosen) :
              /\ y.id = t.id /\ y.user = t.user
              /\ t.revoked \/ t \in chosen => y.revoked
         /\ \A y \in Revoked(chosen) : \E t \in tokens :
              /\ y.id = t.id /\ y.user = t.user /\ y.from = t.from
              /\ y.secret = t.secret /\ y.late = t.late
              /\ t.revoked \/ t \in chosen => y.revoked
<1> DEFINE g(t) == IF t \in chosen THEN [t EXCEPT !.revoked = TRUE] ELSE t
<1>1. \A t \in tokens :
        /\ g(t).id = t.id /\ g(t).user = t.user /\ g(t).from = t.from
        /\ g(t).secret = t.secret /\ g(t).late = t.late
        /\ t.revoked \/ t \in chosen => g(t).revoked
  BY DEF Token
<1>2. Revoked(chosen) = {g(t) : t \in tokens}
  BY DEF Revoked
<1> HIDE DEF g
<1>3. \A t \in tokens : g(t) \in Revoked(chosen)
  BY <1>2
<1>4. \A y \in Revoked(chosen) : \E t \in tokens : y = g(t)
  BY <1>2
<1> QED BY <1>1, <1>3, <1>4

(* What a sweep leaves of the requests: its own goes on to issue, the      *)
(* others of the same user are late, and nothing else of them changes.     *)
LEMMA SweptRequests ==
  ASSUME TypeOK, NEW h \in Handler, SweepTokens(h)
  PROVE  /\ req[h].user \in User
         /\ req'[h] = [next |-> "issue", user |-> req[h].user, from |-> Never,
                       session |-> Never, secret |-> req[h].secret, late |-> FALSE]
         /\ \A x \in Handler \ {h} :
              LET q == req[x]
                  r == req'[x]
              IN  /\ r.next = q.next
                  /\ q.next \notin {"open", "rotate", "issue"} => r = q
                  /\ q.next \in {"open", "rotate", "issue"} =>
                       /\ r.user = q.user
                       /\ r.secret = q.secret
                       /\ q.user = req[h].user => r.late = TRUE
                       /\ q.user # req[h].user => r = q
                  /\ q.next \in {"rotate", "issue"} => r.from = q.from
<1>1. req[h].user \in User
  BY PasswordState DEF SweepTokens, TypeOK
<1>2. req'[h] = [next |-> "issue", user |-> req[h].user, from |-> Never,
                session |-> Never, secret |-> req[h].secret, late |-> FALSE]
  BY DEF SweepTokens
<1>3. ASSUME NEW q, NEW v, NEW r, q \in HandlerState, v \in User, r = MarkedLate(q, v)
      PROVE  /\ r.next = q.next
             /\ q.next \notin {"open", "rotate", "issue"} => r = q
             /\ q.next \in {"open", "rotate", "issue"} =>
                  /\ r.user = q.user
                  /\ r.secret = q.secret
                  /\ q.user = v => r.late = TRUE
                  /\ q.user # v => r = q
             /\ q.next \in {"rotate", "issue"} => r.from = q.from
  BY <1>3, Marked, Zenon
<1>4. ASSUME NEW x \in Handler \ {h}
      PROVE  req[x] \in HandlerState /\ req'[x] = MarkedLate(req[x], req[h].user)
  BY DEF SweepTokens, TypeOK
<1> QED BY <1>1, <1>2, <1>3, <1>4, Zenon

(* The user a request in flight stands for is one of the users.            *)
LEMMA CarriedUsers ==
  ASSUME TypeOK, NEW h \in Handler, req[h].next \in Carries
  PROVE  req[h].user \in User
BY OpenState, RefreshState, PasswordState, OtherStates DEF TypeOK, Carries

(* A user once created is never again without a row to his name, and a     *)
(* request takes its user from a row, a token or the request it continues. *)
LEMMA KnownKept ==
  ASSUME TypeOK, KnownUsers, [Next]_vars
  PROVE  KnownUsers'
<1> USE DEF KnownUsers, Carries
<1>r. req \in [Handler -> HandlerState] /\ account \in [User -> Account]
      /\ swept \in [User -> BOOLEAN] /\ tokens \subseteq Token
  BY DEF TypeOK
<1>s. \A h \in Handler : req[h] \in HandlerState
  BY <1>r
<1>u. \A h \in Handler : req[h].next \in Carries => req[h].user \in User
  BY CarriedUsers
<1>1. CASE Undisturbed
  BY <1>1, <1>r DEF Undisturbed
<1>2. ASSUME NEW u \in User, NEW p \in Password, CreateUser(u, p) \/ UpdateUser(u, p)
      PROVE  KnownUsers'
  <2>1. /\ \A x \in User : account'[x].status = "none" =>
             account[x].status = "none" /\ account'[x].version = account[x].version
        /\ \A x \in User : account[x].status # "none" => account'[x].status # "none"
    BY <1>2, <1>r DEF CreateUser, UpdateUser, NewStatus, RowExists, Account
  <2>2. \A x \in User : swept'[x] => swept[x]
    BY <1>2, <1>r DEF CreateUser, UpdateUser
  <2>3. req' = req
    BY <1>2 DEF CreateUser, UpdateUser
  <2> QED BY <2>1, <2>2, <2>3, <1>u
<1>3. ASSUME NEW u \in User, NEW s \in StatusAsked, UpdateStatus(u, s)
      PROVE  KnownUsers'
  BY <1>3, <1>r, AccountsAssumption DEF UpdateStatus, RowExists, Account, rowVars
<1>4. ASSUME NEW h \in Handler, NEW u \in User, NEW p \in Password,
             Login(h, u, p) \/ \E new \in Password : ChangePassword(h, u, p, new)
      PROVE  KnownUsers'
  BY <1>4, <1>r DEF Login, ChangePassword, Begin, Become, Validated, userVars, rowVars
<1>5. ASSUME NEW h \in Handler, NEW u \in User, NEW v \in Version, AcceptTerms(h, u, v)
      PROVE  KnownUsers'
  BY <1>5, <1>r DEF AcceptTerms, Begin, Become, Validated, userVars
<1>6. ASSUME NEW h \in Handler, NEW t \in tokens, CheckRefresh(h, t) \/ Logout(h, t)
      PROVE  KnownUsers'
  BY <1>6, <1>r DEF CheckRefresh, Logout, Begin, Become, Usable, userVars, rowVars
<1>7. ASSUME NEW h \in Handler, NEW u \in User, LogoutAll(h, u)
      PROVE  KnownUsers'
  BY <1>7, <1>r DEF LogoutAll, Begin, Become, userVars
<1>8. ASSUME NEW h \in Handler, OpenSession(h) \/ SessionNotOpened(h)
      PROVE  KnownUsers'
  BY <1>8, <1>r DEF OpenSession, SessionNotOpened, ToIssue, Become, userVars, rowVars
<1>9. ASSUME NEW h \in Handler, RotateToken(h)
      PROVE  KnownUsers'
  <2>1. req[h].next \in {"rotate", "issue"}
    BY <1>9 DEF RotateToken
  <2>2. [req[h] EXCEPT !.next = "issue"].user = req[h].user
    BY <2>1, <1>s, RefreshState
  <2> QED BY <1>9, <1>r, <2>1, <2>2 DEF RotateToken, Become, userVars
<1>10. ASSUME NEW h \in Handler, IssueToken(h)
       PROVE  KnownUsers'
  BY <1>10, <1>r DEF IssueToken, Become, Idle, userVars
<1>11. ASSUME NEW h \in Handler, WriteHash(h)
       PROVE  KnownUsers'
  <2>1. req[h].next \in {"hash", "sweep"} /\ RowExists(req[h].user)
    BY <1>11 DEF WriteHash
  <2>2. req[h].user \in User /\ [req[h] EXCEPT !.next = "sweep"].user = req[h].user
    BY <2>1, <1>s, PasswordState
  <2> QED BY <1>11, <1>r, <2>1, <2>2 DEF WriteHash, Become, RowExists, Account, rowVars
<1>12. ASSUME NEW h \in Handler, SweepTokens(h)
       PROVE  KnownUsers'
  <2>1. req[h].user \in User /\ account[req[h].user].status # "none"
    BY <1>12, <1>s, PasswordState DEF SweepTokens
  <2>2. \A x \in Handler : req'[x].next \in Carries => account[req'[x].user].status # "none"
    <3>1. ASSUME NEW x \in Handler \ {h}
          PROVE  req'[x] = req[x]
                   \/ (req[x].next \in Carries /\ req'[x].user = req[x].user)
      BY <1>12, SweptRequests
    <3>2. req'[h].user = req[h].user
      BY <1>12 DEF SweepTokens
    <3> QED BY <2>1, <3>1, <3>2
  <2> QED BY <1>12, <1>r, <2>1, <2>2 DEF SweepTokens
<1>13. ASSUME NEW h \in Handler, GateUser(h)
       PROVE  KnownUsers'
  <2>1. req[h].user \in User
    BY <1>13, <1>s, OtherStates DEF GateUser
  <2>2. /\ \A x \in User : account'[x].status = account[x].status
        /\ \A x \in User : account[x].status = "none" =>
             account'[x].version = account[x].version
    BY <1>13, <1>r, <2>1 DEF GateUser, RowExists, Account
  <2>3. swept' = swept /\ \A x \in Handler : req'[x] = req[x] \/ req'[x].next \notin Carries
    BY <1>13, <1>r DEF GateUser, Become, Idle
  <2> QED BY <2>2, <2>3, <1>u
<1>14. ASSUME NEW h \in Handler, HardDelete(h)
       PROVE  KnownUsers'
  <2>1. req[h].user \in User
    BY <1>14, <1>s, OtherStates DEF HardDelete
  <2>2. /\ \A x \in User : account'[x].status = "none" <=> account[x].status = "none"
        /\ \A x \in User : account'[x].version = account[x].version
    <3>1. \/ account' = account
          \/ RowExists(req[h].user)
             /\ account' = [account EXCEPT ![req[h].user].status = "deleted"]
      BY <1>14 DEF HardDelete
    <3> QED BY <1>r, <2>1, <3>1 DEF RowExists, Account
  <2>3. swept' = swept /\ \A x \in Handler : req'[x] = req[x] \/ req'[x].next \notin Carries
    BY <1>14, <1>r DEF HardDelete, Become, Idle
  <2> QED BY <2>2, <2>3, <1>u
<1> QED
  BY <1>1, <1>2, <1>3, <1>4, <1>5, <1>6, <1>7, <1>8, <1>9, <1>10, <1>11, <1>12, <1>13, <1>14,
     Disturbances
  DEF Disturbs

(* The rotation: no step drops a token that a row or a request of a user   *)
(* who still has a row descends from, and none restores it.                *)
LEMMA RotationKept ==
  ASSUME TypeOK, KnownUsers, RotationTraced, [Next]_vars
  PROVE  RotationTraced'
<1> DEFINE Rotating(q) == q.next \in {"rotate", "issue"}
           Stored == \A t \in tokens : \E y \in tokens' :
                       y.id = t.id /\ y.user = t.user /\ (t.revoked => y.revoked)
           Descends == \A y \in tokens' : y.from # Never =>
                         \E x \in tokens : x.id = y.from /\ x.user = y.user /\ x.revoked
           Same == \A h \in Handler : Rotating(req'[h]) =>
                     Rotating(req[h]) /\ req'[h].user = req[h].user /\ req'[h].from = req[h].from
                       /\ req'[h].next = req[h].next
           Users == \A u \in User : RowExists(u)' => RowExists(u) \/ account[u].status = "none"
<1>r. req \in [Handler -> HandlerState] /\ account \in [User -> Account] /\ tokens \subseteq Token
  BY DEF TypeOK
<1>s. \A h \in Handler : req[h] \in HandlerState
  BY <1>r
<1>u. \A h \in Handler : Rotating(req[h]) =>
        req[h].user \in User /\ account[req[h].user].status # "none"
  BY <1>s, RefreshState DEF KnownUsers, Carries
<1>k. ASSUME Stored, Descends, Same, Users
      PROVE  RotationTraced'
  BY <1>u, <1>k DEF RotationTraced
<1>d. tokens' = tokens => Stored /\ Descends
  BY DEF RotationTraced
<1>e. ASSUME NEW chosen, tokens' = Revoked(chosen)
      PROVE  Stored /\ Descends
  BY <1>r, <1>e, RevokedRows DEF RotationTraced
<1>a. account' = account => Users
  BY DEF RowExists
<1>1. CASE Undisturbed
  <2>1. Same
    BY <1>1 DEF Undisturbed, Carries
  <2> QED BY <1>1, <1>k, <1>d, <1>a, <2>1 DEF Undisturbed
<1>2. ASSUME NEW u \in User, NEW p \in Password, CreateUser(u, p) \/ UpdateUser(u, p)
      PROVE  RotationTraced'
  <2>1. Users
    BY <1>2, <1>r DEF CreateUser, UpdateUser, RowExists, Account
  <2>2. tokens' = tokens /\ Same
    BY <1>2 DEF CreateUser, UpdateUser, rowVars
  <2> QED BY <1>k, <1>d, <2>1, <2>2
<1>3. ASSUME NEW u \in User, NEW s \in StatusAsked, UpdateStatus(u, s)
      PROVE  RotationTraced'
  <2>1. Users
    BY <1>3, <1>r DEF UpdateStatus, RowExists, Account
  <2>2. tokens' = tokens /\ Same
    BY <1>3 DEF UpdateStatus, rowVars
  <2> QED BY <1>k, <1>d, <2>1, <2>2
<1>4. ASSUME NEW h \in Handler, NEW u \in User, NEW p \in Password,
             Login(h, u, p) \/ \E new \in Password : ChangePassword(h, u, p, new)
      PROVE  RotationTraced'
  <2>1. tokens' = tokens /\ account' = account
    BY <1>4 DEF Login, ChangePassword, rowVars, userVars
  <2>2. Same
    BY <1>4, <1>r DEF Login, ChangePassword, Begin, Become
  <2> QED BY <1>k, <1>d, <1>a, <2>1, <2>2
<1>5. ASSUME NEW h \in Handler, NEW u \in User, NEW v \in Version, AcceptTerms(h, u, v)
      PROVE  RotationTraced'
  <2>1. tokens' = tokens /\ account' = account
    BY <1>5 DEF AcceptTerms, userVars
  <2>2. Same
    BY <1>5, <1>r DEF AcceptTerms, Begin, Become
  <2> QED BY <1>k, <1>d, <1>a, <2>1, <2>2
<1>6. ASSUME NEW h \in Handler, NEW t \in tokens, CheckRefresh(h, t)
      PROVE  RotationTraced'
  <2>1. tokens' = tokens /\ account' = account
    BY <1>6 DEF CheckRefresh, rowVars, userVars
  <2>2. /\ \A x \in Handler \ {h} : req'[x] = req[x]
        /\ req'[h].next = "rotate" /\ req'[h].user = t.user /\ req'[h].from = t.id
    BY <1>6, <1>r DEF CheckRefresh, AfterCheck, Begin, Become
  <2> QED BY <1>u, <2>1, <2>2 DEF RotationTraced, RowExists
<1>7. ASSUME NEW h \in Handler, NEW t \in tokens, Logout(h, t)
      PROVE  RotationTraced'
  <2>1. tokens' = Revoked({t}) /\ account' = account
    BY <1>7 DEF Logout, userVars
  <2>2. Same
    BY <1>7, <1>r DEF Logout, Begin, Become
  <2> QED BY <1>k, <1>e, <1>a, <2>1, <2>2
<1>8. ASSUME NEW h \in Handler, NEW u \in User, LogoutAll(h, u)
      PROVE  RotationTraced'
  <2>1. tokens' = Revoked(LiveTokens(u)) /\ account' = account
    BY <1>8 DEF LogoutAll, userVars
  <2>2. Same
    BY <1>8, <1>r DEF LogoutAll, Begin, Become
  <2> QED BY <1>k, <1>e, <1>a, <2>1, <2>2
<1>9. ASSUME NEW h \in Handler, OpenSession(h) \/ SessionNotOpened(h)
      PROVE  RotationTraced'
  <2>1. tokens' = tokens /\ account' = account
    BY <1>9 DEF OpenSession, SessionNotOpened, rowVars, userVars
  <2>2. /\ \A x \in Handler \ {h} : req'[x] = req[x]
        /\ req'[h].from = Never
    BY <1>9, <1>r DEF OpenSession, SessionNotOpened, ToIssue, Become
  <2> QED BY <1>u, <2>1, <2>2 DEF RotationTraced, RowExists
<1>10. ASSUME NEW h \in Handler, RotateToken(h)
       PROVE  RotationTraced'
  <2> DEFINE chosen == {t \in tokens : t.id = req[h].from}
  <2>1. tokens' = Revoked(chosen) /\ account' = account /\ req[h].next = "rotate"
    BY <1>10 DEF RotateToken, userVars
  <2>2. Stored /\ Descends
    BY <1>e, <2>1
  <2>3. [req[h] EXCEPT !.next = "issue"] =
          [next |-> "issue", user |-> req[h].user, from |-> req[h].from,
           session |-> req[h].session, secret |-> req[h].secret, late |-> req[h].late]
    BY <1>s, <2>1, RefreshState
  <2>4. req'[h] = [req[h] EXCEPT !.next = "issue"] /\ \A x \in Handler \ {h} : req'[x] = req[x]
    BY <1>10, <1>r DEF RotateToken, Become
  <2>5. req'[h].next = "issue" /\ req'[h].user = req[h].user /\ req'[h].from = req[h].from
    BY <2>3, <2>4
  <2>6. \A t \in chosen : \E y \in tokens' : y.id = t.id /\ y.user = t.user /\ y.revoked
    BY <1>r, <2>1, RevokedRows
  <2>7. RowExists(req[h].user) /\ req[h].from # Never =>
          \E x \in chosen : x.user = req[h].user
    BY <2>1 DEF RotationTraced
  <2>8. ASSUME NEW x \in Handler, Rotating(req'[x]), RowExists(req[x].user)',
               req'[x].from # Never
        PROVE  \E y \in tokens' : /\ y.id = req'[x].from /\ y.user = req'[x].user
                                  /\ req'[x].next = "issue" => y.revoked
    <3>1. CASE x = h
      BY <2>1, <2>5, <2>6, <2>7, <2>8, <3>1 DEF RowExists
    <3>2. CASE x # h
      BY <2>1, <2>2, <2>4, <2>8, <3>2 DEF RotationTraced, RowExists
    <3> QED BY <3>1, <3>2
  <2>9. \A y \in tokens' : y.from # Never =>
          \E x \in tokens' : x.id = y.from /\ x.user = y.user /\ x.revoked
    BY <2>2
  <2> QED BY <2>8, <2>9 DEF RotationTraced
<1>11. ASSUME NEW h \in Handler, IssueToken(h)
       PROVE  RotationTraced'
  <2> DEFINE q == req[h]
             new == [id |-> rowSeq', user |-> q.user, from |-> q.from,
                     session |-> q.session, revoked |-> FALSE, expiresAt |-> now + TTL,
                     secret |-> q.secret, late |-> q.late]
  <2>1. /\ tokens' = tokens \cup {new} /\ account' = account
        /\ q.next = "issue" /\ RowExists(q.user)
    BY <1>11 DEF IssueToken, userVars
  <2>2. new.from = q.from /\ new.user = q.user
    OBVIOUS
  <2> HIDE DEF new
  <2>3. Same
    BY <1>11, <1>r DEF IssueToken, Become, Idle
  <2>4. Stored
    BY <2>1
  <2>5. Descends
    BY <2>1, <2>2 DEF RotationTraced
  <2> QED BY <1>k, <1>a, <2>1, <2>3, <2>4, <2>5
<1>12. ASSUME NEW h \in Handler, WriteHash(h)
       PROVE  RotationTraced'
  <2>1. req[h].next \in {"hash", "sweep"} /\ tokens' = tokens
    BY <1>12 DEF WriteHash, rowVars
  <2>2. req[h].user \in User /\ [req[h] EXCEPT !.next = "sweep"].next = "sweep"
    BY <2>1, <1>s, PasswordState
  <2>3. Same
    BY <1>12, <1>r, <2>2 DEF WriteHash, Become
  <2>4. Users
    BY <1>12, <1>r, <2>2 DEF WriteHash, RowExists, Account
  <2> QED BY <1>k, <1>d, <2>1, <2>3, <2>4
<1>13. ASSUME NEW h \in Handler, SweepTokens(h)
       PROVE  RotationTraced'
  <2>1. tokens' = Revoked(Swept(req[h].user)) /\ account' = account
    BY <1>13 DEF SweepTokens
  <2>2. Stored /\ Descends
    BY <1>e, <2>1
  <2>3. req'[h].from = Never
    BY <1>13 DEF SweepTokens
  <2>4. \A x \in Handler \ {h} : Rotating(req'[x]) =>
          Rotating(req[x]) /\ req'[x].user = req[x].user /\ req'[x].from = req[x].from
            /\ req'[x].next = req[x].next
    BY <1>13, SweptRequests
  <2>5. ASSUME NEW x \in Handler, Rotating(req'[x]), RowExists(req[x].user)',
               req'[x].from # Never
        PROVE  \E y \in tokens' : /\ y.id = req'[x].from /\ y.user = req'[x].user
                                  /\ req'[x].next = "issue" => y.revoked
    BY <2>1, <2>2, <2>3, <2>4, <2>5 DEF RotationTraced, RowExists
  <2>6. \A y \in tokens' : y.from # Never =>
          \E x \in tokens' : x.id = y.from /\ x.user = y.user /\ x.revoked
    BY <2>2
  <2> QED BY <2>5, <2>6 DEF RotationTraced
<1>14. ASSUME NEW h \in Handler, GateUser(h)
       PROVE  RotationTraced'
  <2>1. req[h].user \in User
    BY <1>14, <1>s, OtherStates DEF GateUser
  <2>2. tokens' = tokens /\ Same
    BY <1>14, <1>r DEF GateUser, Become, Idle, rowVars
  <2>3. Users
    BY <1>14, <1>r, <2>1 DEF GateUser, RowExists, Account
  <2> QED BY <1>k, <1>d, <2>2, <2>3
<1>15. ASSUME NEW h \in Handler, HardDelete(h)
       PROVE  RotationTraced'
  <2> DEFINE u == req[h].user
  <2>1. u \in User /\ Same
    BY <1>15, <1>r, <1>s, OtherStates DEF HardDelete, Become, Idle
  <2>2. \/ account' = account /\ tokens' = tokens
        \/ /\ account' = [account EXCEPT ![u].status = "deleted"]
           /\ tokens' = {t \in tokens : t.user # u}
    BY <1>15 DEF HardDelete, Others
  <2>3. CASE account' = account /\ tokens' = tokens
    BY <1>k, <1>d, <1>a, <2>1, <2>3
  <2>4. CASE /\ account' = [account EXCEPT ![u].status = "deleted"]
             /\ tokens' = {t \in tokens : t.user # u}
    <3>1. \A x \in User : RowExists(x)' => x # u /\ RowExists(x)
      BY <1>r, <2>1, <2>4 DEF RowExists, Account
    <3>2. \A x \in Handler : Rotating(req'[x]) /\ RowExists(req[x].user)' =>
            req'[x].user # u /\ RowExists(req[x].user)
      BY <1>u, <2>1, <3>1
    <3> QED BY <2>1, <2>4, <3>2 DEF RotationTraced
  <2> QED BY <2>2, <2>3, <2>4
<1> QED
  BY <1>1, <1>2, <1>3, <1>4, <1>5, <1>6, <1>7, <1>8, <1>9, <1>10, <1>11, <1>12, <1>13, <1>14,
     <1>15, Disturbances
  DEF Disturbs

(* The gating: an acceptance leaves with its user only, and the stamp of a *)
(* row is written by the request that carries its proof.                   *)
LEMMA GatingKept ==
  ASSUME TypeOK, KnownUsers, GatingTraced, [Next]_vars
  PROVE  GatingTraced'
<1> DEFINE Same == \A h \in Handler : req'[h].next = "gate" => req'[h] = req[h]
           Stamps == \A u \in User : RowExists(u)' /\ account'[u].version # Never =>
                       /\ RowExists(u)
                       /\ account'[u].version = account[u].version
                       /\ account'[u].at = account[u].at
           Users == \A u \in User : RowExists(u)' => RowExists(u) \/ account[u].status = "none"
<1>r. req \in [Handler -> HandlerState] /\ account \in [User -> Account]
  BY DEF TypeOK
<1>s. \A h \in Handler : req[h] \in HandlerState
  BY <1>r
<1>u. \A h \in Handler : req[h].next = "gate" =>
        req[h].user \in User /\ account[req[h].user].status # "none"
  BY <1>s, OtherStates DEF KnownUsers, Carries
<1>k. ASSUME acceptances \subseteq acceptances', Same, Stamps, Users
      PROVE  GatingTraced'
  BY <1>u, <1>k DEF GatingTraced, AcceptanceStored
<1>a. account' = account => Stamps /\ Users
  BY DEF RowExists
<1>1. CASE Undisturbed
  BY <1>1, <1>k, <1>a DEF Undisturbed, Carries
<1>2. ASSUME NEW u \in User, NEW p \in Password, CreateUser(u, p) \/ UpdateUser(u, p)
      PROVE  GatingTraced'
  <2>1. Stamps /\ Users
    BY <1>2, <1>r DEF CreateUser, UpdateUser, RowExists, Account, KnownUsers
  <2>2. acceptances' = acceptances /\ Same
    BY <1>2 DEF CreateUser, UpdateUser, rowVars
  <2> QED BY <1>k, <2>1, <2>2
<1>3. ASSUME NEW u \in User, NEW s \in StatusAsked, UpdateStatus(u, s)
      PROVE  GatingTraced'
  <2>1. Stamps /\ Users
    BY <1>3, <1>r DEF UpdateStatus, RowExists, Account
  <2>2. acceptances' = acceptances /\ Same
    BY <1>3 DEF UpdateStatus, rowVars
  <2> QED BY <1>k, <2>1, <2>2
<1>4. ASSUME NEW h \in Handler, NEW u \in User, NEW p \in Password,
             Login(h, u, p) \/ \E new \in Password : ChangePassword(h, u, p, new)
      PROVE  GatingTraced'
  <2>1. acceptances' = acceptances /\ account' = account
    BY <1>4 DEF Login, ChangePassword, rowVars, userVars
  <2>2. Same
    BY <1>4, <1>r DEF Login, ChangePassword, Begin, Become
  <2> QED BY <1>k, <1>a, <2>1, <2>2
<1>5. ASSUME NEW h \in Handler, NEW u \in User, NEW v \in Version, AcceptTerms(h, u, v)
      PROVE  GatingTraced'
  <2> DEFINE proof == [id |-> rowSeq', user |-> u, version |-> v, at |-> now]
             gate == [next |-> "gate", user |-> u, version |-> v, at |-> now]
  <2>1. acceptances' = acceptances \cup {proof} /\ account' = account
    BY <1>5 DEF AcceptTerms, userVars
  <2>2. req'[h] = gate /\ \A x \in Handler \ {h} : req'[x] = req[x]
    BY <1>5, <1>r DEF AcceptTerms, Begin, Become
  <2>3. /\ proof.user = u /\ proof.version = v /\ proof.at = now
        /\ gate.user = u /\ gate.version = v /\ gate.at = now
    OBVIOUS
  <2> HIDE DEF proof, gate
  <2>4. ASSUME NEW x \in Handler, req'[x].next = "gate", RowExists(req[x].user)'
        PROVE  AcceptanceStored(req[x].user, req[x].version, req[x].at)'
    BY <2>1, <2>2, <2>3, <2>4 DEF GatingTraced, AcceptanceStored, RowExists
  <2>5. ASSUME NEW x \in User, RowExists(x)', account'[x].version # Never
        PROVE  AcceptanceStored(x, account[x].version, account[x].at)'
    BY <2>1, <2>5 DEF GatingTraced, AcceptanceStored, RowExists
  <2> QED BY <2>4, <2>5 DEF GatingTraced
<1>6. ASSUME NEW h \in Handler, NEW t \in tokens, CheckRefresh(h, t) \/ Logout(h, t)
      PROVE  GatingTraced'
  <2>1. acceptances' = acceptances /\ account' = account
    BY <1>6 DEF CheckRefresh, Logout, rowVars, userVars
  <2>2. Same
    BY <1>6, <1>r DEF CheckRefresh, AfterCheck, Logout, Begin, Become
  <2> QED BY <1>k, <1>a, <2>1, <2>2
<1>7. ASSUME NEW h \in Handler, NEW u \in User, LogoutAll(h, u)
      PROVE  GatingTraced'
  <2>1. acceptances' = acceptances /\ account' = account
    BY <1>7 DEF LogoutAll, userVars
  <2>2. Same
    BY <1>7, <1>r DEF LogoutAll, Begin, Become
  <2> QED BY <1>k, <1>a, <2>1, <2>2
<1>8. ASSUME NEW h \in Handler,
             OpenSession(h) \/ SessionNotOpened(h) \/ IssueToken(h)
      PROVE  GatingTraced'
  <2>1. acceptances' = acceptances /\ account' = account
    BY <1>8 DEF OpenSession, SessionNotOpened, IssueToken, rowVars, userVars
  <2>2. Same
    BY <1>8, <1>r DEF OpenSession, SessionNotOpened, IssueToken, ToIssue, Become, Idle
  <2> QED BY <1>k, <1>a, <2>1, <2>2
<1>9. ASSUME NEW h \in Handler, RotateToken(h)
      PROVE  GatingTraced'
  <2>1. acceptances' = acceptances /\ account' = account /\ req[h].next \in {"rotate", "issue"}
    BY <1>9 DEF RotateToken, userVars
  <2>2. [req[h] EXCEPT !.next = "issue"].next = "issue"
    BY <1>s, <2>1, RefreshState
  <2>3. Same
    BY <1>9, <1>r, <2>2 DEF RotateToken, Become
  <2> QED BY <1>k, <1>a, <2>1, <2>3
<1>10. ASSUME NEW h \in Handler, WriteHash(h)
       PROVE  GatingTraced'
  <2>1. req[h].next \in {"hash", "sweep"} /\ acceptances' = acceptances
    BY <1>10 DEF WriteHash, rowVars
  <2>2. req[h].user \in User /\ [req[h] EXCEPT !.next = "sweep"].next = "sweep"
    BY <2>1, <1>s, PasswordState
  <2>3. Same
    BY <1>10, <1>r, <2>2 DEF WriteHash, Become
  <2>4. Stamps /\ Users
    BY <1>10, <1>r, <2>2 DEF WriteHash, RowExists, Account
  <2> QED BY <1>k, <2>1, <2>3, <2>4
<1>11. ASSUME NEW h \in Handler, SweepTokens(h)
       PROVE  GatingTraced'
  <2>1. acceptances' = acceptances /\ account' = account /\ req'[h].next = "issue"
    BY <1>11 DEF SweepTokens
  <2>2. Same
    BY <1>11, <2>1, SweptRequests
  <2> QED BY <1>k, <1>a, <2>1, <2>2
<1>12. ASSUME NEW h \in Handler, GateUser(h)
       PROVE  GatingTraced'
  <2> DEFINE q == req[h]
  <2>1. /\ q.user \in User /\ q.version \in Version /\ q.at \in Nat
        /\ q.next = "gate" /\ RowExists(q.user)
    BY <1>12, <1>s, OtherStates DEF GateUser
  <2>2. acceptances' = acceptances /\ Same
    BY <1>12, <1>r DEF GateUser, Become, Idle, rowVars
  <2>3. account' = [account EXCEPT ![q.user].version = q.version, ![q.user].at = q.at]
    BY <1>12 DEF GateUser, StampedAt
  <2>4. /\ \A x \in User : account'[x].status = account[x].status
        /\ \A x \in User \ {q.user} : account'[x] = account[x]
        /\ account'[q.user].version = q.version /\ account'[q.user].at = q.at
    BY <1>r, <2>1, <2>3 DEF Account
  <2>5. AcceptanceStored(q.user, q.version, q.at)
    BY <2>1 DEF GatingTraced
  <2>6. ASSUME NEW x \in User, RowExists(x)', account'[x].version # Never
        PROVE  AcceptanceStored(x, account[x].version, account[x].at)'
    BY <2>2, <2>4, <2>5, <2>6 DEF GatingTraced, AcceptanceStored, RowExists
  <2>7. ASSUME NEW x \in Handler, req'[x].next = "gate", RowExists(req[x].user)'
        PROVE  AcceptanceStored(req[x].user, req[x].version, req[x].at)'
    BY <1>u, <2>2, <2>4, <2>7 DEF GatingTraced, AcceptanceStored, RowExists
  <2> QED BY <2>6, <2>7 DEF GatingTraced
<1>13. ASSUME NEW h \in Handler, HardDelete(h)
       PROVE  GatingTraced'
  <2> DEFINE u == req[h].user
  <2>1. u \in User /\ Same
    BY <1>13, <1>r, <1>s, OtherStates DEF HardDelete, Become, Idle
  <2>2. \/ account' = account /\ acceptances' = acceptances
        \/ /\ account' = [account EXCEPT ![u].status = "deleted"]
           /\ acceptances' = {a \in acceptances : a.user # u}
    BY <1>13 DEF HardDelete, Others
  <2>3. CASE account' = account /\ acceptances' = acceptances
    BY <1>k, <1>a, <2>1, <2>3
  <2>4. CASE /\ account' = [account EXCEPT ![u].status = "deleted"]
             /\ acceptances' = {a \in acceptances : a.user # u}
    <3>1. \A x \in User : RowExists(x)' => x # u /\ RowExists(x) /\ account'[x] = account[x]
      BY <1>r, <2>1, <2>4 DEF RowExists, Account
    <3>2. ASSUME NEW x \in User, RowExists(x)', account'[x].version # Never
          PROVE  AcceptanceStored(x, account[x].version, account[x].at)'
      BY <2>4, <3>1, <3>2 DEF GatingTraced, AcceptanceStored
    <3>3. ASSUME NEW x \in Handler, req'[x].next = "gate", RowExists(req[x].user)'
          PROVE  AcceptanceStored(req[x].user, req[x].version, req[x].at)'
      BY <1>u, <2>1, <2>4, <3>1, <3>3 DEF GatingTraced, AcceptanceStored
    <3> QED BY <3>2, <3>3 DEF GatingTraced
  <2> QED BY <2>2, <2>3, <2>4
<1> QED
  BY <1>1, <1>2, <1>3, <1>4, <1>5, <1>6, <1>7, <1>8, <1>9, <1>10, <1>11, <1>12, <1>13,
     Disturbances
  DEF Disturbs

(* The secrets: a password is written with its claim withdrawn, and the    *)
(* sweep that renews the claim leaves no live token and no request in      *)
(* flight but its own and late ones.                                       *)
LEMMA SecretsKept ==
  ASSUME TypeOK, KnownUsers, SecretsCurrent, [Next]_vars
  PROVE  SecretsCurrent'
<1> DEFINE Issuing(q) == q.next \in {"open", "rotate", "issue"}
           Current(h) == Issuing(req[h]) /\ swept[req[h].user] /\ ~ req[h].late =>
                           req[h].secret = account[req[h].user].password
           Same == \A h \in Handler : Issuing(req'[h]) =>
                     /\ Issuing(req[h]) /\ req'[h].user = req[h].user
                     /\ req'[h].secret = req[h].secret /\ req'[h].late = req[h].late
           Fewer == \A y \in tokens' : \E t \in tokens :
                      /\ y.user = t.user /\ y.secret = t.secret /\ y.late = t.late
                      /\ t.revoked => y.revoked
           Claims == \A u \in User : swept'[u] =>
                       swept[u] /\ account'[u].password = account[u].password
<1>r. /\ req \in [Handler -> HandlerState] /\ account \in [User -> Account]
      /\ swept \in [User -> BOOLEAN] /\ tokens \subseteq Token
  BY DEF TypeOK
<1>s. \A h \in Handler : req[h] \in HandlerState
  BY <1>r
<1>u. \A h \in Handler : Issuing(req[h]) => req[h].user \in User
  BY <1>s, OpenState, RefreshState
<1>t. \A t \in tokens : t.user \in User
  BY <1>r DEF Token
<1>c. \A h \in Handler : Current(h)
  BY DEF SecretsCurrent
<1>k. ASSUME Same, Fewer, Claims
      PROVE  SecretsCurrent'
  <2>1. TokensOfCurrentPassword'
    BY <1>t, <1>k DEF SecretsCurrent, TokensOfCurrentPassword, Live
  <2>2. \A h \in Handler : Current(h)'
    BY <1>c, <1>u, <1>k
  <2> QED BY <2>1, <2>2 DEF SecretsCurrent
<1>d. tokens' = tokens => Fewer
  OBVIOUS
<1>e. ASSUME NEW chosen, tokens' = Revoked(chosen)
      PROVE  Fewer
  BY <1>r, <1>e, RevokedRows
<1>a. account' = account /\ swept' = swept => Claims
  OBVIOUS
<1>1. CASE Undisturbed
  BY <1>1, <1>k, <1>d, <1>a DEF Undisturbed, Carries
<1>2. ASSUME NEW u \in User, NEW p \in Password, CreateUser(u, p) \/ UpdateUser(u, p)
      PROVE  SecretsCurrent'
  <2>1. tokens' = tokens /\ Same
    BY <1>2 DEF CreateUser, UpdateUser, rowVars
  <2>2. Claims
    <3>1. CASE CreateUser(u, p)
      <4>1. ~ swept[u] /\ swept' = swept
        BY <3>1 DEF CreateUser, KnownUsers
      <4>2. \A x \in User \ {u} : account'[x].password = account[x].password
        BY <3>1, <1>r DEF CreateUser, Account
      <4> QED BY <4>1, <4>2
    <3>2. CASE UpdateUser(u, p)
      BY <3>2, <1>r DEF UpdateUser, Account
    <3> QED BY <1>2, <3>1, <3>2
  <2> QED BY <1>k, <1>d, <2>1, <2>2
<1>3. ASSUME NEW u \in User, NEW s \in StatusAsked, UpdateStatus(u, s)
      PROVE  SecretsCurrent'
  <2>1. Claims
    BY <1>3, <1>r DEF UpdateStatus, Account
  <2>2. tokens' = tokens /\ Same
    BY <1>3 DEF UpdateStatus, rowVars
  <2> QED BY <1>k, <1>d, <2>1, <2>2
<1>4. ASSUME NEW h \in Handler, NEW u \in User, NEW p \in Password, Login(h, u, p)
      PROVE  SecretsCurrent'
  <2> DEFINE r == [next |-> "open", user |-> u, secret |-> p, late |-> FALSE]
  <2>1. tokens' = tokens /\ account' = account /\ swept' = swept /\ account[u].password = p
    BY <1>4 DEF Login, rowVars, userVars
  <2>2. req'[h] = r /\ \A x \in Handler \ {h} : req'[x] = req[x]
    BY <1>4, <1>r DEF Login, Begin, Become
  <2>3. r.user = u /\ r.secret = p
    OBVIOUS
  <2> HIDE DEF r
  <2>4. \A x \in Handler : Current(x)'
    BY <1>c, <2>1, <2>2, <2>3
  <2> QED BY <2>1, <2>4 DEF SecretsCurrent, TokensOfCurrentPassword
<1>5. ASSUME NEW h \in Handler, NEW u \in User, NEW p \in Password, NEW new \in Password,
             ChangePassword(h, u, p, new)
      PROVE  SecretsCurrent'
  <2>1. tokens' = tokens /\ account' = account /\ swept' = swept
    BY <1>5 DEF ChangePassword, rowVars, userVars
  <2>2. Same
    BY <1>5, <1>r DEF ChangePassword, Begin, Become
  <2> QED BY <1>k, <1>d, <1>a, <2>1, <2>2
<1>6. ASSUME NEW h \in Handler, NEW u \in User, NEW v \in Version, AcceptTerms(h, u, v)
      PROVE  SecretsCurrent'
  <2>1. tokens' = tokens /\ account' = account /\ swept' = swept
    BY <1>6 DEF AcceptTerms, userVars
  <2>2. Same
    BY <1>6, <1>r DEF AcceptTerms, Begin, Become
  <2> QED BY <1>k, <1>d, <1>a, <2>1, <2>2
<1>7. ASSUME NEW h \in Handler, NEW t \in tokens, CheckRefresh(h, t)
      PROVE  SecretsCurrent'
  <2>1. tokens' = tokens /\ account' = account /\ swept' = swept /\ Live(t)
    BY <1>7 DEF CheckRefresh, Usable, rowVars, userVars
  <2>2. /\ \A x \in Handler \ {h} : req'[x] = req[x]
        /\ req'[h].user = t.user /\ req'[h].secret = t.secret /\ req'[h].late = t.late
    BY <1>7, <1>r DEF CheckRefresh, Begin, Become
  <2>3. \A x \in Handler : Current(x)'
    BY <1>c, <2>1, <2>2 DEF SecretsCurrent, TokensOfCurrentPassword
  <2> QED BY <2>1, <2>3 DEF SecretsCurrent, TokensOfCurrentPassword
<1>8. ASSUME NEW h \in Handler, NEW t \in tokens, Logout(h, t)
      PROVE  SecretsCurrent'
  <2>1. tokens' = Revoked({t}) /\ account' = account /\ swept' = swept
    BY <1>8 DEF Logout, userVars
  <2>2. Same
    BY <1>8, <1>r DEF Logout, Begin, Become
  <2> QED BY <1>k, <1>e, <1>a, <2>1, <2>2
<1>9. ASSUME NEW h \in Handler, NEW u \in User, LogoutAll(h, u)
      PROVE  SecretsCurrent'
  <2>1. tokens' = Revoked(LiveTokens(u)) /\ account' = account /\ swept' = swept
    BY <1>9 DEF LogoutAll, userVars
  <2>2. Same
    BY <1>9, <1>r DEF LogoutAll, Begin, Become
  <2> QED BY <1>k, <1>e, <1>a, <2>1, <2>2
<1>10. ASSUME NEW h \in Handler, OpenSession(h) \/ SessionNotOpened(h)
       PROVE  SecretsCurrent'
  <2>1. tokens' = tokens /\ account' = account /\ swept' = swept /\ req[h].next = "open"
    BY <1>10 DEF OpenSession, SessionNotOpened, rowVars, userVars
  <2>2. /\ \A x \in Handler \ {h} : req'[x] = req[x]
        /\ req'[h].user = req[h].user /\ req'[h].secret = req[h].secret
        /\ req'[h].late = req[h].late
    BY <1>10, <1>r DEF OpenSession, SessionNotOpened, ToIssue, Become
  <2>3. Same
    BY <2>1, <2>2
  <2> QED BY <1>k, <1>d, <1>a, <2>1, <2>3
<1>11. ASSUME NEW h \in Handler, RotateToken(h)
       PROVE  SecretsCurrent'
  <2>1. /\ tokens' = Revoked({t \in tokens : t.id = req[h].from})
        /\ account' = account /\ swept' = swept /\ req[h].next \in {"rotate", "issue"}
    BY <1>11 DEF RotateToken, userVars
  <2>2. [req[h] EXCEPT !.next = "issue"] =
          [next |-> "issue", user |-> req[h].user, from |-> req[h].from,
           session |-> req[h].session, secret |-> req[h].secret, late |-> req[h].late]
    BY <1>s, <2>1, RefreshState
  <2>3. req'[h] = [req[h] EXCEPT !.next = "issue"] /\ \A x \in Handler \ {h} : req'[x] = req[x]
    BY <1>11, <1>r DEF RotateToken, Become
  <2>4. Same
    BY <2>1, <2>2, <2>3
  <2> QED BY <1>k, <1>e, <1>a, <2>1, <2>4
<1>12. ASSUME NEW h \in Handler, IssueToken(h)
       PROVE  SecretsCurrent'
  <2> DEFINE q == req[h]
             new == [id |-> rowSeq', user |-> q.user, from |-> q.from,
                     session |-> q.session, revoked |-> FALSE, expiresAt |-> now + TTL,
                     secret |-> q.secret, late |-> q.late]
  <2>1. /\ tokens' = tokens \cup {new} /\ account' = account /\ swept' = swept
        /\ q.next = "issue"
    BY <1>12 DEF IssueToken, userVars
  <2>2. new.user = q.user /\ new.secret = q.secret /\ new.late = q.late
    OBVIOUS
  <2> HIDE DEF new
  <2>3. Same
    BY <1>12, <1>r DEF IssueToken, Become, Idle
  <2>4. \A x \in Handler : Current(x)'
    BY <1>c, <2>1, <2>3
  <2>5. TokensOfCurrentPassword'
    BY <1>c, <2>1, <2>2 DEF SecretsCurrent, TokensOfCurrentPassword, Live
  <2> QED BY <2>4, <2>5 DEF SecretsCurrent
<1>13. ASSUME NEW h \in Handler, WriteHash(h)
       PROVE  SecretsCurrent'
  <2>1. req[h].next \in {"hash", "sweep"} /\ tokens' = tokens
    BY <1>13 DEF WriteHash, rowVars
  <2>2. req[h].user \in User /\ [req[h] EXCEPT !.next = "sweep"].next = "sweep"
    BY <2>1, <1>s, PasswordState
  <2>3. Same
    BY <1>13, <1>r, <2>2 DEF WriteHash, Become
  <2>4. Claims
    BY <1>13, <1>r, <2>2 DEF WriteHash, Account
  <2> QED BY <1>k, <1>d, <2>1, <2>3, <2>4
<1>14. ASSUME NEW h \in Handler, SweepTokens(h)
       PROVE  SecretsCurrent'
  <2> DEFINE u == req[h].user
  <2>1. /\ u \in User /\ tokens' = Revoked(LiveTokens(u)) /\ account' = account
        /\ swept' = [swept EXCEPT ![u] = account[u].password = req[h].secret]
    BY <1>14, SweptRequests DEF SweepTokens, Swept
  <2>2. /\ \A x \in User \ {u} : swept'[x] = swept[x]
        /\ swept'[u] => account[u].password = req[h].secret
    BY <1>r, <2>1
  <2>3. \A y \in tokens' : y.user = u => y.revoked
    BY <1>r, <2>1, RevokedRows DEF LiveTokens, Live
  <2>4. Fewer
    BY <1>e, <2>1
  <2>5. TokensOfCurrentPassword'
    BY <1>t, <2>1, <2>2, <2>3, <2>4 DEF SecretsCurrent, TokensOfCurrentPassword, Live
  <2>6. req'[h].user = u /\ req'[h].secret = req[h].secret
    BY <1>14 DEF SweepTokens
  <2>7. Current(h)'
    BY <2>1, <2>2, <2>6
  <2>8. ASSUME NEW x \in Handler \ {h}
        PROVE  Current(x)'
    <3>1. Issuing(req'[x]) => Issuing(req[x]) /\ req'[x].user = req[x].user
                                /\ (req[x].user = u => req'[x].late = TRUE)
                                /\ (req[x].user # u => req'[x] = req[x])
      BY <1>14, SweptRequests
    <3> QED BY <1>c, <1>u, <2>1, <2>2, <3>1
  <2> QED BY <2>5, <2>7, <2>8 DEF SecretsCurrent
<1>15. ASSUME NEW h \in Handler, GateUser(h)
       PROVE  SecretsCurrent'
  <2>1. req[h].user \in User
    BY <1>15, <1>s, OtherStates DEF GateUser
  <2>2. tokens' = tokens /\ Same
    BY <1>15, <1>r DEF GateUser, Become, Idle, rowVars
  <2>3. Claims
    BY <1>15, <1>r, <2>1 DEF GateUser, Account
  <2> QED BY <1>k, <1>d, <2>2, <2>3
<1>16. ASSUME NEW h \in Handler, HardDelete(h)
       PROVE  SecretsCurrent'
  <2> DEFINE u == req[h].user
  <2>1. u \in User /\ swept' = swept /\ Same
    BY <1>16, <1>r, <1>s, OtherStates DEF HardDelete, Become, Idle
  <2>2. \/ account' = account /\ tokens' = tokens
        \/ /\ account' = [account EXCEPT ![u].status = "deleted"]
           /\ tokens' = {t \in tokens : t.user # u}
    BY <1>16 DEF HardDelete, Others
  <2>3. Fewer
    BY <2>2
  <2>4. Claims
    BY <1>r, <2>1, <2>2 DEF Account
  <2> QED BY <1>k, <2>1, <2>3, <2>4
<1> QED
  BY <1>1, <1>2, <1>3, <1>4, <1>5, <1>6, <1>7, <1>8, <1>9, <1>10, <1>11, <1>12, <1>13, <1>14,
     <1>15, <1>16, Disturbances
  DEF Disturbs

-----------------------------------------------------------------------------
(* The invariant behind the three safety properties: types, known users,   *)
(* and the facts the requests carry between two statements.                *)
AccountsInv == TypeOK /\ KnownUsers /\ RotationTraced /\ GatingTraced /\ SecretsCurrent

(* Without rows and without requests there is nothing to hold.             *)
LEMMA InitHolds == Init => AccountsInv
<1> SUFFICES ASSUME Init PROVE AccountsInv
  OBVIOUS
<1>1. TypeOK
  BY InitTyped
<1>2. \A h \in Handler : req[h].next = "idle"
  BY DEF Init, Idle
<1>3. \A u \in User : account[u].status = "none" /\ account[u].version = Never /\ ~ swept[u]
  BY DEF Init
<1>4. tokens = {}
  BY DEF Init
<1> QED
  BY <1>1, <1>2, <1>3, <1>4
  DEF AccountsInv, KnownUsers, RotationTraced, GatingTraced, SecretsCurrent,
      TokensOfCurrentPassword, RowExists, Carries

(* It holds in every state, by the lemmas above for each of its parts.     *)
THEOREM AccountsInvariant == Spec => []AccountsInv
<1>1. AccountsInv /\ [Next]_vars => AccountsInv'
  BY StepTyped, KnownKept, RotationKept, GatingKept, SecretsKept DEF AccountsInv
<1> QED BY InitHolds, <1>1, PTL DEF Spec

(* refreshTokens: however requests interleave and wherever one of them     *)
(* fails, a token that has a successor is revoked.                         *)
THEOREM AccountsRotation == Spec => []RotationRevokesFirst
<1>1. AccountsInv => RotationRevokesFirst
  BY DEF AccountsInv, RotationTraced, RotationRevokesFirst, Live
<1> QED BY AccountsInvariant, <1>1, PTL

(* acceptTerms: no user is gated without an acceptance of that version at  *)
(* that instant.                                                           *)
THEOREM AccountsTerms == Spec => []TermsGatingProved
<1>1. AccountsInv => TermsGatingProved
  BY DEF AccountsInv, GatingTraced, AcceptanceStored, TermsGatingProved
<1> QED BY AccountsInvariant, <1>1, PTL

(* changePassword: after its sweep every live token descends from a login  *)
(* with the password of now, except those of requests it overtook.         *)
THEOREM AccountsPasswords == Spec => []TokensOfCurrentPassword
<1>1. AccountsInv => TokensOfCurrentPassword
  BY DEF AccountsInv, SecretsCurrent
<1> QED BY AccountsInvariant, <1>1, PTL

-----------------------------------------------------------------------------
(* A reading about to be recorded carries what its look-up saw: of the rows*)
(* stored then, none of its user and room is within the window.            *)
LookedFirst ==
  \A h \in Handler : req[h].next = "record" =>
    /\ req[h].seen <= rowSeq
    /\ \A v \in views : SameView(v, req[h].user, req[h].occ) /\ v.id <= req[h].seen =>
         req[h].blind \/ req[h].at - v.at > ViewWindow

(* An exclusion goes on looking for, or has found, what its user had when  *)
(* it was asked for.                                                       *)
HeldSought ==
  \A h \in Handler : req[h].next = "count" =>
    /\ req[h].held \subseteq history[req[h].user]
    /\ req[h].held \subseteq req[h].uncounted \cup req[h].found

WatchInv == TypeOK /\ LookedFirst /\ HeldSought

(* The rows these facts speak of are only added to.                        *)
LEMMA WatchedRows ==
  ASSUME TypeOK, [Next]_vars
  PROVE  /\ rowSeq' >= rowSeq
         /\ \A v \in views' : v \in views \/ (v.id = rowSeq + 1 /\ v.at = now)
         /\ \A u \in User : history[u] \subseteq history'[u]
<1> DEFINE Kept == /\ rowSeq' >= rowSeq
                   /\ \A v \in views' : v \in views \/ (v.id = rowSeq + 1 /\ v.at = now)
                   /\ \A u \in User : history[u] \subseteq history'[u]
<1>0. rowSeq \in Nat /\ history \in [User -> SUBSET History]
  BY DEF TypeOK
<1>1. ASSUME UNCHANGED <<views, history>>, rowSeq' = rowSeq \/ NewRow
      PROVE  Kept
  BY <1>0, <1>1 DEF NewRow
<1>2. ASSUME NEW op \in calls, NEW u \in User, Administration(op, u)
      PROVE  Kept
  BY <1>0, <1>2 DEF Administration, CreateUser, UpdateUser, UpdateStatus, Work, rowVars
<1>3. ASSUME NEW op \in calls, NEW u \in User, NEW h \in Handler, Starts(op, h, u)
      PROVE  Kept
  <2>1. UNCHANGED <<views, history>> /\ (rowSeq' = rowSeq \/ NewRow)
    BY <1>3, Zenon DEF Starts, Login, ChangePassword, CheckRefresh, Logout, LogoutAll, AcceptTerms,
         LookForView, StartHardDelete, rowVars, userVars
  <2> QED BY <1>1, <2>1
<1>4. ASSUME NEW h \in Handler, Continues(h), ~ RecordView(h)
      PROVE  Kept
  <2>1. UNCHANGED <<views, history>> /\ (rowSeq' = rowSeq \/ NewRow)
    BY <1>4, Zenon DEF Continues, OpenSession, SessionNotOpened, RotateToken, IssueToken,
         FindOpenSession, CloseSession, CloseAllSessions, WriteHash, SweepTokens, GateUser,
         CountHistory, HardDelete, Fail, rowVars, userVars
  <2> QED BY <1>1, <2>1
<1>5. ASSUME NEW h \in Handler, RecordView(h)
      PROVE  Kept
  BY <1>0, <1>5 DEF RecordView, NewRow, userVars
<1>6. ASSUME Tick
      PROVE  Kept
  BY <1>1, <1>6 DEF Tick, rowVars, userVars
<1>7. ASSUME UNCHANGED vars
      PROVE  Kept
  BY <1>1, <1>7 DEF vars, rowVars, userVars
<1> HIDE DEF Kept
<1>8. Kept
  BY <1>2, <1>3, <1>4, <1>5, <1>6, <1>7, Zenon DEF Next
<1> QED BY <1>8 DEF Kept

(* A request comes to record a reading by its look-up, and to count by the *)
(* call of an exclusion or by counting on.                                 *)
LEMMA WatchedRequests ==
  ASSUME TypeOK, [Next]_vars, NEW h \in Handler, req'[h].next \in {"record", "count"}
  PROVE  \/ req'[h] = req[h]
         \/ \E u \in User, o \in Occurrence, blind \in BOOLEAN : LookForView(h, u, o, blind)
         \/ \E u \in User : StartHardDelete(h, u)
         \/ \E table \in History : CountHistory(h, table)
<1> DEFINE Known == \/ req'[h] = req[h]
                    \/ \E u \in User, o \in Occurrence, blind \in BOOLEAN : LookForView(h, u, o, blind)
                    \/ \E u \in User : StartHardDelete(h, u)
                    \/ \E table \in History : CountHistory(h, table)
<1>r. req \in [Handler -> HandlerState]
  BY DEF TypeOK
<1>1. ASSUME UNCHANGED req
      PROVE  Known
  BY <1>1
<1>2. ASSUME NEW g \in Handler, NEW s, Become(g, s), s.next \notin {"record", "count"}
      PROVE  Known
  BY <1>2, <1>r DEF Become
<1>3. ASSUME NEW g \in Handler, NEW s, Become(g, s), g # h
      PROVE  Known
  BY <1>3, <1>r DEF Become
<1>4. ASSUME NEW op \in calls, NEW u \in User, Administration(op, u)
      PROVE  Known
  BY <1>1, <1>4 DEF Administration, CreateUser, UpdateUser, UpdateStatus, Work
<1>5. ASSUME NEW op \in calls, NEW u \in User, NEW g \in Handler, Starts(op, g, u)
      PROVE  Known
  <2>1. ASSUME NEW t \in tokens, CheckRefresh(g, t)
        PROVE  Known
    <3> DEFINE s == [next |-> AfterCheck, user |-> t.user, from |-> t.id, session |-> t.session,
                     secret |-> t.secret, late |-> t.late]
    <3>1. Become(g, s) /\ s.next \notin {"record", "count"}
      BY <2>1 DEF CheckRefresh, Begin, AfterCheck
    <3> HIDE DEF s
    <3> QED BY <1>2, <3>1
  <2>2. ASSUME NEW s, NEW n, s.next = n, n \notin {"record", "count"}, Become(g, s)
        PROVE  Known
    BY <1>2, <2>2
  <2>3. ASSUME NEW p, Login(g, u, p)
        PROVE  Known
    <3> DEFINE s == [next |-> "open", user |-> u, secret |-> p, late |-> FALSE]
    <3>1. Become(g, s) /\ s.next \notin {"record", "count"}
      BY <2>3 DEF Login, Begin
    <3> HIDE DEF s
    <3> QED BY <1>2, <3>1
  <2>4. ASSUME NEW p, NEW q, ChangePassword(g, u, p, q)
        PROVE  Known
    <3> DEFINE s == [next |-> "hash", user |-> u, secret |-> q]
    <3>1. Become(g, s) /\ s.next \notin {"record", "count"}
      BY <2>4 DEF ChangePassword, Begin
    <3> HIDE DEF s
    <3> QED BY <1>2, <3>1
  <2>5. ASSUME NEW t \in tokens, Logout(g, t)
        PROVE  Known
    <3> DEFINE s == [next |-> "find", user |-> t.user]
    <3>1. Become(g, s) /\ s.next \notin {"record", "count"}
      BY <2>5 DEF Logout, Begin
    <3> HIDE DEF s
    <3> QED BY <1>2, <3>1
  <2>6. ASSUME LogoutAll(g, u)
        PROVE  Known
    <3> DEFINE s == [next |-> "closeAll", user |-> u]
    <3>1. Become(g, s) /\ s.next \notin {"record", "count"}
      BY <2>6 DEF LogoutAll, Begin
    <3> HIDE DEF s
    <3> QED BY <1>2, <3>1
  <2>7. ASSUME NEW v, AcceptTerms(g, u, v)
        PROVE  Known
    <3> DEFINE s == [next |-> "gate", user |-> u, version |-> v, at |-> now]
    <3>1. Become(g, s) /\ s.next \notin {"record", "count"}
      BY <2>7 DEF AcceptTerms, Begin
    <3> HIDE DEF s
    <3> QED BY <1>2, <3>1
  <2>8. ASSUME NEW o \in Occurrence, NEW blind \in BOOLEAN, LookForView(g, u, o, blind)
        PROVE  Known
    <3>1. CASE g = h
      BY <2>8, <3>1
    <3>2. CASE g # h
      BY <1>3, <2>8, <3>2, Zenon DEF LookForView, Begin
    <3> QED BY <3>1, <3>2
  <2>9. ASSUME StartHardDelete(g, u)
        PROVE  Known
    <3>1. CASE g = h
      BY <2>9, <3>1
    <3>2. CASE g # h
      BY <1>3, <2>9, <3>2, Zenon DEF StartHardDelete, Begin
    <3> QED BY <3>1, <3>2
  <2> HIDE DEF Known
  <2> QED BY <1>5, <2>1, <2>3, <2>4, <2>5, <2>6, <2>7, <2>8, <2>9, Zenon DEF Starts
<1>6. ASSUME NEW g \in Handler, Continues(g)
      PROVE  Known
  <2>1. ASSUME g = h, req[g].next = "rotate" \/ req[g].next = "hash", NEW n \in {"issue", "sweep"},
               Become(g, [req[g] EXCEPT !.next = n])
        PROVE  Known
    <3>1. req'[h].next = n
      BY <2>1, <1>r, RefreshState, PasswordState DEF Become
    <3> QED BY <3>1
  <2>2. CASE RotateToken(g)
    BY <1>3, <2>1, <2>2 DEF RotateToken
  <2>3. CASE WriteHash(g)
    BY <1>3, <2>1, <2>3 DEF WriteHash
  <2>4. CASE OpenSession(g) \/ SessionNotOpened(g)
    <3>1. \E f, s : Become(g, ToIssue(g, f, s))
      BY <2>4, Zenon DEF OpenSession, SessionNotOpened
    <3>2. \A f, s : ToIssue(g, f, s).next = "issue"
      BY DEF ToIssue
    <3> QED BY <1>2, <3>1, <3>2
  <2>5. CASE IssueToken(g) \/ CloseSession(g) \/ CloseAllSessions(g) \/ GateUser(g)
               \/ RecordView(g) \/ HardDelete(g) \/ Fail(g)
    <3>1. Become(g, Idle)
      BY <2>5, Zenon DEF IssueToken, CloseSession, CloseAllSessions, GateUser, RecordView,
           HardDelete, Fail
    <3> QED BY <1>2, <3>1 DEF Idle
  <2>6. CASE FindOpenSession(g)
    BY <1>2, <2>6 DEF FindOpenSession, Idle
  <2>7. CASE SweepTokens(g)
    <3>1. CASE g = h
      <4>1. req'[g] = [next |-> "issue", user |-> req[g].user, from |-> Never,
                       session |-> Never, secret |-> req[g].secret, late |-> FALSE]
        BY <2>7, SweptRequests, Zenon
      <4>2. req'[g].next = "issue"
        BY <4>1
      <4> QED BY <3>1, <4>2
    <3>2. CASE g # h
      BY <2>7, <3>2, SweptRequests
    <3> QED BY <3>1, <3>2
  <2>8. CASE \E table \in History : CountHistory(g, table)
    <3>1. CASE g = h
      BY <2>8, <3>1
    <3>2. CASE g # h
      BY <1>3, <2>8, <3>2, Zenon DEF CountHistory
    <3> QED BY <3>1, <3>2
  <2> HIDE DEF Known
  <2> QED BY <1>6, <2>2, <2>3, <2>4, <2>5, <2>6, <2>7, <2>8, Zenon DEF Continues
<1>7. ASSUME Tick
      PROVE  Known
  BY <1>1, <1>7 DEF Tick
<1>8. ASSUME UNCHANGED vars
      PROVE  Known
  BY <1>1, <1>8 DEF vars
<1> HIDE DEF Known
<1>9. Known
  BY <1>4, <1>5, <1>6, <1>7, <1>8, Zenon DEF Next
<1> QED BY <1>9, Zenon DEF Known

(* What a look-up saw stays true of the rows there were: later rows have   *)
(* larger ids.                                                             *)
LEMMA LookedKept ==
  ASSUME TypeOK, LookedFirst, [Next]_vars, TypeOK'
  PROVE  LookedFirst'
<1> SUFFICES ASSUME NEW h \in Handler, req'[h].next = "record"
             PROVE  /\ req'[h].seen <= rowSeq'
                    /\ \A v \in views' :
                         SameView(v, req'[h].user, req'[h].occ) /\ v.id <= req'[h].seen =>
                           req'[h].blind \/ req'[h].at - v.at > ViewWindow
  BY DEF LookedFirst, SameView
<1>0. /\ req \in [Handler -> HandlerState] /\ rowSeq \in Nat /\ rowSeq' \in Nat
      /\ views' \subseteq View /\ rowSeq' >= rowSeq /\ now \in Nat
      /\ \A v \in views' : v \in views \/ (v.id = rowSeq + 1 /\ v.at = now)
  BY WatchedRows DEF TypeOK
<1>1. CASE req'[h] = req[h]
  <2>1. req[h].seen \in Nat /\ req[h].seen <= rowSeq
    BY <1>0, <1>1 DEF LookedFirst, HandlerState, Idle
  <2>2. \A v \in views' : v.id <= req[h].seen => v \in views
    BY <1>0, <2>1 DEF View
  <2> QED BY <1>0, <1>1, <2>1, <2>2 DEF LookedFirst
<1>2. ASSUME NEW u \in User, NEW o \in Occurrence, NEW blind \in BOOLEAN, LookForView(h, u, o, blind)
      PROVE  /\ req'[h].seen <= rowSeq'
             /\ \A v \in views' :
                  SameView(v, req'[h].user, req'[h].occ) /\ v.id <= req'[h].seen =>
                    req'[h].blind \/ req'[h].at - v.at > ViewWindow
  <2>1. req'[h] = [next |-> "record", user |-> u, occ |-> o, at |-> now, seen |-> rowSeq,
                   blind |-> blind]
    BY <1>0, <1>2 DEF LookForView, Begin, Become
  <2>2. /\ req'[h].user = u /\ req'[h].occ = o /\ req'[h].at = now /\ req'[h].seen = rowSeq
        /\ req'[h].blind = blind
    BY <2>1
  <2>3. views' = views /\ rowSeq' = rowSeq
        /\ (blind \/ ~ \E v \in views : SameView(v, u, o) /\ Recent(v))
    BY <1>2 DEF LookForView, rowVars
  <2>4. \A v \in views : ~ Recent(v) => now - v.at > ViewWindow
    BY <1>0, <2>3, AccountsAssumption DEF Recent, View
  <2> QED BY <1>0, <2>2, <2>3, <2>4
<1>3. ~ (\E u \in User : StartHardDelete(h, u)) /\ ~ (\E table \in History : CountHistory(h, table))
  <2>1. ASSUME NEW u \in User, StartHardDelete(h, u)
        PROVE  FALSE
    BY <1>0, <2>1 DEF StartHardDelete, Begin, Become
  <2>2. ASSUME NEW table \in History, CountHistory(h, table)
        PROVE  FALSE
    <3> DEFINE q == req[h]
               U == q.uncounted \ {table}
               F == IF Counted(q.user, table) THEN q.found \cup {table} ELSE q.found
    <3>1. /\ q.next = "count" /\ q \in HandlerState
          /\ q.uncounted \subseteq History /\ q.found \subseteq History
      BY <1>0, <2>2, CountState, Zenon DEF CountHistory
    <3>2. req'[h] = [q EXCEPT !.uncounted = U, !.found = F]
      BY <1>0, <2>2 DEF CountHistory, Become
    <3> HIDE DEF U, F
    <3>3. req'[h].next = "count"
      BY <3>1, <3>2 DEF HandlerState, Idle
    <3> QED BY <3>3
  <2> QED BY <2>1, <2>2
<1> QED BY <1>1, <1>2, <1>3, WatchedRequests, Zenon

(* A table is counted only while history holds it, and history keeps it.   *)
LEMMA HeldKept ==
  ASSUME TypeOK, HeldSought, [Next]_vars, TypeOK'
  PROVE  HeldSought'
<1> SUFFICES ASSUME NEW h \in Handler, req'[h].next = "count"
             PROVE  /\ req'[h].held \subseteq history'[req'[h].user]
                    /\ req'[h].held \subseteq req'[h].uncounted \cup req'[h].found
  BY DEF HeldSought
<1>0. /\ req \in [Handler -> HandlerState] /\ req' \in [Handler -> HandlerState]
      /\ history \in [User -> SUBSET History]
      /\ \A u \in User : history[u] \subseteq history'[u]
  BY WatchedRows DEF TypeOK
<1>1. CASE req'[h] = req[h]
  <2>1. req[h].user \in User
    BY <1>0, <1>1, OtherStates
  <2> QED BY <1>0, <1>1, <2>1 DEF HeldSought
<1>2. ASSUME NEW u \in User, StartHardDelete(h, u)
      PROVE  /\ req'[h].held \subseteq history'[req'[h].user]
             /\ req'[h].held \subseteq req'[h].uncounted \cup req'[h].found
  <2>1. req'[h] = [next |-> "count", user |-> u, uncounted |-> History, found |-> {},
                   held |-> history[u]]
    BY <1>0, <1>2 DEF StartHardDelete, Begin, Become
  <2>2. /\ req'[h].user = u /\ req'[h].held = history[u] /\ req'[h].uncounted = History
        /\ history[u] \subseteq History
    BY <1>0, <2>1
  <2> QED BY <1>0, <2>2
<1>3. ASSUME NEW table \in History, CountHistory(h, table)
      PROVE  /\ req'[h].held \subseteq history'[req'[h].user]
             /\ req'[h].held \subseteq req'[h].uncounted \cup req'[h].found
  <2> DEFINE q == req[h]
             U == q.uncounted \ {table}
             F == IF Counted(q.user, table) THEN q.found \cup {table} ELSE q.found
  <2>1. q.next = "count" /\ q \in HandlerState /\ q.user \in User
    BY <1>0, <1>3, OtherStates DEF CountHistory
  <2>2. q \in [next : {"count"}, user : User, uncounted : SUBSET History,
               found : SUBSET History, held : SUBSET History]
    BY <2>1 DEF HandlerState, Idle
  <2>3. req'[h] = [q EXCEPT !.uncounted = U, !.found = F]
    BY <1>0, <1>3 DEF CountHistory, Become
  <2>4. q.held \subseteq history[q.user] /\ q.held \subseteq q.uncounted \cup q.found
    BY <2>1 DEF HeldSought
  <2>5. q.held \subseteq U \cup F
    BY <2>4 DEF Counted
  <2> HIDE DEF U, F
  <2>6. req'[h].user = q.user /\ req'[h].held = q.held /\ req'[h].uncounted = U /\ req'[h].found = F
    BY <2>2, <2>3
  <2> QED BY <1>0, <2>1, <2>4, <2>5, <2>6
<1>4. ~ \E u \in User, o \in Occurrence, blind \in BOOLEAN : LookForView(h, u, o, blind)
  BY <1>0 DEF LookForView, Begin, Become
<1> QED BY <1>1, <1>2, <1>3, <1>4, WatchedRequests, Zenon

(* Both facts hold in every state.                                         *)
LEMMA WatchHolds == Spec => []WatchInv
<1>1. Init => WatchInv
  BY InitTyped DEF Init, WatchInv, LookedFirst, HeldSought, Idle
<1>2. WatchInv /\ [Next]_vars => WatchInv'
  BY StepTyped, LookedKept, HeldKept DEF WatchInv
<1> QED BY <1>1, <1>2, PTL DEF Spec

(* recordView: two readings of one room by one user are recorded within    *)
(* the window only if the second looked before the first was stored, or    *)
(* its look-up failed.                                                     *)
THEOREM AccountsViewsApart == Spec => ViewsApart
<1>1. WatchInv /\ [Next]_vars =>
        [\A h \in Handler : req[h].next = "record" /\ views' # views /\ req'[h] = Idle =>
           \A v \in views : SameView(v, req[h].user, req[h].occ) /\ v.id <= req[h].seen =>
             req[h].blind \/ req[h].at - v.at > ViewWindow]_vars
  BY Zenon DEF WatchInv, LookedFirst
<1> QED BY <1>1, WatchHolds, PTL DEF Spec, ViewsApart

(* hardDelete: who was named by a row of any counted table when the        *)
(* exclusion was asked for is not excluded by it, though it counts table   *)
(* by table while others write.                                            *)
THEOREM AccountsHistoryBlocks == Spec => HistoryBlocksExclusion
<1>1. ASSUME WatchInv, [Next]_vars, NEW h \in Handler,
             req[h].next = "count", req[h].held # {}, RowExists(req[h].user),
             req[h].uncounted = {}, req'[h] # req[h]
      PROVE  account'[req[h].user].status # "deleted"
  <2>0. /\ req \in [Handler -> HandlerState] /\ req[h].found # {}
        /\ account[req[h].user].status # "deleted"
    BY <1>1 DEF WatchInv, HeldSought, TypeOK, RowExists
  <2>1. account' = account => account'[req[h].user].status # "deleted"
    BY <2>0
  <2>2. ASSUME NEW g \in Handler, NEW s, g # h, Become(g, s)
        PROVE  FALSE
    BY <1>1, <2>0, <2>2 DEF Become
  <2>3. ASSUME NEW op \in calls, NEW u \in User, NEW g \in Handler, Starts(op, g, u)
        PROVE  account' = account
    BY <2>3, Zenon DEF Starts, Login, ChangePassword, CheckRefresh, Logout, LogoutAll, AcceptTerms,
         LookForView, StartHardDelete, userVars
  <2>4. ASSUME NEW g \in Handler, Continues(g)
        PROVE  account' = account
    <3>1. CASE WriteHash(g) \/ GateUser(g)
      <4>1. g = h
        BY <2>2, <3>1, Zenon DEF WriteHash, GateUser
      <4> QED BY <1>1, <3>1, <4>1 DEF WriteHash, GateUser
    <3>2. CASE HardDelete(g)
      <4>1. g = h
        BY <2>2, <3>2, Zenon DEF HardDelete
      <4> QED BY <2>0, <3>2, <4>1 DEF HardDelete
    <3>3. CASE ~ (WriteHash(g) \/ GateUser(g) \/ HardDelete(g))
      BY <2>4, <3>3, Zenon DEF Continues, OpenSession, SessionNotOpened, RotateToken, IssueToken,
           FindOpenSession, CloseSession, CloseAllSessions, SweepTokens, RecordView,
           CountHistory, Fail, userVars
    <3> QED BY <3>1, <3>2, <3>3
  <2>5. ASSUME NEW op \in calls, NEW u \in User, Administration(op, u)
        PROVE  UNCHANGED req
    BY <2>5 DEF Administration, CreateUser, UpdateUser, UpdateStatus, Work
  <2>6. Tick \/ UNCHANGED vars => UNCHANGED req
    BY DEF Tick, vars
  <2>7. ~ UNCHANGED req
    BY <1>1
  <2> QED BY <1>1, <2>1, <2>3, <2>4, <2>5, <2>6, <2>7 DEF Next
<1>2. WatchInv /\ [Next]_vars =>
        [\A h \in Handler :
           /\ req[h].next = "count" /\ req[h].held # {} /\ RowExists(req[h].user)
           /\ req[h].uncounted = {} /\ req'[h] # req[h]
           => account'[req[h].user].status # "deleted"]_vars
  BY <1>1
<1> QED BY <1>2, WatchHolds, PTL DEF Spec, HistoryBlocksExclusion

-----------------------------------------------------------------------------
(* The report of accesses.  A token lives at least as long *)
(* as its session counts as active, and no session is still to come with   *)
(* the id a token or a request already names.                              *)
SessionsTimed ==
  /\ \A s \in sessions : s.loginAt <= now
  /\ \A t \in tokens : /\ t.session # Never => t.session <= rowSeq
                       /\ \A s \in sessions : t.session = s.id => s.loginAt + TTL <= t.expiresAt
  /\ \A h \in Handler : req[h].next \in {"rotate", "issue"} /\ req[h].session # Never =>
       req[h].session <= rowSeq

(* Ids and the clock only grow.                                            *)
LEMMA ClockSteps ==
  ASSUME TypeOK, [Next]_vars
  PROVE  now' >= now /\ rowSeq' >= rowSeq
<1> DEFINE Grow == now' >= now
<1>0. now \in Nat
  BY DEF TypeOK
<1>1. ASSUME UNCHANGED now
      PROVE  Grow
  BY <1>0, <1>1
<1>2. ASSUME Tick
      PROVE  Grow
  BY <1>0, <1>2 DEF Tick
<1>3. ASSUME NEW op \in calls, NEW u \in User, Administration(op, u)
      PROVE  Grow
  BY <1>1, <1>3 DEF Administration, CreateUser, UpdateUser, UpdateStatus, Work
<1>4. ASSUME NEW op \in calls, NEW u \in User, NEW h \in Handler, Starts(op, h, u)
      PROVE  Grow
  <2>1. UNCHANGED now
    BY <1>4, Zenon DEF Starts, Login, ChangePassword, CheckRefresh, Logout, LogoutAll, AcceptTerms,
         LookForView, StartHardDelete
  <2> QED BY <1>1, <2>1
<1>5. ASSUME NEW h \in Handler, Continues(h)
      PROVE  Grow
  <2>1. UNCHANGED now
    BY <1>5, Zenon DEF Continues, OpenSession, SessionNotOpened, RotateToken, IssueToken,
         FindOpenSession, CloseSession, CloseAllSessions, WriteHash, SweepTokens, GateUser,
         RecordView, CountHistory, HardDelete, Fail
  <2> QED BY <1>1, <2>1
<1>6. ASSUME UNCHANGED vars
      PROVE  Grow
  BY <1>1, <1>6 DEF vars
<1> HIDE DEF Grow
<1>7. Grow
  BY <1>2, <1>3, <1>4, <1>5, <1>6, Zenon DEF Next
<1> QED BY <1>7, WatchedRows DEF Grow

(* A session is one there was, open or closed, or opened by a login now.   *)
LEMMA SessionsSteps ==
  ASSUME TypeOK, [Next]_vars, NEW s \in sessions'
  PROVE  \/ \E y \in sessions : y.id = s.id /\ y.loginAt = s.loginAt
         \/ s.id = rowSeq + 1 /\ s.loginAt = now
<1> DEFINE Known == \/ \E y \in sessions : y.id = s.id /\ y.loginAt = s.loginAt
                    \/ s.id = rowSeq + 1 /\ s.loginAt = now
<1>0. sessions \subseteq Session
  BY DEF TypeOK
<1>1. ASSUME s \in sessions
      PROVE  Known
  BY <1>1
<1>2. ASSUME NEW chosen, sessions' = Closed(chosen)
      PROVE  Known
  <2>1. PICK y \in sessions : s = (IF y \in chosen THEN [y EXCEPT !.open = FALSE] ELSE y)
    BY <1>2, Zenon DEF Closed
  <2>2. s.id = y.id /\ s.loginAt = y.loginAt
    BY <1>0, <2>1 DEF Session
  <2> QED BY <2>2
<1>3. ASSUME NEW h \in Handler, OpenSession(h)
      PROVE  Known
  BY <1>3 DEF OpenSession, NewRow
<1>4. ASSUME NEW h \in Handler, HardDelete(h)
      PROVE  Known
  BY <1>1, <1>4 DEF HardDelete, Others
<1>5. ASSUME NEW h \in Handler, CloseSession(h) \/ CloseAllSessions(h)
      PROVE  Known
  BY <1>2, <1>5, Zenon DEF CloseSession, CloseAllSessions
<1>6. ASSUME UNCHANGED sessions
      PROVE  Known
  BY <1>1, <1>6
<1>7. ASSUME NEW h \in Handler, Continues(h),
             ~ (OpenSession(h) \/ HardDelete(h) \/ CloseSession(h) \/ CloseAllSessions(h))
      PROVE  Known
  <2>1. UNCHANGED sessions
    BY <1>7, Zenon DEF Continues, SessionNotOpened, RotateToken, IssueToken, FindOpenSession,
         WriteHash, SweepTokens, GateUser, RecordView, CountHistory, Fail, rowVars
  <2> QED BY <1>6, <2>1
<1>8. ASSUME NEW op \in calls, NEW u \in User, NEW h \in Handler, Starts(op, h, u)
      PROVE  Known
  <2>1. UNCHANGED sessions
    BY <1>8, Zenon DEF Starts, Login, ChangePassword, CheckRefresh, Logout, LogoutAll, AcceptTerms,
         LookForView, StartHardDelete, rowVars
  <2> QED BY <1>6, <2>1
<1>9. ASSUME NEW op \in calls, NEW u \in User, Administration(op, u)
      PROVE  Known
  BY <1>6, <1>9 DEF Administration, CreateUser, UpdateUser, UpdateStatus, Work, rowVars
<1>10. ASSUME Tick \/ UNCHANGED vars
       PROVE  Known
  BY <1>6, <1>10 DEF Tick, vars, rowVars
<1> HIDE DEF Known
<1>11. Known
  BY <1>3, <1>4, <1>5, <1>7, <1>8, <1>9, <1>10, Zenon DEF Next
<1> QED BY <1>11, Zenon DEF Known

(* A token is one there was, live or revoked, or issued now.               *)
LEMMA TokensSteps ==
  ASSUME TypeOK, [Next]_vars, NEW t \in tokens'
  PROVE  \/ \E y \in tokens : y.session = t.session /\ y.expiresAt = t.expiresAt
         \/ \E h \in Handler : /\ req[h].next = "issue" /\ t.session = req[h].session
                               /\ t.expiresAt = now + TTL /\ UNCHANGED sessions
<1> DEFINE Known ==
      \/ \E y \in tokens : y.session = t.session /\ y.expiresAt = t.expiresAt
      \/ \E h \in Handler : /\ req[h].next = "issue" /\ t.session = req[h].session
                            /\ t.expiresAt = now + TTL /\ UNCHANGED sessions
<1>0. tokens \subseteq Token
  BY DEF TypeOK
<1>1. ASSUME t \in tokens
      PROVE  Known
  BY <1>1
<1>2. ASSUME NEW chosen, tokens' = Revoked(chosen)
      PROVE  Known
  <2>1. PICK y \in tokens : t = (IF y \in chosen THEN [y EXCEPT !.revoked = TRUE] ELSE y)
    BY <1>2, Zenon DEF Revoked
  <2>2. t.session = y.session /\ t.expiresAt = y.expiresAt
    BY <1>0, <2>1 DEF Token
  <2> QED BY <2>2
<1>3. ASSUME NEW h \in Handler, IssueToken(h)
      PROVE  Known
  <2> DEFINE x == [id |-> rowSeq', user |-> req[h].user, from |-> req[h].from,
                   session |-> req[h].session, revoked |-> FALSE, expiresAt |-> now + TTL,
                   secret |-> req[h].secret, late |-> req[h].late]
  <2>1. req[h].next = "issue" /\ UNCHANGED sessions /\ tokens' = tokens \cup {x}
    BY <1>3 DEF IssueToken
  <2>2. x.session = req[h].session /\ x.expiresAt = now + TTL
    OBVIOUS
  <2> HIDE DEF x
  <2> QED BY <2>1, <2>2
<1>4. ASSUME NEW h \in Handler, HardDelete(h)
      PROVE  Known
  BY <1>1, <1>4 DEF HardDelete, Others
<1>5. ASSUME NEW h \in Handler, RotateToken(h) \/ SweepTokens(h)
      PROVE  Known
  BY <1>2, <1>5, Zenon DEF RotateToken, SweepTokens
<1>6. ASSUME UNCHANGED tokens
      PROVE  Known
  BY <1>1, <1>6
<1>7. ASSUME NEW h \in Handler, Continues(h),
             ~ (IssueToken(h) \/ HardDelete(h) \/ RotateToken(h) \/ SweepTokens(h))
      PROVE  Known
  <2>1. UNCHANGED tokens
    BY <1>7, Zenon DEF Continues, OpenSession, SessionNotOpened, FindOpenSession, CloseSession,
         CloseAllSessions, WriteHash, GateUser, RecordView, CountHistory, Fail, rowVars
  <2> QED BY <1>6, <2>1
<1>8. ASSUME NEW op \in calls, NEW u \in User, NEW h \in Handler, Starts(op, h, u)
      PROVE  Known
  <2>1. UNCHANGED tokens \/ \E chosen : tokens' = Revoked(chosen)
    BY <1>8, Zenon DEF Starts, Login, ChangePassword, CheckRefresh, Logout, LogoutAll, AcceptTerms,
         LookForView, StartHardDelete, rowVars
  <2> QED BY <1>2, <1>6, <2>1
<1>9. ASSUME NEW op \in calls, NEW u \in User, Administration(op, u)
      PROVE  Known
  BY <1>6, <1>9 DEF Administration, CreateUser, UpdateUser, UpdateStatus, Work, rowVars
<1>10. ASSUME Tick \/ UNCHANGED vars
       PROVE  Known
  BY <1>6, <1>10 DEF Tick, vars, rowVars
<1> HIDE DEF Known
<1>11. Known
  BY <1>3, <1>4, <1>5, <1>7, <1>8, <1>9, <1>10, Zenon DEF Next
<1> QED BY <1>11, Zenon DEF Known

(* The session of a request that is to issue a token is the one it had,    *)
(* none, the one it opened, or that of the token it replaces.              *)
LEMMA IssuersSteps ==
  ASSUME TypeOK, [Next]_vars, NEW h \in Handler, req'[h].next \in {"rotate", "issue"}
  PROVE  \/ req[h].next \in {"rotate", "issue"} /\ req'[h].session = req[h].session
         \/ req'[h].session \in {Never, rowSeq'}
         \/ \E t \in tokens : req'[h].session = t.session
<1> DEFINE Known == \/ req[h].next \in {"rotate", "issue"} /\ req'[h].session = req[h].session
                    \/ req'[h].session \in {Never, rowSeq'}
                    \/ \E t \in tokens : req'[h].session = t.session
<1>r. req \in [Handler -> HandlerState]
  BY DEF TypeOK
<1>1. ASSUME req'[h] = req[h]
      PROVE  Known
  BY <1>1
<1>2. ASSUME NEW g \in Handler, NEW s, Become(g, s), s.next \notin {"rotate", "issue"}
      PROVE  Known
  BY <1>2, <1>r DEF Become
<1>3. ASSUME NEW g \in Handler, NEW s, Become(g, s), g # h
      PROVE  Known
  BY <1>3, <1>r DEF Become
<1>4. ASSUME NEW op \in calls, NEW u \in User, Administration(op, u)
      PROVE  Known
  BY <1>1, <1>4 DEF Administration, CreateUser, UpdateUser, UpdateStatus, Work
<1>5. ASSUME NEW op \in calls, NEW u \in User, NEW g \in Handler, Starts(op, g, u)
      PROVE  Known
  <2>1. ASSUME NEW t \in tokens, CheckRefresh(g, t)
        PROVE  Known
    <3> DEFINE s == [next |-> AfterCheck, user |-> t.user, from |-> t.id, session |-> t.session,
                     secret |-> t.secret, late |-> t.late]
    <3>1. Become(g, s) /\ s.session = t.session
      BY <2>1 DEF CheckRefresh, Begin
    <3> HIDE DEF s
    <3>2. CASE g = h
      <4>1. req'[h] = s
        BY <1>r, <3>1, <3>2 DEF Become
      <4> QED BY <3>1, <4>1
    <3> QED BY <1>3, <3>1, <3>2
  <2>2. ASSUME NEW p, Login(g, u, p)
        PROVE  Known
    <3> DEFINE s == [next |-> "open", user |-> u, secret |-> p, late |-> FALSE]
    <3>1. Become(g, s) /\ s.next \notin {"rotate", "issue"}
      BY <2>2 DEF Login, Begin
    <3> HIDE DEF s
    <3> QED BY <1>2, <3>1
  <2>3. ASSUME NEW p, NEW q, ChangePassword(g, u, p, q)
        PROVE  Known
    <3> DEFINE s == [next |-> "hash", user |-> u, secret |-> q]
    <3>1. Become(g, s) /\ s.next \notin {"rotate", "issue"}
      BY <2>3 DEF ChangePassword, Begin
    <3> HIDE DEF s
    <3> QED BY <1>2, <3>1
  <2>4. ASSUME NEW t \in tokens, Logout(g, t)
        PROVE  Known
    <3> DEFINE s == [next |-> "find", user |-> t.user]
    <3>1. Become(g, s) /\ s.next \notin {"rotate", "issue"}
      BY <2>4 DEF Logout, Begin
    <3> HIDE DEF s
    <3> QED BY <1>2, <3>1
  <2>5. ASSUME LogoutAll(g, u)
        PROVE  Known
    <3> DEFINE s == [next |-> "closeAll", user |-> u]
    <3>1. Become(g, s) /\ s.next \notin {"rotate", "issue"}
      BY <2>5 DEF LogoutAll, Begin
    <3> HIDE DEF s
    <3> QED BY <1>2, <3>1
  <2>6. ASSUME NEW v, AcceptTerms(g, u, v)
        PROVE  Known
    <3> DEFINE s == [next |-> "gate", user |-> u, version |-> v, at |-> now]
    <3>1. Become(g, s) /\ s.next \notin {"rotate", "issue"}
      BY <2>6 DEF AcceptTerms, Begin
    <3> HIDE DEF s
    <3> QED BY <1>2, <3>1
  <2>7. ASSUME NEW o, NEW blind, LookForView(g, u, o, blind)
        PROVE  Known
    <3> DEFINE s == [next |-> "record", user |-> u, occ |-> o, at |-> now, seen |-> rowSeq,
                    blind |-> blind]
    <3>1. Become(g, s) /\ s.next \notin {"rotate", "issue"}
      BY <2>7 DEF LookForView, Begin
    <3> HIDE DEF s
    <3> QED BY <1>2, <3>1
  <2>8. ASSUME StartHardDelete(g, u)
        PROVE  Known
    <3> DEFINE s == [next |-> "count", user |-> u, uncounted |-> History, found |-> {},
                    held |-> history[u]]
    <3>1. Become(g, s) /\ s.next \notin {"rotate", "issue"}
      BY <2>8 DEF StartHardDelete, Begin
    <3> HIDE DEF s
    <3> QED BY <1>2, <3>1
  <2> HIDE DEF Known
  <2> QED BY <1>5, <2>1, <2>2, <2>3, <2>4, <2>5, <2>6, <2>7, <2>8, Zenon DEF Starts
<1>6. ASSUME NEW g \in Handler, Continues(g)
      PROVE  Known
  <2>1. CASE RotateToken(g)
    <3>1. CASE g = h
      <4>1. /\ req[h].next = "rotate" /\ req[h] \in HandlerState
            /\ req'[h] = [req[h] EXCEPT !.next = "issue"]
        BY <1>r, <2>1, <3>1 DEF RotateToken, Become
      <4>2. req'[h].session = req[h].session
        BY <4>1, RefreshState
      <4> QED BY <4>1, <4>2
    <3> QED BY <1>3, <2>1, <3>1 DEF RotateToken
  <2>2. CASE WriteHash(g)
    <3>1. CASE g = h
      <4>1. /\ req[h].next = "hash" /\ req[h] \in HandlerState
            /\ req'[h] = [req[h] EXCEPT !.next = "sweep"]
        BY <1>r, <2>2, <3>1 DEF WriteHash, Become
      <4>2. req'[h].next = "sweep"
        BY <4>1, PasswordState
      <4> QED BY <4>2
    <3> QED BY <1>3, <2>2, <3>1 DEF WriteHash
  <2>3. CASE OpenSession(g) \/ SessionNotOpened(g)
    <3>1. PICK s \in {Never, rowSeq'} : Become(g, ToIssue(g, Never, s))
      BY <2>3 DEF OpenSession, SessionNotOpened
    <3>2. CASE g = h
      BY <1>r, <3>1, <3>2 DEF Become, ToIssue
    <3> QED BY <1>3, <3>1, <3>2
  <2>4. CASE IssueToken(g) \/ CloseSession(g) \/ CloseAllSessions(g) \/ GateUser(g)
               \/ RecordView(g) \/ HardDelete(g) \/ Fail(g)
    <3>1. Become(g, Idle)
      BY <2>4, Zenon DEF IssueToken, CloseSession, CloseAllSessions, GateUser, RecordView,
           HardDelete, Fail
    <3> QED BY <1>2, <3>1 DEF Idle
  <2>5. CASE FindOpenSession(g)
    BY <1>2, <2>5 DEF FindOpenSession, Idle
  <2>6. CASE SweepTokens(g)
    <3>1. CASE g = h
      <4>1. req'[g] = [next |-> "issue", user |-> req[g].user, from |-> Never,
                       session |-> Never, secret |-> req[g].secret, late |-> FALSE]
        BY <2>6, SweptRequests, Zenon
      <4> QED BY <3>1, <4>1
    <3>2. CASE g # h
      <4>1. req'[h] = MarkedLate(req[h], req[g].user) /\ req[g].user \in User
        BY <2>6, <3>2, <1>r, PasswordState DEF SweepTokens
      <4>2. req[h].next \in {"rotate", "issue"} =>
              MarkedLate(req[h], req[g].user).session = req[h].session
        BY <1>r, RefreshState DEF MarkedLate
      <4>3. MarkedLate(req[h], req[g].user).next = req[h].next
        BY <1>r, <4>1, Marked
      <4> QED BY <4>1, <4>2, <4>3
    <3> QED BY <3>1, <3>2
  <2>7. CASE \E table \in History : CountHistory(g, table)
    <3>1. PICK table \in History : CountHistory(g, table)
      BY <2>7
    <3> DEFINE q == req[g]
               U == q.uncounted \ {table}
               F == IF Counted(q.user, table) THEN q.found \cup {table} ELSE q.found
    <3>2. q.next = "count" /\ q \in HandlerState /\ Become(g, [q EXCEPT !.uncounted = U, !.found = F])
      BY <1>r, <3>1 DEF CountHistory
    <3> HIDE DEF U, F
    <3>3. [q EXCEPT !.uncounted = U, !.found = F].next = "count"
      BY <3>2 DEF HandlerState, Idle
    <3> QED BY <1>2, <3>2, <3>3
  <2> HIDE DEF Known
  <2> QED BY <1>6, <2>1, <2>2, <2>3, <2>4, <2>5, <2>6, <2>7, Zenon DEF Continues
<1>7. ASSUME Tick \/ UNCHANGED vars
      PROVE  Known
  BY <1>1, <1>7 DEF Tick, vars
<1> HIDE DEF Known
<1>8. Known
  BY <1>4, <1>5, <1>6, <1>7, Zenon DEF Next
<1> QED BY <1>8, Zenon DEF Known

(* Sessions are timed by the logins that open them.                        *)
LEMMA TimedKept ==
  ASSUME TypeOK, SessionsTimed, WatchInv, [Next]_vars, TypeOK'
  PROVE  SessionsTimed'
<1>0. /\ now \in Nat /\ now' \in Nat /\ rowSeq \in Nat /\ rowSeq' \in Nat /\ TTL \in Nat
      /\ now' >= now /\ rowSeq' >= rowSeq
      /\ sessions \subseteq Session /\ sessions' \subseteq Session
      /\ tokens \subseteq Token /\ tokens' \subseteq Token
      /\ req \in [Handler -> HandlerState]
  BY ClockSteps, AccountsAssumption DEF TypeOK
<1>1. ASSUME NEW s \in sessions'
      PROVE  s.loginAt <= now'
  <2>1. s.loginAt <= now /\ s.loginAt \in Nat
    BY <1>0, <1>1, SessionsSteps DEF SessionsTimed, Session
  <2> QED BY <1>0, <2>1
<1>2. ASSUME NEW h \in Handler, req[h].next \in {"rotate", "issue"}
      PROVE  /\ req[h].session \in Nat \cup {Never}
             /\ req[h].session # Never => req[h].session <= rowSeq
  BY <1>0, <1>2, RefreshState DEF SessionsTimed, Null
<1>3. ASSUME NEW t \in tokens
      PROVE  /\ t.session \in Nat \cup {Never} /\ t.expiresAt \in Nat
             /\ t.session # Never => t.session <= rowSeq
  BY <1>0 DEF SessionsTimed, Null, Token
<1>4. Never \notin Nat
  BY AccountsAssumption
<1>5. ASSUME NEW t \in tokens'
      PROVE  /\ t.session # Never => t.session <= rowSeq'
             /\ \A s \in sessions' : t.session = s.id => s.loginAt + TTL <= t.expiresAt
  <2>1. CASE \E y \in tokens : y.session = t.session /\ y.expiresAt = t.expiresAt
    <3>1. PICK y \in tokens : y.session = t.session /\ y.expiresAt = t.expiresAt
      BY <2>1
    <3>2. ASSUME NEW s \in sessions', t.session = s.id
          PROVE  s.loginAt + TTL <= t.expiresAt
      <4>1. s.id \in Nat /\ s.loginAt \in Nat
        BY <1>0 DEF Session
      <4>2. s.id <= rowSeq
        BY <1>3, <1>4, <3>1, <3>2, <4>1
      <4>3. PICK z \in sessions : z.id = s.id /\ z.loginAt = s.loginAt
        BY <1>0, <4>1, <4>2, SessionsSteps
      <4> QED BY <3>1, <3>2, <4>3 DEF SessionsTimed
    <3> QED BY <1>0, <1>3, <3>1, <3>2
  <2>2. ASSUME NEW h \in Handler, req[h].next = "issue", t.session = req[h].session,
               t.expiresAt = now + TTL, UNCHANGED sessions
        PROVE  /\ t.session # Never => t.session <= rowSeq'
               /\ \A s \in sessions' : t.session = s.id => s.loginAt + TTL <= t.expiresAt
    <3>1. t.session # Never => t.session <= rowSeq'
      BY <1>0, <1>2, <2>2
    <3>2. \A s \in sessions' : s.loginAt <= now /\ s.loginAt \in Nat
      BY <1>0, <2>2 DEF SessionsTimed, Session
    <3> QED BY <1>0, <2>2, <3>1, <3>2
  <2> QED BY <2>1, <2>2, TokensSteps, Zenon
<1>6. ASSUME NEW h \in Handler, req'[h].next \in {"rotate", "issue"}, req'[h].session # Never
      PROVE  req'[h].session <= rowSeq'
  <2>1. CASE req[h].next \in {"rotate", "issue"} /\ req'[h].session = req[h].session
    BY <1>0, <1>2, <1>6, <2>1
  <2>2. CASE req'[h].session \in {Never, rowSeq'}
    BY <1>0, <1>6, <2>2
  <2>3. CASE \E t \in tokens : req'[h].session = t.session
    BY <1>0, <1>3, <1>6, <2>3
  <2> QED BY <1>6, <2>1, <2>2, <2>3, IssuersSteps, Zenon
<1> QED BY <1>1, <1>5, <1>6, Zenon DEF SessionsTimed

-----------------------------------------------------------------------------
(* The sums of the daily series.  What a series is made of is finite: a    *)
(* step opens at most one session and records at most one reading.         *)
TimesFinite == IsFiniteSet(LoginTimes) /\ IsFiniteSet(ViewTimes)

LEMMA FiniteKept ==
  ASSUME TypeOK, TimesFinite, [Next]_vars
  PROVE  TimesFinite'
<1> DEFINE new == [id |-> rowSeq + 1, at |-> now]
<1>1. LoginTimes' \subseteq LoginTimes \cup {new}
  <2> SUFFICES ASSUME NEW s \in sessions'
               PROVE  [id |-> s.id, at |-> s.loginAt] \in LoginTimes \cup {new}
    BY DEF LoginTimes
  <2>1. CASE \E y \in sessions : y.id = s.id /\ y.loginAt = s.loginAt
    BY <2>1 DEF LoginTimes
  <2>2. CASE s.id = rowSeq + 1 /\ s.loginAt = now
    BY <2>2
  <2> QED BY <2>1, <2>2, SessionsSteps
<1>2. ViewTimes' \subseteq ViewTimes \cup {new}
  <2> SUFFICES ASSUME NEW v \in views'
               PROVE  [id |-> v.id, at |-> v.at] \in ViewTimes \cup {new}
    BY DEF ViewTimes
  <2>1. v \in views \/ (v.id = rowSeq + 1 /\ v.at = now)
    BY WatchedRows
  <2> QED BY <2>1 DEF ViewTimes
<1> HIDE DEF new
<1>3. IsFiniteSet(LoginTimes \cup {new}) /\ IsFiniteSet(ViewTimes \cup {new})
  BY FS_AddElement DEF TimesFinite
<1> QED BY <1>1, <1>2, <1>3, FS_Subset DEF TimesFinite

(* A later instant is of the same day or a later one.                      *)
LEMMA DaysOrdered ==
  ASSUME NEW a \in Nat, NEW b \in Nat, a <= b
  PROVE  DayOf(a) \in Int /\ DayOf(b) \in Int /\ DayOf(a) <= DayOf(b)
<1>0. Day \in Nat \ {0}
  BY AccountsAssumption
<1>1. DayOf(a) \in Int /\ DayOf(b) \in Int
  BY <1>0 DEF DayOf
<1>2. a = Day * DayOf(a) + (a % Day) /\ 0 <= a % Day /\ a % Day < Day /\ a % Day \in Int
  BY <1>0 DEF DayOf
<1>3. b = Day * DayOf(b) + (b % Day) /\ 0 <= b % Day /\ b % Day < Day /\ b % Day \in Int
  BY <1>0 DEF DayOf
<1>4. \A x, y, r, s \in Int : Day * x + r <= Day * y + s /\ 0 <= r /\ s < Day => x <= y
  <2> SUFFICES ASSUME NEW x \in Int, NEW y \in Int, NEW r \in Int, NEW s \in Int,
                      Day * x + r <= Day * y + s, 0 <= r, s < Day, y < x
               PROVE FALSE
    OBVIOUS
  <2>1. x - y \in Int /\ x - y >= 1
    OBVIOUS
  <2>2. Day * (x - y) >= Day
    BY <1>0, <2>1
  <2>3. Day * x = Day * y + Day * (x - y)
    BY <1>0
  <2> QED BY <1>0, <2>2, <2>3
<1> QED BY <1>0, <1>1, <1>2, <1>3, <1>4

(* Least-number principle, from the well-foundedness of < on Nat.          *)
LEMMA LeastNumber ==
  ASSUME NEW S \in SUBSET Nat, S # {}
  PROVE  \E x \in S : \A y \in S : x <= y
<1> DEFINE R == OpToRel(<, Nat)
<1>1. IsWellFoundedOn(R, Nat)
  BY NatLessThanWellFounded
<1>2. \A x, y \in Nat : <<x, y>> \in R <=> x < y
  BY DEF OpToRel
<1>3. \E x \in S : \A y \in S : ~ (<<y, x>> \in R)
  <2> HIDE DEF R
  <2> QED BY <1>1, WFMin
<1>4. \E x \in S : \A y \in S : ~ (y < x)
  <2> HIDE DEF R
  <2> QED BY <1>2, <1>3, Zenon
<1> QED BY <1>4

(* The rows of some days.                                                  *)
OfDays(rows, s) == {x \in rows : DayOf(x.at) \in s}

(* One day at a time, in whatever order: the rows of a set of days are     *)
(* those of one of them and those of the rest.                             *)
LEMMA DaysSplit ==
  ASSUME NEW rows, IsFiniteSet(rows), NEW s, NEW d \in s
  PROVE  Cardinality(OfDays(rows, s)) =
           Cardinality({x \in rows : DayOf(x.at) = d}) + Cardinality(OfDays(rows, s \ {d}))
<1> DEFINE one  == {x \in rows : DayOf(x.at) = d}
           rest == OfDays(rows, s \ {d})
<1>1. IsFiniteSet(one) /\ IsFiniteSet(rest)
  BY FS_Subset DEF OfDays
<1>2. OfDays(rows, s) = one \cup rest /\ one \cap rest = {}
  BY DEF OfDays
<1> HIDE DEF one, rest
<1>3. Cardinality(one \cup rest) = Cardinality(one) + Cardinality(rest) - Cardinality(one \cap rest)
  BY <1>1, FS_Union
<1>4. Cardinality(one) \in Nat /\ Cardinality(rest) \in Nat /\ Cardinality(one \cap rest) = 0
  BY <1>1, <1>2, FS_CardinalityType, FS_EmptySet
<1>5. Cardinality(OfDays(rows, s)) = Cardinality(one) + Cardinality(rest)
  BY <1>2, <1>3, <1>4
<1> QED BY <1>5 DEF one, rest

(* The fold goes through the days it is given one by one and meets each    *)
(* of them once.  The function the fold is defined by is the only one that *)
(* satisfies its equation: two that did would differ on a smallest set of  *)
(* days, and agree on that set without the day the fold takes from it.     *)
LEMMA SeriesFold ==
  ASSUME NEW rows, IsFiniteSet(rows), NEW series, NEW D, D = DOMAIN series, IsFiniteSet(D),
         \A d \in D : series[d] = Cardinality({x \in rows : DayOf(x.at) = d})
  PROVE  AddedUp(series) = Cardinality(OfDays(rows, D))
<1> DEFINE one(s)     == CHOOSE d \in s : TRUE
           body(g, s) == IF s = {} THEN 0 ELSE series[one(s)] + g[s \ {one(s)}]
           solves(g)  == g = [s \in SUBSET D |-> body(g, s)]
           closed     == [s \in SUBSET D |-> Cardinality(OfDays(rows, s))]
<1>1. \A s \in SUBSET D : s # {} => one(s) \in s /\ s \ {one(s)} \in SUBSET D
  OBVIOUS
<1>2. \A s \in SUBSET D : Cardinality(OfDays(rows, s)) \in Nat
  <2>1. \A s \in SUBSET D : OfDays(rows, s) \in SUBSET rows
    BY DEF OfDays
  <2> QED BY <2>1, FS_Subset, FS_CardinalityType
<1>3. \A s \in SUBSET D : closed[s] = body(closed, s)
  <2> SUFFICES ASSUME NEW s \in SUBSET D
               PROVE  Cardinality(OfDays(rows, s)) = body(closed, s)
    BY Zenon
  <2>1. CASE s = {}
    <3>1. OfDays(rows, s) = {}
      BY <2>1 DEF OfDays
    <3> QED BY <2>1, <3>1, FS_EmptySet
  <2>2. CASE s # {}
    <3>1. one(s) \in s /\ s \ {one(s)} \in SUBSET D
      BY <1>1, <2>2, Zenon
    <3> HIDE DEF one
    <3>2. closed[s \ {one(s)}] = Cardinality(OfDays(rows, s \ {one(s)}))
      BY <3>1
    <3>3. series[one(s)] = Cardinality({x \in rows : DayOf(x.at) = one(s)})
      BY <3>1, Zenon
    <3>4. Cardinality(OfDays(rows, s)) =
            Cardinality({x \in rows : DayOf(x.at) = one(s)}) + Cardinality(OfDays(rows, s \ {one(s)}))
      BY <3>1, DaysSplit
    <3>5. body(closed, s) = series[one(s)] + closed[s \ {one(s)}]
      BY <2>2, Zenon
    <3> QED BY <3>2, <3>3, <3>4, <3>5
  <2> QED BY <2>1, <2>2
<1>4. solves(closed)
  <2> DEFINE image == [s \in SUBSET D |-> body(closed, s)]
  <2>1. closed = [s \in SUBSET D |-> closed[s]]
    OBVIOUS
  <2> HIDE DEF closed, body
  <2>2. [s \in SUBSET D |-> closed[s]] = [s \in SUBSET D |-> body(closed, s)]
    BY <1>3
  <2> QED BY <2>1, <2>2, Zenon
<1>5. ASSUME NEW g, solves(g)
      PROVE  g[D] = Cardinality(OfDays(rows, D))
  <2>1. \A s \in SUBSET D : g[s] = body(g, s)
    <3> HIDE DEF body
    <3> QED BY <1>5
  <2> DEFINE differs(s) == g[s] # Cardinality(OfDays(rows, s))
             sizes      == {n \in Nat : \E s \in SUBSET D : differs(s) /\ Cardinality(s) = n}
  <2>2. \A s \in SUBSET D : IsFiniteSet(s) /\ Cardinality(s) \in Nat
    BY FS_Subset, FS_CardinalityType
  <2>3. ASSUME NEW s \in SUBSET D, differs(s)
        PROVE  FALSE
    <3>1. Cardinality(s) \in sizes
      BY <2>2, <2>3, Zenon
    <3>2. PICK n \in sizes : \A m \in sizes : n <= m
      <4>1. sizes \in SUBSET Nat
        OBVIOUS
      <4> HIDE DEF sizes
      <4> QED BY <3>1, <4>1, LeastNumber
    <3>3. PICK t \in SUBSET D : differs(t) /\ Cardinality(t) = n
      BY <3>2
    <3>4. t # {}
      <4>1. SUFFICES ASSUME t = {} PROVE FALSE
        OBVIOUS
      <4>2. g[t] = 0
        BY <2>1, <4>1
      <4>3. OfDays(rows, t) = {}
        BY <4>1 DEF OfDays
      <4> QED BY <3>3, <4>2, <4>3, FS_EmptySet
    <3> DEFINE u == t \ {one(t)}
    <3>5. one(t) \in t /\ u \in SUBSET D
      BY <1>1, <3>4, Zenon
    <3>6. g[t] = series[one(t)] + g[u]
      BY <2>1, <3>4
    <3> HIDE DEF one
    <3>7. Cardinality(u) = Cardinality(t) - 1
      BY <2>2, <3>5, FS_RemoveElement
    <3>8. ~ differs(u)
      <4>1. SUFFICES ASSUME differs(u) PROVE FALSE
        BY Zenon
      <4> HIDE DEF u
      <4>2. Cardinality(u) \in sizes
        BY <2>2, <3>5, <4>1, Zenon
      <4>3. Cardinality(t) \in Nat
        BY <2>2
      <4> HIDE DEF sizes
      <4> QED BY <3>2, <3>3, <3>7, <4>2, <4>3
    <3>9. Cardinality(OfDays(rows, t)) =
            Cardinality({x \in rows : DayOf(x.at) = one(t)}) + Cardinality(OfDays(rows, u))
      BY <3>5, DaysSplit
    <3>10. series[one(t)] = Cardinality({x \in rows : DayOf(x.at) = one(t)})
      BY <3>5, Zenon
    <3> QED BY <3>3, <3>6, <3>8, <3>9, <3>10
  <2> QED BY <2>3
<1>6. AddedUp(series) = (CHOOSE g : solves(g))[D]
  BY DEF AddedUp, MapThenFoldSet
<1>7. solves(CHOOSE g : solves(g))
  <2> HIDE DEF solves
  <2> QED BY <1>4, Zenon
<1> HIDE DEF solves
<1> QED BY <1>5, <1>6, <1>7

(* A series over a window adds up to the number of rows in it.             *)
LEMMA WindowAddsUp ==
  ASSUME NEW times, IsFiniteSet(times), \A x \in times : x.at \in Nat,
         NEW from \in Nat, NEW to \in Nat, NEW stats,
         stats.series = DailySeries(During(times, from, to), from, to),
         stats.total = Cardinality(During(times, from, to))
  PROVE  AddedUp(stats.series) = stats.total
<1> DEFINE D      == Days(from, to)
           rows   == During(times, from, to)
           series == stats.series
<1>1. IsFiniteSet(D)
  <2>1. DayOf(from) \in Int /\ DayOf(to) \in Int
    BY DaysOrdered
  <2> QED BY <2>1, FS_Interval DEF Days
<1>2. IsFiniteSet(rows)
  BY FS_Subset DEF During
<1>3. DOMAIN series = D /\ \A d \in D : series[d] = Cardinality({x \in rows : DayOf(x.at) = d})
  BY DEF DailySeries
<1>4. OfDays(rows, D) = rows
  <2>1. ASSUME NEW x \in rows
        PROVE  DayOf(x.at) \in D
    <3>1. x.at \in Nat /\ from <= x.at /\ x.at <= to
      BY <2>1 DEF During
    <3> QED BY <3>1, DaysOrdered DEF Days
  <2> QED BY <2>1 DEF OfDays
<1> HIDE DEF D, rows, series
<1>5. AddedUp(series) = Cardinality(OfDays(rows, D))
  BY <1>1, <1>2, <1>3, SeriesFold
<1> QED BY <1>4, <1>5 DEF rows, series

(* The report of accesses shows what it was asked for, counts active what  *)
(* it shows active, shows no session active whose token has expired, and   *)
(* its daily series add up to their totals for every window.               *)
THEOREM AccountsReport == Spec => []ReportAgrees
<1>1. Init => SessionsTimed /\ TimesFinite
  <2>1. Init => SessionsTimed
    BY DEF Init, SessionsTimed, Idle
  <2>2. Init => LoginTimes = {} /\ ViewTimes = {}
    BY DEF Init, LoginTimes, ViewTimes
  <2> QED BY <2>1, <2>2, FS_EmptySet DEF TimesFinite
<1>2. WatchInv /\ WatchInv' /\ SessionsTimed /\ TimesFinite /\ [Next]_vars
        => SessionsTimed' /\ TimesFinite'
  BY TimedKept, FiniteKept DEF WatchInv
<1>3. ASSUME TypeOK, SessionsTimed, TimesFinite
      PROVE  ReportAgrees
  <2>0. /\ now \in Nat /\ TTL \in Nat /\ Time \subseteq Nat
        /\ \A s \in sessions : s.loginAt \in Nat /\ s.open \in BOOLEAN
        /\ \A t \in tokens : t.expiresAt \in Nat
    BY <1>3, AccountsAssumption DEF TypeOK, Session, Token, Time
  <2>1. ASSUME NEW s \in sessions, NEW asked \in Time, NEW filter \in Filter,
               s.loginAt <= asked, asked <= now, Passes(s, filter, asked - TTL)
        PROVE  ShownStatus(s) = filter \/ (filter = "ativa" /\ ShownStatus(s) = "expirada")
    <3>1. asked \in Nat /\ s.loginAt \in Nat
      BY <2>0
    <3>2. CASE filter = "encerrada"
      BY <2>1, <3>2 DEF Passes, ShownStatus
    <3>3. CASE filter = "ativa"
      BY <2>1, <3>3 DEF Passes, ShownStatus
    <3>4. CASE filter = "expirada"
      <4>1. s.open /\ s.loginAt < asked - TTL
        BY <2>1, <3>4 DEF Passes
      <4>2. now > s.loginAt + TTL
        BY <2>0, <2>1, <3>1, <4>1
      <4> QED BY <3>4, <4>1, <4>2 DEF ShownStatus
    <3> QED BY <3>2, <3>3, <3>4 DEF Filter
  <2>2. ActiveCounted
    <3>1. \A s \in sessions : Passes(s, "ativa", now - TTL) <=> ShownStatus(s) = "ativa"
      BY <2>0 DEF Passes, ShownStatus
    <3>2. {s \in sessions : Passes(s, "ativa", now - TTL)} = {s \in sessions : ShownStatus(s) = "ativa"}
      BY <3>1, Zenon
    <3>3. AccessStats(0, now).activeNow = Cardinality({s \in sessions : Passes(s, "ativa", now - TTL)})
      BY DEF AccessStats
    <3> QED BY <3>2, <3>3, Zenon DEF ActiveCounted
  <2>3. TokensOutlived
    BY <1>3, <2>0 DEF TokensOutlived, SessionsTimed, ShownStatus
  <2>4. ASSUME NEW from \in Time, NEW to \in Time,
               NEW stats \in {AccessStats(from, to), ActivityStats(from, to)}
        PROVE  AddedUp(stats.series) = stats.total
    <3>1. /\ \A x \in LoginTimes : x.at \in Nat
          /\ \A x \in ViewTimes : x.at \in Nat
      BY <1>3 DEF TypeOK, Session, View, LoginTimes, ViewTimes
    <3>2. PICK times \in {LoginTimes, ViewTimes} :
             /\ stats.series = DailySeries(During(times, from, to), from, to)
             /\ stats.total = Cardinality(During(times, from, to))
      BY DEF AccessStats, ActivityStats
    <3>3. IsFiniteSet(times) /\ \A x \in times : x.at \in Nat
      BY <1>3, <3>1 DEF TimesFinite
    <3>4. from \in Nat /\ to \in Nat
      BY <2>0
    <3> QED BY <3>2, <3>3, <3>4, WindowAddsUp
  <2>5. ShownAsAsked
    BY <2>1, Zenon DEF ShownAsAsked
  <2>6. SeriesAddUp
    BY <2>4 DEF SeriesAddUp
  <2> QED BY <2>2, <2>3, <2>5, <2>6 DEF ReportAgrees
<1>4. WatchInv /\ SessionsTimed /\ TimesFinite => ReportAgrees
  BY <1>3 DEF WatchInv
<1> QED BY <1>1, <1>2, <1>4, WatchHolds, PTL DEF Spec
=============================================================================
