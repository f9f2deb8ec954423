------------------------------- MODULE Accounts -------------------------------
(***************************************************************************)
(* User accounts and what hangs from them: refresh tokens and the access   *)
(* sessions of the audit (AuthService), the acceptance of the terms, the   *)
(* administration of users (UsersService), and the two audit features that *)
(* depend on time: the report of accesses and the record of readings       *)
(* (AuditService).                                                         *)
(*                                                                         *)
(* As in EntityRegistry, a handler is split at every await after which it  *)
(* uses something read or written before; "next" names the statement it is *)
(* about to send.  A handler that never answers again (a refused           *)
(* statement, a restart) is Fail.  JwtStrategy.validate is the guard       *)
(* Validated of the first action of every request that carries a token.    *)
(*                                                                         *)
(* Time is a number of ticks.  A token, a session, an acceptance and a     *)
(* reading take their ids from one counter, so that one bound limits how   *)
(* many rows a behaviour creates.                                          *)
(***************************************************************************)
EXTENDS Integers, FiniteSets, Folds

CONSTANTS
  User,        \* accounts; an account is its e-mail, which is unique
  Handler,     \* requests that may be in flight at once
  Password,    \* passwords
  Version,     \* versions of the terms
  Occurrence,  \* occurrences whose situation room is opened
  History,     \* tables hardDelete counts; operators stands for managed users
  TTL,         \* life of a refresh token, and REFRESH_TTL_MS of the audit
  ViewWindow,  \* the 30 seconds of recordView
  Day,         \* ticks in a day
  Mixes,       \* bound: sets of operations; a behaviour calls those of one of them
  MaxTime,     \* bound: the clock
  MaxRows,     \* bound: rows created in a behaviour
  StatusAsked, \* statuses the bodies of PUT /users/:id/status carry
  Never        \* a null column

Operation == {"login", "refresh", "logout", "logoutAll", "password", "terms", "view",
              "update", "status", "work", "exclude", "time"}
HistoryTable == {"occurrences", "timeline", "chat", "trainings", "epis", "operators"}

ASSUME AccountsAssumption ==
  /\ Never \notin Int \cup Version
  /\ Mixes \subseteq SUBSET Operation
  /\ History \subseteq HistoryTable
  /\ StatusAsked \subseteq {"ACTIVE", "INACTIVE", "SUSPENDED"}
  /\ TTL \in Nat /\ ViewWindow \in Nat /\ Day \in Nat \ {0}
  /\ MaxTime \in Nat /\ MaxRows \in Nat

VARIABLES
  account,      \* User -> status, password and gating of the row ("none": no row)
  swept,        \* User -> has the last change of the password revoked the tokens (history)
  history,      \* User -> tables that hold rows naming the user
  tokens,       \* rows of RefreshToken
  sessions,     \* rows of AccessSession
  acceptances,  \* rows of TermsAcceptance
  views,        \* rows of AuditLog written by recordView
  rowSeq,       \* ids handed out
  now,          \* the clock
  calls,        \* the operations this behaviour calls; never changes
  req           \* Handler -> local state of the request it serves

rowVars  == <<tokens, sessions, acceptances, views, rowSeq>>
userVars == <<account, swept, history>>
vars     == <<userVars, rowVars, now, calls, req>>

Time == 0 .. MaxTime
Null(S) == S \cup {Never}

(* secret and late are history: the password the chain of tokens began     *)
(* with, and whether the request that issued it was already being served   *)
(* when the tokens were last swept.                                        *)
Token ==
  [id : Nat, user : User, from : Null(Nat), session : Null(Nat), revoked : BOOLEAN,
   expiresAt : Nat, secret : Password, late : BOOLEAN]
Session    == [id : Nat, user : User, loginAt : Nat, open : BOOLEAN]
Acceptance == [id : Nat, user : User, version : Version, at : Nat]
View       == [id : Nat, user : User, occ : Occurrence, at : Nat]
Account    == [status : {"none", "ACTIVE", "INACTIVE", "SUSPENDED", "deleted"},
               password : Password, version : Null(Version), at : Null(Nat)]

Filter == {"ativa", "encerrada", "expirada"}

Idle == [next |-> "idle"]
HandlerState ==
       {Idle}
  \cup [next : {"open"}, user : User, secret : Password, late : BOOLEAN]
  \cup [next : {"rotate", "issue"}, user : User, from : Null(Nat), session : Null(Nat),
        secret : Password, late : BOOLEAN]
  \cup [next : {"hash", "sweep"}, user : User, secret : Password]
  \cup [next : {"find", "closeAll"}, user : User]
  \cup [next : {"close"}, session : Nat]
  \cup [next : {"gate"}, user : User, version : Version, at : Nat]
  \cup [next : {"record"}, user : User, occ : Occurrence, at : Nat, seen : Nat, blind : BOOLEAN]
  \cup [next : {"count"}, user : User, uncounted : SUBSET History, found : SUBSET History,
        held : SUBSET History]

-----------------------------------------------------------------------------
RowExists(u) == account[u].status \notin {"none", "deleted"}
Live(t)      == ~ t.revoked
Become(h, s) == req' = [req EXCEPT ![h] = s]
NewRow       == rowSeq < MaxRows /\ rowSeq' = rowSeq + 1

(* JwtStrategy.validate: the row is read again at every request. *)
Validated(u) == account[u].status = "ACTIVE"

(* The first action of a request: its handler was free. *)
Begin(h, s) == req[h] = Idle /\ Become(h, s)

Init ==
  /\ account \in [User -> [status : {"none"}, password : Password,
                           version : {Never}, at : {Never}]]
  /\ swept       = [u \in User |-> FALSE]
  /\ history     = [u \in User |-> {}]
  /\ tokens      = {}
  /\ sessions    = {}
  /\ acceptances = {}
  /\ views       = {}
  /\ rowSeq      = 0
  /\ now         = 0
  /\ calls \in Mixes
  /\ req         = [h \in Handler |-> Idle]

-----------------------------------------------------------------------------
(* Mutant: a status the enumeration does not have.                         *)
PendingStatus == "PENDING"

(* UsersService.  create looks the e-mail up and inserts; its unique key   *)
(* settles two of them.  update with a password writes the hash and leaves *)
(* the tokens alone.                                                       *)
NewStatus == "ACTIVE"
CreateUser(u, p) ==
  /\ account[u].status = "none"
  /\ account' = [account EXCEPT ![u].status = NewStatus, ![u].password = p]
  /\ UNCHANGED <<swept, history, rowVars, now, req>>

UpdateUser(u, p) ==
  /\ RowExists(u)
  /\ account' = [account EXCEPT ![u].password = p]
  /\ swept'   = [swept EXCEPT ![u] = FALSE]
  /\ UNCHANGED <<history, rowVars, now, req>>

UpdateStatus(u, s) ==
  /\ RowExists(u)
  /\ account' = [account EXCEPT ![u].status = s]
  /\ UNCHANGED <<swept, history, rowVars, now, req>>

(* Another component writes a row that names the user.                     *)
Work(u, table) ==
  /\ Validated(u)
  /\ history' = [history EXCEPT ![u] = @ \cup {table}]
  /\ UNCHANGED <<account, swept, rowVars, now, req>>

(* hardDelete: six counts side by side.  held is history: the tables that  *)
(* held a row when the request came.                                       *)
StartHardDelete(h, u) ==
  /\ RowExists(u)
  /\ Begin(h, [next |-> "count", user |-> u, uncounted |-> History, found |-> {},
               held |-> history[u]])
  /\ UNCHANGED <<userVars, rowVars, now>>

(* Mutant: the exclusion counts what the user reported and said, and       *)
(* forgets the rest.                                                       *)
CountedSome(u, table) == table \in history[u] \cap {"occurrences", "chat"}

Counted(u, table) == table \in history[u]

CountHistory(h, table) ==
  /\ req[h].next = "count"
  /\ table \in req[h].uncounted
  /\ Become(h, [req[h] EXCEPT !.uncounted = @ \ {table},
                              !.found = IF Counted(req[h].user, table)
                                        THEN @ \cup {table} ELSE @])
  /\ UNCHANGED <<userVars, rowVars, now>>

(* The keys of occurrences and of chat messages refuse the deletion; those *)
(* of tokens, sessions and acceptances cascade; an audit row stays.        *)
Others(rows, u) == {r \in rows : r.user # u}
HardDelete(h) ==
  /\ req[h].next = "count"
  /\ req[h].uncounted = {}
  /\ LET u == req[h].user
     IN  IF /\ req[h].found = {}
            /\ RowExists(u)
            /\ history[u] \cap {"occurrences", "chat"} = {}
         THEN /\ account'     = [account EXCEPT ![u].status = "deleted"]
              /\ tokens'      = Others(tokens, u)
              /\ sessions'    = Others(sessions, u)
              /\ acceptances' = Others(acceptances, u)
         ELSE UNCHANGED <<account, tokens, sessions, acceptances>>
  /\ Become(h, Idle)
  /\ UNCHANGED <<swept, history, views, rowSeq, now>>

-----------------------------------------------------------------------------
(* login: the row and the password (lastLoginAt, written next, is read by  *)
(* nobody else); the session of the audit, whose failure is swallowed; the *)
(* token.                                                                  *)
Login(h, u, p) ==
  /\ Validated(u)
  /\ account[u].password = p
  /\ Begin(h, [next |-> "open", user |-> u, secret |-> p, late |-> FALSE])
  /\ UNCHANGED <<userVars, rowVars, now>>

ToIssue(h, from, session) ==
  [next |-> "issue", user |-> req[h].user, from |-> from, session |-> session,
   secret |-> req[h].secret, late |-> req[h].late]

OpenSession(h) ==
  /\ req[h].next = "open"
  /\ RowExists(req[h].user)
  /\ NewRow
  /\ sessions' = sessions \cup
       {[id |-> rowSeq', user |-> req[h].user, loginAt |-> now, open |-> TRUE]}
  /\ Become(h, ToIssue(h, Never, rowSeq'))
  /\ UNCHANGED <<userVars, tokens, acceptances, views, now>>

SessionNotOpened(h) ==
  /\ req[h].next = "open"
  /\ Become(h, ToIssue(h, Never, Never))
  /\ UNCHANGED <<userVars, rowVars, now>>

(* generateTokens: the insert that ends a login, a refresh and a change of *)
(* password, refused without the user.                                     *)
IssueToken(h) ==
  LET q == req[h]
  IN  /\ q.next = "issue"
      /\ RowExists(q.user)
      /\ NewRow
      /\ tokens' = tokens \cup
           {[id |-> rowSeq', user |-> q.user, from |-> q.from, session |-> q.session,
             revoked |-> FALSE, expiresAt |-> now + TTL,
             secret |-> q.secret, late |-> q.late]}
      /\ Become(h, Idle)
      /\ UNCHANGED <<userVars, sessions, acceptances, views, now>>

(* refreshTokens: token and user are read together.                        *)
Usable(t) == Live(t) /\ ~ (t.expiresAt < now) /\ account[t.user].status = "ACTIVE"

(* Mutant: the token is replaced, and the one replaced is left to expire.  *)
StraightToIssue == "issue"

AfterCheck == "rotate"
CheckRefresh(h, t) ==
  /\ Usable(t)
  /\ Begin(h, [next |-> AfterCheck, user |-> t.user, from |-> t.id, session |-> t.session,
               secret |-> t.secret, late |-> t.late])
  /\ UNCHANGED <<userVars, rowVars, now>>

Revoked(chosen) == {IF t \in chosen THEN [t EXCEPT !.revoked = TRUE] ELSE t : t \in tokens}

(* The update by id does not ask whether another refresh revoked it first. *)
RotateToken(h) ==
  /\ req[h].next = "rotate"
  /\ \E t \in tokens : t.id = req[h].from
  /\ tokens' = Revoked({t \in tokens : t.id = req[h].from})
  /\ Become(h, [req[h] EXCEPT !.next = "issue"])
  /\ UNCHANGED <<userVars, sessions, acceptances, views, rowSeq, now>>

-----------------------------------------------------------------------------
(* logout with a token: that token, then the user's most recent open       *)
(* session, whichever login opened it.                                     *)
Logout(h, t) ==
  /\ Validated(t.user)
  /\ Begin(h, [next |-> "find", user |-> t.user])
  /\ tokens' = Revoked({t})
  /\ UNCHANGED <<userVars, sessions, acceptances, views, rowSeq, now>>

OpenSessions(u) == {s \in sessions : s.user = u /\ s.open}

Closed(chosen) == {IF s \in chosen THEN [s EXCEPT !.open = FALSE] ELSE s : s \in sessions}

FindOpenSession(h) ==
  LET candidates == OpenSessions(req[h].user)
  IN  /\ req[h].next = "find"
      /\ IF candidates = {} THEN Become(h, Idle)
         ELSE \E s \in candidates :
                /\ \A x \in candidates : x.loginAt <= s.loginAt
                /\ Become(h, [next |-> "close", session |-> s.id])
      /\ UNCHANGED <<userVars, rowVars, now>>

CloseSession(h) ==
  /\ req[h].next = "close"
  /\ sessions' = Closed({s \in sessions : s.id = req[h].session})
  /\ Become(h, Idle)
  /\ UNCHANGED <<userVars, tokens, acceptances, views, rowSeq, now>>

LiveTokens(u) == {t \in tokens : t.user = u /\ Live(t)}

(* logout without a token: every live token, then every open session.      *)
LogoutAll(h, u) ==
  /\ Validated(u)
  /\ Begin(h, [next |-> "closeAll", user |-> u])
  /\ tokens' = Revoked(LiveTokens(u))
  /\ UNCHANGED <<userVars, sessions, acceptances, views, rowSeq, now>>

CloseAllSessions(h) ==
  /\ req[h].next = "closeAll"
  /\ sessions' = Closed(OpenSessions(req[h].user))
  /\ Become(h, Idle)
  /\ UNCHANGED <<userVars, tokens, acceptances, views, rowSeq, now>>

-----------------------------------------------------------------------------
(* changePassword: the current password is compared with the row read, the *)
(* new hash written, every live token revoked, and a new one issued.       *)
ChangePassword(h, u, current, new) ==
  /\ Validated(u)
  /\ account[u].password = current
  /\ Begin(h, [next |-> "hash", user |-> u, secret |-> new])
  /\ UNCHANGED <<userVars, rowVars, now>>

WriteHash(h) ==
  /\ req[h].next = "hash"
  /\ RowExists(req[h].user)
  /\ account' = [account EXCEPT ![req[h].user].password = req[h].secret]
  /\ swept'   = [swept EXCEPT ![req[h].user] = FALSE]
  /\ Become(h, [req[h] EXCEPT !.next = "sweep"])
  /\ UNCHANGED <<history, rowVars, now>>

(* Mutant: the device that asked keeps the token it came with.             *)
AllButNewest(u) == {t \in LiveTokens(u) : \E x \in LiveTokens(u) : x.id > t.id}

Swept(u) == LiveTokens(u)

(* The requests of the user being served now may issue a token later on.   *)
MarkedLate(s, u) ==
  IF s.next \in {"open", "rotate", "issue"} /\ s.user = u
  THEN [s EXCEPT !.late = TRUE] ELSE s

SweepTokens(h) ==
  LET u == req[h].user
  IN  /\ req[h].next = "sweep"
      /\ tokens' = Revoked(Swept(u))
      /\ swept'  = [swept EXCEPT ![u] = account[u].password = req[h].secret]
      /\ req' = [x \in Handler |->
                   IF x = h THEN [next |-> "issue", user |-> u, from |-> Never,
                                  session |-> Never, secret |-> req[h].secret, late |-> FALSE]
                   ELSE MarkedLate(req[x], u)]
      /\ UNCHANGED <<account, history, sessions, acceptances, views, rowSeq, now>>

-----------------------------------------------------------------------------
(* acceptTerms: the row that proves it, then the gating on the user.       *)
AcceptTerms(h, u, v) ==
  /\ Validated(u)
  /\ NewRow
  /\ acceptances' = acceptances \cup {[id |-> rowSeq', user |-> u, version |-> v, at |-> now]}
  /\ Begin(h, [next |-> "gate", user |-> u, version |-> v, at |-> now])
  /\ UNCHANGED <<userVars, tokens, sessions, views, now>>

(* Mutant: the user is stamped with the instant of the update.             *)
StampedNow(q) == now
StampedAt(q)  == q.at

GateUser(h) ==
  /\ req[h].next = "gate"
  /\ RowExists(req[h].user)
  /\ account' = [account EXCEPT ![req[h].user].version = req[h].version,
                                ![req[h].user].at      = StampedAt(req[h])]
  /\ Become(h, Idle)
  /\ UNCHANGED <<swept, history, rowVars, now>>

-----------------------------------------------------------------------------
(* recordView: a look for a recent row of this user and room, then record. *)
(* A look-up that fails counts as nothing found (blind); record swallows   *)
(* its own failure.                                                        *)
SameView(v, u, o) == v.user = u /\ v.occ = o

(* Mutant: the window shrinks by a tick.                                   *)
RecentStrict(v) == v.at > now - ViewWindow

Recent(v) == v.at >= now - ViewWindow

LookForView(h, u, o, blind) ==
  /\ Validated(u)
  /\ blind \/ ~ \E v \in views : SameView(v, u, o) /\ Recent(v)
  /\ Begin(h, [next |-> "record", user |-> u, occ |-> o, at |-> now,
               seen |-> rowSeq, blind |-> blind])
  /\ UNCHANGED <<userVars, rowVars, now>>

RecordView(h) ==
  /\ req[h].next = "record"
  /\ RowExists(req[h].user)
  /\ NewRow
  /\ views' = views \cup
       {[id |-> rowSeq', user |-> req[h].user, occ |-> req[h].occ, at |-> now]}
  /\ Become(h, Idle)
  /\ UNCHANGED <<userVars, tokens, sessions, acceptances, now>>

-----------------------------------------------------------------------------
(* The report of accesses: listAccess chooses rows by a cutoff that it     *)
(* takes from the clock when it is asked, ...                              *)
Passes(s, filter, cutoff) ==
  CASE filter = "encerrada" -> ~ s.open
    [] filter = "ativa"     -> s.open /\ s.loginAt >= cutoff
    [] filter = "expirada"  -> s.open /\ s.loginAt < cutoff

(* ... and formatSession shows each of them by the clock of its answer.    *)
ShownStatus(s) ==
  IF ~ s.open THEN "encerrada" ELSE IF now > s.loginAt + TTL THEN "expirada" ELSE "ativa"

DayOf(t) == t \div Day

(* Mutant: the last day is left out.                                       *)
DaysBefore(from, to) == DayOf(from) .. DayOf(to) - 1

(* fillDailySeries: every day of the window, zero where nothing happened.  *)
Days(from, to) == DayOf(from) .. DayOf(to)
DailySeries(times, from, to) ==
  [d \in Days(from, to) |-> Cardinality({x \in times : DayOf(x.at) = d})]

During(times, from, to) == {x \in times : from <= x.at /\ x.at <= to}

(* accessStats and activityStats. *)
LoginTimes == {[id |-> s.id, at |-> s.loginAt] : s \in sessions}
ViewTimes  == {[id |-> v.id, at |-> v.at] : v \in views}
AccessStats(from, to) ==
  LET chosen == During(LoginTimes, from, to)
  IN  [total |-> Cardinality(chosen), series |-> DailySeries(chosen, from, to),
       activeNow |-> Cardinality({s \in sessions : Passes(s, "ativa", now - TTL)})]
ActivityStats(from, to) ==
  LET chosen == During(ViewTimes, from, to)
  IN  [total |-> Cardinality(chosen), series |-> DailySeries(chosen, from, to)]

-----------------------------------------------------------------------------
Fail(h) ==
  /\ req[h] # Idle
  /\ Become(h, Idle)
  /\ UNCHANGED <<userVars, rowVars, now>>

Tick ==
  /\ now < MaxTime
  /\ now' = now + 1
  /\ UNCHANGED <<userVars, rowVars, req>>

(* The operations a caller may choose, by name. *)
Administration(op, u) ==
  \/ \E p \in Password : \/ CreateUser(u, p)
                         \/ op = "update" /\ UpdateUser(u, p)
  \/ op = "status" /\ \E s \in StatusAsked : UpdateStatus(u, s)
  \/ op = "work"   /\ \E table \in History : Work(u, table)

Starts(op, h, u) ==
  \/ op = "login"     /\ \E p \in Password : Login(h, u, p)
  \/ op = "password"  /\ \E p, q \in Password : ChangePassword(h, u, p, q)
  \/ op = "refresh"   /\ \E t \in tokens : CheckRefresh(h, t)
  \/ op = "logout"    /\ \E t \in tokens : Logout(h, t)
  \/ op = "logoutAll" /\ LogoutAll(h, u)
  \/ op = "terms"     /\ \E v \in Version : AcceptTerms(h, u, v)
  \/ op = "view"      /\ \E o \in Occurrence, blind \in BOOLEAN : LookForView(h, u, o, blind)
  \/ op = "exclude"   /\ StartHardDelete(h, u)

Continues(h) ==
  \/ OpenSession(h) \/ SessionNotOpened(h) \/ RotateToken(h) \/ IssueToken(h)
  \/ FindOpenSession(h) \/ CloseSession(h) \/ CloseAllSessions(h)
  \/ WriteHash(h) \/ SweepTokens(h) \/ GateUser(h) \/ RecordView(h)
  \/ (\E table \in History : CountHistory(h, table)) \/ HardDelete(h)
  \/ Fail(h)

Next ==
  /\ UNCHANGED calls
  /\ \/ "time" \in calls /\ Tick
     \/ \E op \in calls, u \in User :
          Administration(op, u) \/ \E h \in Handler : Starts(op, h, u)
     \/ \E h \in Handler : Continues(h)

Spec == Init /\ [][Next]_vars

-----------------------------------------------------------------------------
TypeOK ==
  /\ account     \in [User -> Account]
  /\ swept       \in [User -> BOOLEAN]
  /\ history     \in [User -> SUBSET History]
  /\ tokens      \subseteq Token
  /\ sessions    \subseteq Session
  /\ acceptances \subseteq Acceptance
  /\ views       \subseteq View
  /\ rowSeq      \in Nat
  /\ now         \in Nat
  /\ calls       \in Mixes
  /\ req         \in [Handler -> HandlerState]

(* Once a change of password has revoked the tokens, every live token of   *)
(* the user descends from a login with the password of now, unless the     *)
(* request that issued it, or one it descends from, was already being      *)
(* served at that moment (auth.service.ts:212, "outros dispositivos caem").*)
(* The claim starts again when an administrator writes the password, or a  *)
(* change fails between its two statements: neither revokes anything.      *)
TokensOfCurrentPassword ==
  \A t \in tokens : swept[t.user] /\ Live(t) /\ ~ t.late => t.secret = account[t.user].password

(* A token that has a successor is revoked, whatever fails between the two *)
(* statements of a rotation: a failed refresh may cost the user a login,   *)
(* and never leaves two tokens of one rotation in use (auth.service.ts:141)*)
RotationRevokesFirst ==
  \A t \in tokens : t.from # Never => \E x \in tokens : x.id = t.from /\ ~ Live(x)

(* The gating of a user is backed by an acceptance of that version at that *)
(* instant: proof first, gating after, so that a failure in between leaves *)
(* a proof without gating and never the reverse (auth.service.ts:276).     *)
TermsGatingProved ==
  \A u \in User : RowExists(u) /\ account[u].version # Never =>
    \E a \in acceptances : a.user = u /\ a.version = account[u].version /\ a.at = account[u].at

(* A page of the report asked for with a status shows sessions of that     *)
(* status, save an active one that expired while the query ran             *)
(* (audit.service.ts:115).                                                 *)
ShownAsAsked ==
  \A s \in sessions, asked \in Time, filter \in Filter :
    s.loginAt <= asked /\ asked <= now /\ Passes(s, filter, asked - TTL) =>
      ShownStatus(s) = filter \/ (filter = "ativa" /\ ShownStatus(s) = "expirada")

(* The sessions counted active are those shown active (:171).              *)
ActiveCounted ==
  AccessStats(0, now).activeNow = Cardinality({s \in sessions : ShownStatus(s) = "ativa"})

(* A daily series adds up to its total for every window (:260).            *)
AddedUp(series) ==
  MapThenFoldSet(+, 0, LAMBDA d : series[d], LAMBDA S : CHOOSE d \in S : TRUE, DOMAIN series)
SeriesAddUp ==
  \A from, to \in Time : \A stats \in {AccessStats(from, to), ActivityStats(from, to)} :
    AddedUp(stats.series) = stats.total

(* The session of a login is no longer active once the token of that login *)
(* has expired.                                                            *)
TokensOutlived ==
  \A t \in tokens, s \in sessions :
    t.from = Never /\ t.session = s.id /\ t.expiresAt < now => ShownStatus(s) # "ativa"

(* The access report agrees with itself, at whatever instant it is asked   *)
(* for and answered.                                                       *)
ReportAgrees == ShownAsAsked /\ ActiveCounted /\ SeriesAddUp /\ TokensOutlived

(* Two readings of one room by one user are recorded within the window     *)
(* only if the second looked before the first was stored, or its look-up   *)
(* failed (audit.service.ts:45, "não gravamos duplicata").                 *)
ViewsApart ==
  [][\A h \in Handler : req[h].next = "record" /\ views' # views /\ req'[h] = Idle =>
       \A v \in views : SameView(v, req[h].user, req[h].occ) /\ v.id <= req[h].seen =>
         req[h].blind \/ req[h].at - v.at > ViewWindow]_vars

(* A user who was named by a row of any counted table when the exclusion   *)
(* was asked for is not excluded by it (users.service.ts:181).             *)
HistoryBlocksExclusion ==
  [][\A h \in Handler :
       /\ req[h].next = "count" /\ req[h].held # {} /\ RowExists(req[h].user)
       /\ req[h].uncounted = {} /\ req'[h] # req[h]
       => account'[req[h].user].status # "deleted"]_vars
=============================================================================
