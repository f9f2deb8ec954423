# PAE Hub API: models, checks and proofs

This directory holds TLA+ models of the PAE Hub API (`src/`), the TLC runs that
check them on small instances and the proofs that TLAPS checks for every
instance. The API is a NestJS server over PostgreSQL (through Prisma) for the
emergency action plans of port terminals: occurrences are opened, external
entities are called, a situation room works the response, and around that
stand registers of plans, risks, trainings, equipment and users.

## 1. The system

One Node process serves HTTP requests and socket connections; all lasting
state is in PostgreSQL. A request handler is a chain of awaited Prisma
statements. Between two awaits it runs alone; at an await any other handler
may run. Almost no handler opens a transaction over several statements, so:

* what a handler read may be stale when it writes (check-then-insert,
  count-then-delete, previous status, copied plan steps);
* a refused statement in the middle leaves the earlier ones in place;
* a restart of the process ends every handler where it stands, and nothing
  resumes it;
* socket messages are emitted when the handler is resumed, not when the row is
  committed.

A single statement, a nested write included, is one transaction. That is the
grain of every model here.

### Inventory

| Part | State | Operations | Hard behaviour | What makes it correct |
|---|---|---|---|---|
| Occurrences: opening (`emergency.service.ts` `create`, `autoDispatchEntities`, `nextIncNumber`) | `Occurrence`, `occurrenceSeq`, first timeline events, `EntityNotification` | draw a number, insert, read rules, one notification and one event per rule, announce, audit | no transaction over the steps; races with the administration, the seed and a restart | numbers unique; what is announced, audited and on the timeline is what was dispatched |
| Occurrences: situation room (same file) | status, `resolvedAt`, timeline, `ChecklistItem`, `ChatMessage` | `updateStatus`, `activatePlan`, `addTimelineEvent`, checklist, chat, evidences, `remove` | values read before the write; checklist replaced under other requests | row agrees with timeline; one plan's checklist at a time |
| Entities, permissions, rules, notifications | four tables joined by cascading foreign keys | CRUD, `hardDelete`, `setForEntity`, status of a notification | check-then-insert, count-then-cascade | no orphans, one rule per entity and type, history kept |
| Emergency plans | plan, steps, linked risks | CRUD | edited while being activated; risks looked up before they are linked | an activation copies one version; risks of one terminal |
| Authentication and sessions, users | `User`, `RefreshToken`, `AccessSession`, `TermsAcceptance` | login, refresh, logout, password change, terms, status, `hardDelete` | token checked before it is revoked; two statements where one may fail; a sweep that overtakes requests | a rotation leaves one token; a changed password leaves only its own; gating is proved |
| Audit, access report | `AuditLog`, reading of `AccessSession` | `record`, `recordView` with a 30 s window, lists and statistics | errors swallowed; look-up before insert; the same instant compared in several places | what is logged happened; the report agrees with itself |
| Tenant scope, terminals | `User`, `Permission`, `Terminal` | scope of a list, access to a record, CRUD, generated codes, `hardDelete` | one rule written in several places over columns edited freely; counts before a deletion | lists and record access agree; no record outlives its terminal |
| Risks, map elements, documents, alerts | rows of one terminal | CRUD, acknowledge, resolve | the terminal may go while they are written | as above |
| Trainings, EPIs, compliance, module enforcement | shared records, assignments, deliveries, active modules | CRUD, assign, complete, deliver, return, module toggles | modules checked one terminal at a time; look-up before insert; expiry compared in two places | a listed terminal had its module; nobody open twice; assign and complete agree |
| Files, backfill script | stored objects and `FileAsset` | upload with conversion, ranged download, conversion of old recordings | two stores written one after the other; a row moved under a download | no row without its whole object; the range asked for is the range sent |
| Realtime gateway | rooms, presence | `emitToOrganization` and others | ordering of messages | clients never told of what did not happen |
| Safety items, war rooms, dashboard, AI command, geocoding, guards, filters | see section 6 | | | |

`PROJECT.json` lists the same parts one by one, with what is modelled of each,
and under `hazards` the places where the code is hard to test.

## 2. The modules

```
EntityRegistry            administrative tables and handlers
   ├─ EntityRegistryProofs   what the administrative steps preserve
   └─ Dispatch            opening an occurrence, composed with EntityRegistry,
        │                 the seed script and restarts
        ├─ DispatchCallOut   refinement mapping:  Dispatch implements CallOut
        │    └─ MCDispatch   instances for TLC
        └─ DispatchProofs    theorems on numbers, tables, rules and history
             └─ DispatchCallOutProofs   theorems on what a creation tells, how
                                        it ends, and the refinement of CallOut
CallOut                   abstract contract of opening an occurrence
SituationRoom             life of an occurrence after it is opened, with plans
   └─ SituationRoomCaseFile   refinement mapping:  SituationRoom implements
        │                     CaseFile
        ├─ MCSituationRoom      instances for TLC
        └─ SituationRoomProofs  theorems, and the refinement of CaseFile
CaseFile                  abstract contract of the situation room
Accounts                  users, tokens, access sessions, terms, audit in time
   ├─ MCAccounts          instance for TLC
   └─ AccountsProofs      theorems
Tenancy                   terminals, scopes, the records of one terminal
   ├─ MCTenancy           instance for TLC
   └─ TenancyProofs       theorems
SafetyRecords             shared records, modules, assignments, deliveries
   ├─ MCSafetyRecords     instance for TLC
   └─ SafetyRecordsProofs theorems
FileStore                 objects and their rows, downloads, chat, the backfill
   ├─ MCFileStore         instance for TLC
   └─ FileStoreProofs     theorems
```

The four modules of the second half have one shape. `req` gives each request
in flight the local variables of its handler; `next` in it names the statement
it is about to send. `Begin` is the first statement of a request, `Become` moves
it on, and `Fail` (`Leave` in FileStore) ends it at any await: a refused
statement, a connection that breaks, a restart of the process. Every model has
history variables or fields, marked as such where they are declared; no guard
reads them.

### EntityRegistry

`entityStatus`, `permission`, `rules` and `notifications` are the four tables.
An entity that was permanently excluded is `"deleted"`; ids are never reused
(UUIDs). `adminReq` holds the local variables of the handlers in flight that
span several statements: `NotificationRulesService.create` (`CheckRule`,
`InsertRule`) and `EntitiesService.hardDelete` (`StartHardDelete`, one
`CountRows` per table in any order, since the three counts are sent side by
side, then `HardDelete`). The other handlers are one action each. Their first
statement only asks whether the row is there; the write that follows fails by
itself when the row has gone, so the two are not told apart.

A rule has an id of its own, so that two rules for one entity and type can be
told apart; a notification is named by its occurrence and the rule it was
created for, because the loop that inserts it runs once for each of them. The
real row has an id of its own and no reference to the rule; the rule is kept in
the model to say which call the row stands for.

### Dispatch

A creation is a `Request`; `stage[r]` says where its handler stands:

| stage | next action | code (`emergency.service.ts`) |
|---|---|---|
| `idle` | `NextIncNumber` | 98-115, 541-548 |
| `numbered` | `InsertOccurrence` (occurrence and first event, or refused by the unique key) | 117-148 |
| `inserted` | `ReadRules` | 198-207 |
| `dispatching` | `CreateNotification` for one rule left, or `EndDispatch` | 209-218, 241-251 |
| `recording` | `RecordNotification` (timeline row, then message) | 219-239 |
| `dispatched` | `Announce` | 156-178 |
| `announced` | `AuditCreation` | 180-186 |

`CreationFail` is a refused statement at any await but the audit ones, whose
errors `AuditService.record` swallows (there the row may be missing). A
statement that commits but whose answer is lost is the statement followed by
`CreationFail`. `Restart` fails everything in flight. `SeedStart`, `SeedSample`,
`SeedCounter` and `SeedFail` are the block of `prisma/seed.ts` that inserts
`INC-0001` and `INC-0002` and then raises the counter to 2; the entry point runs
it at start-up and goes on when it fails.

Abstractions: one organization (all rows and the counter are per organization);
access checks on the caller, which only narrow who may call, are left out; the
read of the rules with their entities and permissions is one snapshot (Prisma
sends a few `SELECT`s for it); the rules are served in any order (the code
serves them in an unspecified one); the order of a timeline is the order of
insertion.

### CallOut and DispatchCallOut

`CallOut` states what opening an occurrence promises with no table in sight: the
calls owed are decided once, made one by one, and announced only when all are
made; an opening may be abandoned before. `DispatchCallOut` maps Dispatch to it
from what outlives the handlers (rows, timeline, messages, the rules read).

### SituationRoom

Status, resolution date and timeline of each occurrence, its checklist, and the
plans of its terminal. `updateStatus` is `ReadStatus`, `WriteStatus`,
`AnnounceStatus`; `activatePlan` is `ReadPlan`, `ActivatePlan`;
`addChecklistItem` is `ReadLastOrder`, `InsertItem`; `updateChecklistItem` is
`ReadItem`, `TickItem`. `Drop` ends handlers at an await. A plan's checklist is
a number of steps and an item remembers the plan its text comes from. A row of
the timeline has a `type`, which readers are shown, and an `event`, the statement
that wrote it: `AddTimelineEvent` posts a row of any official type, so that a
`"posted"` row may look like one of `updateStatus` or `activatePlan` and change
nothing. Audit rows, and the messages of handlers other than `updateStatus`, are
left out.

### CaseFile and SituationRoomCaseFile

`CaseFile` states what those who follow an occurrence may rely on: it has one
file, and whatever happens to it is one entry of the log of that file, written
at once with what it changes (the status, whether it was ever resolved, the
steps of the plan in force); nobody is told of a change of status more often
than the log has it. `SituationRoomCaseFile` maps the rows, the timeline and the
messages to it, and nothing of the requests in flight: a request that reads,
waits and writes comes down to the entry it writes. The `previousStatus` of an
event, which may be stale, and the items users type are not part of the promise.
A posted event is a note, which may be headed like any other entry.

### Accounts

`account` is the row of a user (`"none"` before, `"deleted"` after), `tokens`,
`sessions`, `acceptances` and `views` the tables that hang from it, `now` the
clock. `JwtStrategy.validate` is the guard `Validated` of every request that
carries a token.

| code | actions |
|---|---|
| `auth.service.ts` `login`, `generateTokens` | `Login`, `OpenSession` or `SessionNotOpened` (its failure is swallowed), `IssueToken` |
| `refreshTokens` | `CheckRefresh`, `RotateToken`, `IssueToken` |
| `logout` with a token | `Logout`, `FindOpenSession`, `CloseSession` |
| `logout` without one | `LogoutAll`, `CloseAllSessions` |
| `changePassword` | `ChangePassword`, `WriteHash`, `SweepTokens`, `IssueToken` |
| `acceptTerms` | `AcceptTerms`, `GateUser` |
| `users.service.ts` | `CreateUser`, `UpdateUser`, `UpdateStatus`, `StartHardDelete`, `CountHistory` per table, `HardDelete` |
| `audit.service.ts` `recordView` | `LookForView`, `RecordView` |
| `listAccess`, `accessStats`, `activityStats` | operators `Passes`, `ShownStatus`, `AccessStats`, `ActivityStats` (readings change nothing) |

A token keeps, as history, the password its chain began with (`secret`) and
whether its request was in flight at the last sweep (`late`).

### Tenancy

`member` is the row of a user as far as scopes go (role, home terminal, entity
link, two lists), `permitted` the `Permission` of the entity, `terminal` the
terminals and their codes, `records` the rows of six tables that belong to one
terminal, `links` the table `PlanRisk`. `tenant-scope.ts`, `checkTenantAccess`
and the lists of each service are operators with the names of the source.
Creations of a record are `Create...` (the terminal is resolved) and `Insert`;
removals `Remove...` and `Remove`; plans `CreatePlan` or `UpdatePlan`,
`FindRisks`, `SavePlan`; terminals `AskTerminal`, `CreateTerminal` and
`StartHardDelete`, `CountAttached`, `HardDelete`. An occurrence is edited by
`UpdateOccurrence` and removed by `RemoveOccurrence`, which check the access to
it, and then `ChangeOccurrence`, which writes its type or clears `active` by its
id; the list asks for `active` and the check does not. `UpdateUser` takes a body
that carries some of the fields (`Carried`). The seed gives every user but an
administrator all types. Foreign keys are those of
`schema.prisma`: a record refuses the deletion of its terminal, a user loses
his home, a plan or a risk takes its links along.

### SafetyRecords

`packages` holds the modules of each terminal, `records` the shared trainings,
EPIs and compliance items with the terminals they list, `assigned` and
`delivered` what people got. `module-config.ts` and `module-enforcement.ts` are
operators; a creation or an edit checks its terminals one await after another
(`AssertEditable`, `CheckTerminal`, `WriteRecord`) while `UpdateModules` turns
them on and off. `Assign`, `InsertAssignment` per person, `Complete`,
`LookForPrevious`, `Renew`, `Deliver`, `InsertDelivery`, `UpdateDelivery` follow
the loops of the code. `Left` says as a relation what `filter` leaves of the
names in a body, so that it can be reasoned about.

### FileStore

`objects` is the storage, `rows` the table `FileAsset`, `messages` the chat
messages by their attachment. An upload is `Upload` (conversion and object) and
`CreateRow`; a download `Download` (row) and `Pipe` (object); a message
`LookForAttachment` and `CreateMessage`; the script `StartBackfill`, then
`WriteConverted` and `UpdateRow`, or `NotConverted`, for one recording after
another. `TornWrite` is a write that breaks off. `ParseRange` and `Answer` give
the answer of a download for a header. The bytes of an object are its type and
size; signatures of URLs are left out.

## 3. The runs

| Run | Instance | Question |
|---|---|---|
| `dispatch_rules` | 1 creation, 2 entities, 1 administrator, 2 rules | do notifications, timeline, messages and audit rows stay consistent when the administrator edits, removes and permanently excludes what is being served, and after failures and restarts? |
| `dispatch_numbers` | 2 creations, the seed, 1 entity | are numbers unique and the counter monotone? |
| `dispatch_settles` | 1 creation, 2 types, 2 rules, 1 administrator, fairness | is every creation answered; are rules unique when no two requests create them at once; is `CallOut` implemented? |
| `dispatch_rule_race` | 2 administrators | the uniqueness of rules under concurrency: violated |
| `dispatch_history` | 1 administrator | a permanent exclusion keeps the dispatch history: violated |
| `dispatch_progression` | 1 creation | a notification only moves forward: violated |
| `room_status` | 1 occurrence, 2 requests, 3 statuses, 2 types posted by hand, 4 events | row, events of `updateStatus`, date and messages agree, whatever is posted; is `CaseFile` implemented, plans apart? |
| `room_checklist` | 1 occurrence, 2 requests, 2 plans, 3 items, activations posted by hand | no mixed checklist; no deleted item comes back |
| `accounts` | 1 user, 2 requests, 2 passwords, 3 rows, 3 instants | do tokens, sessions, gating, readings and the report stay consistent when logins, refreshes, logouts, password changes and the exclusion of the user interleave and break off? |
| `tenancy` | 1 user, 2 terminals, 2 types, 2 requests, 2 records | do lists and access to one record agree for every row an administrator can give a user, and does a grant hold until it is used; do records, links and codes survive the exclusion of terminals? |
| `safety` | 2 terminals, 1 person, 2 requests, 3 rows, 2 instants | are modules and coverage consistent while requests check one thing after another? |
| `files` | 2 requests or scripts, 3 objects of at most 2 bytes | is every row backed and every range answered exactly while uploads break off and recordings are converted? |

Bounds. `MaxRules` bounds the rules created in a behaviour, `MaxEvents` the
timeline of an occurrence and `MaxItems` the checklist rows created; `MaxRows`
the rows created (for each mix of Tenancy: one record is enough for users and
scopes to be tried on), `MaxRecords` the shared records there are at a time,
`MaxObjects` the objects written, `MaxSize` their bytes, `MaxTime` the clock,
`MaxAsked` the people one body names, `Seeds` the terminals there are to begin
with. Each stops the action that would exceed it. Two creations are enough for
the numbers, whose properties speak of pairs; two rules let one be served when
the other is refused; two requests are enough for a value to be stale, and three
or four events for two stale writes to cross; three rows are a login, its
session and one refresh; three objects are an upload and two conversions of
it; objects of two bytes and headers up to three give every order of first,
last and size; `TTL`, `ViewWindow` and `Day` are one or two ticks, so that the
clock goes before, to and past each boundary. Inputs are sets
(`ResponseStatus`, `OpenedAs`, `StatusAsked`, `TypesPosted`, `PlanStatusAsked`,
`ModulesAsked`, `Bodies`), so that a run about rules does not multiply its states by them.

`Mixes` bounds what one behaviour calls: it is a set of sets of operations, the
behaviour chooses one of them at the beginning, and only operations that touch
the same state are put together (tokens against changes of password, a record
against the exclusion of its terminal). What is not in one mix is not checked
together; the theorems of section 5 do not depend on it, as they hold for every
value of `Mixes`.

Requests, entities, administrators, plans, passwords, terminals and occurrence
types are symmetric
where a run uses symmetry: no action or property names one, and the run with
liveness uses none.

Deadlock is checked in all runs but two. In `accounts` the only user may be
excluded for good with the clock at its bound; in `tenancy` some mixes leave a
user of an entity, who writes nothing, with nothing to do. Both are states in
which the real system waits for requests that the instance does not have.

Fairness. `FairSpec` assumes weak fairness of `CreationStep(r)` for each request:
every awaited statement settles, with a result or an error, and the event loop
resumes its handler. Nothing is assumed of clients, administrators, the seed or
failures. `CreationSettles` then says a creation is answered whatever is taken
away under it. The other modules state safety only: their handlers may end at
any await, so there is nothing they promise to reach but their end.

## 4. What the checks show

The passing runs show that, failures and restarts included:

* two creations never draw one number, and an insert is refused only for a
  number a sample occurrence took (`NumbersDrawnOnce`, `NumbersUnique`);
* a notification without its timeline event is the one its creation is serving,
  or was serving when it failed (`NotificationsTraced`); an event has its
  notification unless the entity was excluded since (`EventsBacked`);
* the creation message is the last one and follows a message per rule that
  applied (`AnnouncedLast`); an audit row tells the truth (`AuditTruthful`);
* no permission, rule or notification row outlives its entity (`NoOrphanRows`);
* a status column is what the last event of `updateStatus` says, however two
  requests interleave and whatever is posted by hand (`StatusFollowsTimeline`),
  although the previous status an event names may be stale, yet never invented
  (`PreviousStatusReal`); the date of resolution is there exactly when
  `updateStatus` wrote a resolution (`ResolvedAtAccounted`). A posted event may
  look like either and change nothing: a reader of the timeline can tell it only
  by its missing metadata;
* the plan steps in a checklist are those of the plan last activated
  (`ChecklistFromLastPlan`) and a deleted item never comes back;
* what the room shows is a file written entry by entry: no status and no
  resolution date without its event, no event changed or lost, nobody told of a
  change that is not there (`ImplementsCaseFile`);
* a rotation never leaves two tokens in use (`RotationRevokesFirst`), though two
  refreshes of one token that overlap both get a successor; a change of
  password leaves in use only tokens of the new one and of requests it overtook
  (`TokensOfCurrentPassword`); nobody is gated without proof
  (`TermsGatingProved`);
* the access report never contradicts itself, at whatever instant it is asked
  for and answered (`ReportAgrees`); a second reading inside the window is
  recorded only by requests that overlap (`ViewsApart`); a user with history
  when his exclusion was asked for stays (`HistoryBlocksExclusion`);
* an occurrence that is listed can be opened, and one that can be opened by
  anyone but an administrator is listed unless it was removed; what users write
  to, are offered and are shown are the same terminals; and the row that a
  removal or an edit writes by its id is still of the terminal whose access was
  checked (`ScopeAgrees`); a plan answers to risks of its own terminal (`PlanRisksSameTerminal`); no
  record outlives its terminal (`RecordsKeepTerminal`); a generated code is free
  until a code is typed or a terminal excluded (`GeneratedCodeFree`);
* a terminal that a shared record lists had the module while its request ran
  (`ListedHadModule`); assign and complete treat no instant differently
  (`CoverageAgrees`); nobody is given a second open assignment or delivery that
  the request could have seen (`NoSecondOpen`);
* a row names a whole object of its type and size (`RowsBacked`), and a download
  sends the range asked for, as its headers say (`AnswersExact`).

Three documented statements do not hold of the code, and have a run each. Of the
first two, a theorem adds that the interleaving the run shows is the only way
(`DispatchOneRule`, `DispatchHistory`, section 5):

* `notification-rules.service.ts:22` refuses a second rule for an entity and a
  type, but the check and the insert are two statements and the table has no
  unique key; two requests at once leave two rules, and an occurrence then
  dispatches the entity twice (`dispatch_rule_race`).
* `entities.service.ts:56` blocks a permanent exclusion when anything is linked,
  "para preservar o histórico"; a notification dispatched after the counts and
  before the delete goes with the cascade (`dispatch_history`).
* `entity-notifications.service.ts:7` names an official progression, but any
  status is written over any other (`dispatch_progression`).

Others were met while modelling. The models follow the code, and a property
above is stated with the exception where one of them touches it:

* `tenant-scope.ts:45` calls the `Permission` the only source of truth for users
  of an entity; the list of terminals (`terminals.service.ts:29`) and
  `userCanAccessTerminal` use the list of the user.
* The comment at `terminals.service.ts:13` gives a user of a terminal the marked
  list or else his home; the code gives him both.
* `users.service.ts:139` calls the entity link and the terminal link mutually
  exclusive; a body without a role, or with both links, leaves both.
* `emergency.service.ts:108` reads an empty list of types as all of them, and
  `:41` as none: a user without types may open what he cannot read.
* `POST /occurrences/:id/timeline` accepts every official type
  (`emergency.service.ts:382`): the timeline may tell of a resolution, a change
  of status or an activation that never was.
* A removed occurrence leaves the list (`emergency.service.ts:38`) and nothing
  else: it can be opened, edited and removed again by whoever could before
  (`:80`, `:556`), and its notifications stay listed.
* The type of a new occurrence must be one its author may open
  (`emergency.service.ts:108`); an update writes any type (`:261`), one its
  author can then no longer read included.
* `GET /alerts/:id` and `GET /terminals/:id` (`alerts.service.ts:72`,
  `terminals.service.ts:41`) ask for no scope, while their lists do; no property
  speaks of them.
* A list of entity notifications asks for the terminal of the occurrence and
  not for its type; the list of alerts asks for the home terminal alone, which a
  user of an entity does not have.
* A generated terminal code counts the terminals: after a permanent exclusion it
  may name a code in use at every attempt (`terminals.service.ts:163`).
* `schema.prisma:529` calls acceptances of the terms append-only; they go with
  the exclusion of their user.
* A password written by an administrator (`users.update`) revokes no token.
* `trainings.module.ts:150` says an assignment is not duplicated; a name that
  comes twice in one body is served twice, in `assign` and in `deliver`.
* `module-enforcement.ts:33` makes a record without an active terminal
  read-only; an update of a compliance item does not ask.

## 5. What is proved

Forty-five theorems, for every value of the constants: every safety property
that a passing run checks, action properties included, and the refinements of
`CallOut` and of `CaseFile`. Three more statements are proved under the condition
that makes them true: `OneRulePerEntityAndType`, `DispatchHistoryKept` and
`PositionsApart`, each of which an overlap of two requests breaks.

Few of the properties are inductive. Most compare two pieces of state that two
statements write, and what is missing is what the handler between the two holds
in its local variables. Each proof therefore states that first, as an invariant
of its own, proves it action by action, and reads the property off it.

`EntityRegistryProofs` proves that the administrative handlers keep their types
(`RegistryStepTyped`) and every row with its entity (`RegistryStepRows`).
`DispatchProofs` extends both to the whole of `Dispatch`, for any number of
requests, entities, terminals, types, rules and administrators, with the seed
or without:

* `DispatchTyped`: `TypeOK` is inductive.
* `DispatchNumbersDrawnOnce`, `DispatchNumbersUnique`: from `NumbersInvariant`.
  That numbers differ is not inductive: a state where a number drawn exceeds
  the counter satisfies it and the next draw breaks it. The invariant adds that
  every number drawn lies in `1 .. occurrenceSeq` and that a row exists only for
  a creation past its second stage; with the second, a taken number met at the
  insert can only be a sample's.
* `DispatchCounterNeverRegresses`: the action property, from `TypeOK`.
* `DispatchNoOrphanRows`: inductive with `TypeOK`; the foreign keys are what
  makes the insert and the delete steps go through.
* `DispatchOneRule`: `Spec /\ []CreatedAlone => []OneRulePerEntityAndType`, where
  `CreatedAlone` says that no two requests in flight create the same rule. The
  invariant is `StillFree`: what a creation found at its check still holds.
  Without `CreatedAlone` the property is false (run `dispatch_rule_race`), so the
  race of two such requests is the only way to a second rule.
* `DispatchHistory`: `Spec /\ []NoneOvertaken => DispatchHistoryKept`, where
  `NoneOvertaken` says that no creation still has to call an entity whose
  notifications an exclusion in flight has counted. The invariant is
  `CountedOut`: what an exclusion counted is still none when it deletes. The
  other two counts play no part. Without `NoneOvertaken` the property is false
  (run `dispatch_history`).

`DispatchCallOutProofs` proves `CreationInvariant`, about what a creation tells:

* `LoopInvariant`: where the loop of `autoDispatchEntities` can stand at each
  stage. The rules already served are `applicable` less `remaining`.
* `TalesInvariant`: timeline, messages and audit rows tell of the rules served,
  of no other, and of each once.
* `NotificationsInvariant`: the notifications are those of the rules served or
  being served. It needs that rule ids are never used twice, since a
  notification is found by its rule.

`DispatchAnnouncedLast`, `DispatchNotificationsTraced`, `DispatchEventsBacked`,
`DispatchAuditTruthful` and `DispatchTimelineAppendOnly` follow. So does
`DispatchImplementsCallOut`: `CallFacts` reads the phase of an occurrence and the
calls made off the invariant, `ContractMoves` shows that a statement of a
creation leaves its occurrence where it stands in the contract or makes one
move of it, and `ContractStep` that a restart abandons all that were in flight.
`DispatchCreationDescends` is the safety half of `CreationSettles`: every
statement a creation sends lowers a pair of numbers (`Ahead`, the statements
outside the loop; `Awaits`, two for each rule left) or ends it, and no step of
another actor raises it, so that no administrator keeps a creation in its loop
for ever.

`SituationRoomProofs`, for any number of occurrences, plans, requests, events
and items:

* `RoomTyped`, with `OrdersCounted`: a position is below the number of items
  created, without which the next position of a checklist may not be one.
* `RoomStatusFollowsTimeline`, `RoomResolvedAtAccounted`,
  `RoomPreviousStatusReal`: from `StatusInvariant`, for posted events of every
  type (`EventFacts`: a row keeps the statement that wrote it apart from its
  type). `OneStart` is what makes the third inductive: one status, that of the
  opening, explains all the timeline does not, in the rows, in the column and in
  what requests in flight have read.
  `OpenedFirst` keeps requests on occurrences that are open.
* `RoomChecklistFromLastPlan`: from `ChecklistInvariant`, which says that the
  steps occupy the positions from 0 on without speaking of their number;
  `StepsCounted` then gives the number.
* `RoomStatusNewsTrue` compares cardinalities: every step raises the two sides
  alike, or the right side only. Requests are finitely many.
* `RoomTimelineAppendOnly`, `RoomNoItemReturns`: action properties. No run lists
  the first, which `ImplementsCaseFile` implies; the theorem stays, for the next.
* `RoomImplementsCaseFile`: for plans too, which the run leaves out (activations
  and status changes together are too many states). `EntryEntered` turns an
  appended event into an entry, `StepsReplaced` an activation into the steps of
  its plan, and `ToldLess` reads off `StatusNewsTrue` that who announces a status
  has a row nobody was told of.
* `RoomPositionsApart`: `Spec /\ []ItemsAlone => []PositionsApart`, where
  `ItemsAlone` says that a request adding an item overlaps no other that adds
  items to its checklist, typed or of a plan. The invariant is `LastRead`: a
  position read is above all there are. Ticks, edits and removals may overlap.

`AccountsProofs` proves `AccountsInv`, for any number of users, requests,
passwords, rows and instants, in four parts beside the types (`AccountsTyped`):

* `KnownUsers`: a request that holds a user was let in by a row of his, and a
  user who has no row yet has no claim and no gating. Without it, creating a
  user could give a row to a request that runs already.
* `RotationTraced` gives `AccountsRotation`. The property speaks of stored
  tokens; the invariant adds the rotation in flight, whose token is stored, and
  revoked once `RotateToken` has passed, unless the user is gone.
* `GatingTraced` gives `AccountsTerms`: the request about to write the gating
  carries an acceptance that is stored, unless its user is gone.
* `SecretsCurrent` gives `AccountsPasswords`: a request about to issue a token
  carries the current password or is late.

`Disturbances` splits a step into the seventeen actions that touch these facts
and all the others, which leave them alone; one lemma per part then treats each
action. Two more invariants give the rest:

* `WatchInv`: a reading about to be recorded carries what its look-up saw of the
  rows there were (`LookedFirst`), and an exclusion is still looking for, or has
  found, what its user had when it was asked for (`HeldSought`). They give the
  action properties `AccountsViewsApart` and `AccountsHistoryBlocks`.
* `SessionsTimed`: no session was opened in the future, a token lives as long as
  its session counts as active, and a session named by a token or a request has
  its id already. It gives `AccountsReport`, at every instant. That a series adds
  up to its total is a fold over the days of a window; `SeriesFold` proves it by
  the least number of days for which it would fail (`LeastNumber`), so that no
  induction theorem is needed, `DaysSplit` takes one day off a set of rows, and
  `WindowAddsUp` adds that the days of a window miss none of its rows.

`TenancyProofs`, for any number of users, terminals, types and requests:

* `TenancyTyped`, `TenancyRecordsKeepTerminal`: the second is inductive with the
  first. The counts before an exclusion play no part; the foreign keys do.
* `TenancyPlanRisksSameTerminal`: from `PlansInvariant`, which adds that ids are
  handed out once (`RowIds`) and that what a request saving a plan holds is true
  of the rows it names, as long as they are there (`PlansHeld`).
* `TenancyScopeAgrees`: the first half (`ListsAgree`) from `TypeOK`, by the cases
  of the role, since list and check are two readings of the same rows; the
  second from `GrantsInvariant`, which adds `RowIds` and that the row a request
  was granted is of that terminal as long as it is there (`Granted`). Without
  `RowIds` a later row could take the id.
* `TenancyGeneratedCodeFree`: from `CodesCounted`, which adds that a code about to
  be used was counted out; it rests on the cardinality of the existing terminals
  when one is added.

`SafetyRecordsProofs`, for any number of terminals, people, rows and requests:

* `SafetyTyped`, with `Asks`: a request that creates a record carries a list, and
  a completion about to write has someone to serve.
* `SafetyCoverageAgrees`: with finitely many assignments and `ReturnsDated`.
* `SafetyNoSecondOpen`: from `Looked`: of the rows there were when a request
  looked, none of the people it is still to serve has an open one. Rows are only
  closed, never reopened, and new ones have greater ids (`RowSteps`).
* `SafetyListedHadModule`: from `Listing`: each terminal of the list in flight is
  still to be checked, has had the module, or was listed before.

`FileStoreProofs` proves `FilesInv`, for objects of any size: objects are
numbered by different keys, what a request in flight holds is backed, and so is
what is stored. `FilesRowsBacked` is its last part. `FilesAnswersExact` adds
`RangeExact`, a lemma on `ParseRange` for every header and every size, and the
cardinality of an interval.

The assumptions are those the modules state on their constants
(`RegistryAssumption`, `SeedAssumption`, `RoomAssumption`, `AccountsAssumption`,
`TenancyAssumption`, `SafetyAssumption`, `FilesAssumption`): inputs are of the
declared kind, bounds are numbers. Two of them add that a set is finite, for the
theorems that count: the requests in flight in one room, and the terminals.

Only model-checked:

* `CreationSettles`, a liveness property; `DispatchCreationDescends` is as far
  as the prover reaches, for it cannot reason about ENABLED.
* The three violations, which are counterexamples. The third has no theorem
  beside it: no condition short of the property itself keeps users from writing
  any status over any other.

## 6. Not modelled

* Safety items: one statement per operation, and nothing but a counter of the
  dashboard reads their rows.
* War rooms: `docs/remocao-war-room.md` plans their removal, and no other
  component reads their rows.
* Dashboard and AI command: readings, and canned answers with a row each.
* Geocoding: a chain of requests to external services without any state.
* Rooms and presence of the realtime gateway: with the in-memory adapter its
  awaits end within one turn of the event loop, so that no disconnection falls
  between them. `emitToOrganization` is modelled where a message could be wrong.
* Evidences: a table nothing else reads. `getMe` and `markAlertsSeen` for the
  same reason. Of the generic update of an occurrence only the type is modelled:
  no other operation reads the other columns.
* Readings of one alert and one terminal by id, which ask for no scope.
* Signatures of file URLs, formatting, pagination, menus, framework wiring.

Two hazards of `PROJECT.json` have no property: positions of checklist items may
coincide, and an alert may go from any status to any other. No code, comment or
test promises otherwise. `RoomPositionsApart` says when positions differ.

## 7. Plan

Every safety property of the passing runs is proved, and both contracts are
implemented. What is left is to say more: a `CaseFile`-like contract for the
rotation of tokens, what a restart leaves of each handler of the second half,
and the rooms of the realtime gateway should their awaits ever leave one turn of
the event loop.
