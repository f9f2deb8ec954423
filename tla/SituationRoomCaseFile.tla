------------------------ MODULE SituationRoomCaseFile ------------------------
(***************************************************************************)
(* SituationRoom implements CaseFile.  The mapping reads the tables and    *)
(* what the sockets were sent, and nothing of the requests in flight: a    *)
(* request that reads, waits and writes comes down to the one entry it     *)
(* writes.  The previousStatus of an event, which may be stale, is not     *)
(* part of the promise, and neither are the items users type and tick.     *)
(***************************************************************************)
EXTENDS SituationRoom

Entry(e) ==
  CASE e.event = "opening" -> [what |-> "opened"]
    [] e.event = "posted"  -> [what |-> "note", heading |-> e.type]
    [] e.event = "plan"    -> [what |-> "activated", plan |-> e.plan]
    [] e.event = "status"  -> [what |-> "moved", to |-> e.to]

LogOf(o)      == [i \in DOMAIN timeline[o] |-> Entry(timeline[o][i])]
StepsShown(o) == {<<x.from, x.order>> : x \in {y \in ItemsOf(o) : y.from # NoPlan}}

Contract == INSTANCE CaseFile WITH
  Resolved <- "resolvido",
  Length   <- 0 .. MaxItems,
  Heading  <- EventType,
  resolved <- resolvedAt,
  log      <- [o \in Occurrence |-> LogOf(o)],
  steps    <- [o \in Occurrence |-> StepsShown(o)],
  told     <- statusNews

(* However requests interleave, fail and are lost with the process, what   *)
(* the room shows is a file written entry by entry: a status, a resolution *)
(* or a plan's steps never change without their event, no event is changed *)
(* or lost, a posted event changes nothing but the log whatever its type,  *)
(* and nobody is told of a change that is not there (updateStatus,         *)
(* activatePlan, addTimelineEvent).                                        *)
ImplementsCaseFile == Contract!Spec
=============================================================================
