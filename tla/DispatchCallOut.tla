--------------------------- MODULE DispatchCallOut ---------------------------
(***************************************************************************)
(* Dispatch implements CallOut.  The mapping reads only what outlives the  *)
(* handlers: the occurrence rows, the timeline and what the sockets were   *)
(* sent, and the rules the creation read.                                  *)
(***************************************************************************)
EXTENDS Dispatch

CallPhase(r) ==
  CASE Sent(r, CreatedMsg)  -> "announced"
    [] r \notin occurrences -> "none"
    [] OTHER -> CASE stage[r] = "failed"   -> "abandoned"
                  [] stage[r] = "inserted" -> "open"
                  [] OTHER                 -> "calling"

CallsMade(r) == {rule \in applicable[r] : InTimeline(r, Called(rule))}

Contract == INSTANCE CallOut WITH
  Call   <- Rule,
  phase  <- [r \in Request |-> CallPhase(r)],
  owed   <- applicable,
  called <- [r \in Request |-> CallsMade(r)]

(* Every behaviour of the handlers, failures and restarts included, is one *)
(* the control room was promised: the calls are fixed by one reading of    *)
(* the rules, made one at a time, and the occurrence is announced only     *)
(* when none is missing.                                                   *)
ImplementsCallOut == Contract!Spec
=============================================================================
