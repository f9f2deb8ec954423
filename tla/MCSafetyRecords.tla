--------------------------- MODULE MCSafetyRecords ---------------------------
(***************************************************************************)
(* A small instance of SafetyRecords for TLC: two terminals, one person,   *)
(* two requests in flight.                                                 *)
(***************************************************************************)
EXTENDS SafetyRecords, TLC

CONSTANTS h1, h2, t1, t2

(* Operations that disturb each other: the lists of shared records against *)
(* the modules of terminals, kind by kind; assignments in time; deliveries.*)
MCMixes ==
  {{"trainings", "edit", "modules"},
   {"epis", "edit", "remove"},
   {"compliance", "edit", "modules"},
   {"compliance", "remove"},
   {"trainings", "assign", "complete", "time"},
   {"trainings", "assign", "remove"},
   {"epis", "deliver", "status", "remove"}}

(* Neither the properties nor the actions name a request or a terminal.    *)
Symmetry == Permutations(Handler) \cup Permutations(Terminal)
=============================================================================
