--------------------------- MODULE MCSituationRoom ---------------------------
(***************************************************************************)
(* A small instance of SituationRoom for TLC: one occurrence and two plans *)
(* of its terminal.                                                        *)
(***************************************************************************)
EXTENDS SituationRoomCaseFile, TLC

CONSTANTS o1, p1, p2

MCSameTerminal == {<<o1, p1>>, <<o1, p2>>}

(* Requests are interchangeable, and so are the two plans: no action and   *)
(* no property names one of them.                                          *)
Symmetry == Permutations(Handler) \cup Permutations(Plan)
=============================================================================
