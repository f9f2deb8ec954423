------------------------------ MODULE MCTenancy ------------------------------
(***************************************************************************)
(* A small instance of Tenancy for TLC: one user, two terminals, two       *)
(* requests in flight.                                                     *)
(***************************************************************************)
EXTENDS Tenancy, TLC

CONSTANTS h1, h2, t1, t2

(* Operations that disturb each other: users and scopes over occurrences;  *)
(* occurrences edited and removed; codes and exclusions; plans and their   *)
(* risks; the records of a terminal and its exclusion.                     *)
MCMixes ==
  {{"scope", "occurrence", "change"},
   {"occurrence", "change"},
   {"terminals", "exclude"},
   {"risk", "plan"},
   {"risk", "exclude"},
   {"plan", "exclude"},
   {"element", "document", "exclude"},
   {"alert", "exclude"},
   {"occurrence", "exclude"}}

(* Bodies with several fields lead to no other rows than several bodies;    *)
(* a role and a link of one body disturb each other.                       *)
MCBodies == {{"role"}, {"home"}, {"linked"}, {"allowed"}, {"types"}, {"role", "home", "linked"}}

(* One record is enough for the users and scopes to be tried on.           *)
MCMaxRows == [m \in MCMixes |-> IF "scope" \in m THEN 1 ELSE 2]

(* Neither the properties nor the actions name a request, a terminal or a  *)
(* type.                                                                   *)
Symmetry == Permutations(Handler) \cup Permutations(Terminal) \cup Permutations(OccType)
=============================================================================
