----------------------------- MODULE MCAccounts -----------------------------
(***************************************************************************)
(* A small instance of Accounts for TLC: one user, whose rows only his own *)
(* requests and an administrator write, and two requests in flight.        *)
(***************************************************************************)
EXTENDS Accounts, TLC

CONSTANTS u1, h1, h2, p1, p2

(* Operations that disturb each other, in groups: tokens against changes   *)
(* of password; tokens and sessions in time; terms and tokens against the  *)
(* exclusion of the user; readings in time.                                *)
MCMixes ==
  {{"login", "refresh", "logoutAll", "password", "update"},
   {"login", "refresh", "logout", "logoutAll", "time"},
   {"login", "refresh", "terms", "status", "work", "exclude"},
   {"terms", "time"},
   {"view", "status", "time", "exclude"}}

(* No action and no property names a request, a password or a table.       *)
Symmetry == Permutations(Handler) \cup Permutations(Password)
=============================================================================
