----------------------------- MODULE MCDispatch -----------------------------
(***************************************************************************)
(* Small instances of Dispatch for TLC.                                    *)
(***************************************************************************)
EXTENDS DispatchCallOut, TLC

(* Requests, entities and administrators are interchangeable: no action    *)
(* and no property names one of them.                                      *)
SymmetryRequest == Permutations(Request)
SymmetryEntity  == Permutations(Entity)
SymmetryAdmin   == Permutations(AdminRequest)
=============================================================================
