----------------------------- MODULE MCFileStore -----------------------------
(***************************************************************************)
(* A small instance of FileStore for TLC: two requests or runs of the      *)
(* script in flight, objects of at most two bytes.                         *)
(***************************************************************************)
EXTENDS FileStore, TLC

CONSTANTS h1, h2

(* No action and no property names a request.                              *)
Symmetry == Permutations(Handler)
=============================================================================
