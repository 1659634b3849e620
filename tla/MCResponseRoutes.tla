-------------------------- MODULE MCResponseRoutes --------------------------
(***************************************************************************)
(* A TLC instance of ResponseRoutes: two instances of one model, so that a *)
(* stream can fail over, and more responses than routes.                   *)
(***************************************************************************)
EXTENDS ResponseRoutes, TLC

CONSTANTS d1, d2, m1

OneModel == [d \in {d1, d2} |-> m1]

(* d1 and d2 run the same model and are interchangeable. *)
Symmetric ==
  Permutations(Requests) \cup Permutations(Ids) \cup Permutations({d1, d2})
=============================================================================
