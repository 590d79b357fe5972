------------------------------ MODULE MCRequests ------------------------------
(***************************************************************************)
(* Small instances of Requests for TLC.                                    *)
(***************************************************************************)
EXTENDS Requests, TLC

CONSTANTS k1, k2

OneEach == [k \in ApiKeys |-> IF k = k1 THEN "m1" ELSE "m2"]

(* Header only, body key only, and another merchant with both keys. *)
ThreeCalls ==
  {[api |-> k1, header |-> "h1", body |-> Null],
   [api |-> k1, header |-> Null, body |-> "b1"],
   [api |-> k2, header |-> "h1", body |-> "b2"]}

Symmetry == Permutations(Handlers) \cup Permutations(OrderIds)

=============================================================================
