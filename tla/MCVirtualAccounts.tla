-------------------------- MODULE MCVirtualAccounts --------------------------
(***************************************************************************)
(* Small instances of VirtualAccounts for TLC.                             *)
(***************************************************************************)
EXTENDS VirtualAccounts, TLC

CONSTANT a1

(* The first account expects 3, any other takes whatever comes. *)
ExpectThree == [a \in Accounts |-> IF a = a1 THEN 3 ELSE 0]

Symmetry == Permutations(Workers)

=============================================================================
