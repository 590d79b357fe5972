------------------------------- MODULE MCFraud -------------------------------
(***************************************************************************)
(* A small instance of Fraud for TLC.                                      *)
(***************************************************************************)
EXTENDS Fraud, TLC

CONSTANTS b1, i1

(* A card payment, and one without a card. *)
CardAndUpi == {[bin |-> b1, ip |-> i1], [bin |-> None, ip |-> i1]}

=============================================================================
