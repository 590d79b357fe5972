--------------------------- MODULE MCPaymentLinks ---------------------------
(***************************************************************************)
(* Small instances of PaymentLinks for TLC.                                *)
(***************************************************************************)
EXTENDS PaymentLinks, TLC

CONSTANT l1

(* The first link may be used twice, any other without limit. *)
TwiceThenAlways == [l \in Links |-> IF l = l1 THEN 2 ELSE 0]

Symmetry == Permutations(Callers)

=============================================================================
