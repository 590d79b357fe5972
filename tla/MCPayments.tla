----------------------------- MODULE MCPayments -----------------------------
(***************************************************************************)
(* Small instances of Payments for TLC.                                    *)
(***************************************************************************)
EXTENDS Payments, TLC

(* Every order costs 2: a refund can be full, partial or too much. *)
PriceTwo == [o \in Orders |-> 2]

(* What clients ask for: less than nothing, a part, and the full amount. *)
UpToFull == {-1, 1, 2}

(* The same, no amount (which means the full one), and too much. *)
BeyondFull == {-1, 0, 1, 2, 3}

(* Ids and workers are interchangeable; safety runs only. *)
Symmetry == Permutations(Workers) \cup Permutations(PaymentIds)
              \cup Permutations(RefundIds)

=============================================================================
