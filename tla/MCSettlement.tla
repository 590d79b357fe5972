---------------------------- MODULE MCSettlement ----------------------------
(***************************************************************************)
(* Small instances of Settlement for TLC.                                  *)
(***************************************************************************)
EXTENDS Settlement, TLC

CONSTANTS m1, p1

(* All payments belong to the first merchant; the first costs 2, the others *)
(* 1, and the fee is a quarter: it can be rounded down, to zero as well.    *)
OwnedByOne == [p \in PaymentIds |-> m1]
TwoThenOne == [p \in PaymentIds |-> IF p = p1 THEN 2 ELSE 1]

Symmetry == Permutations(SettlementIds) \cup Permutations(Tasks)

=============================================================================
