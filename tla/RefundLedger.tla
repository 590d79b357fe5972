---------------------------- MODULE RefundLedger ----------------------------
(***************************************************************************)
(* What refunding promises, whatever the implementation: a sale has a      *)
(* limit, the captured payment's amount; a claim on it is decided once; it *)
(* is paid exactly when it still fits and refused exactly when it does     *)
(* not; what has been returned never shrinks and never passes the limit.   *)
(* Module Payments implements this ledger.                                 *)
(***************************************************************************)
EXTENDS Naturals

CONSTANTS Sales, Claims

VARIABLES
  limit,     \* what may be returned of a sale; 0 until the money has been taken
  returned,  \* what has been returned
  verdict    \* the decision on each claim

vars == <<limit, returned, verdict>>

TypeOK ==
  /\ limit \in [Sales -> Nat]
  /\ returned \in [Sales -> Nat]
  /\ verdict \in [Claims -> {"open", "paid", "refused"}]

Init ==
  /\ limit = [s \in Sales |-> 0]
  /\ returned = [s \in Sales |-> 0]
  /\ verdict = [c \in Claims |-> "open"]

(* The sale's money is taken, once and for all, in whatever amount. *)
Sell(s) ==
  /\ limit[s] = 0
  /\ limit'[s] \in Nat \ {0}
  /\ limit' = [limit EXCEPT ![s] = limit'[s]]
  /\ UNCHANGED <<returned, verdict>>

Pay(c, s, amount) ==
  /\ verdict[c] = "open"
  /\ amount > 0
  /\ returned[s] + amount <= limit[s]
  /\ returned' = [returned EXCEPT ![s] = @ + amount]
  /\ verdict' = [verdict EXCEPT ![c] = "paid"]
  /\ UNCHANGED limit

Refuse(c, s, amount) ==
  /\ verdict[c] = "open"
  /\ limit[s] > 0
  /\ amount <= limit[s]
  /\ returned[s] + amount > limit[s]
  /\ verdict' = [verdict EXCEPT ![c] = "refused"]
  /\ UNCHANGED <<limit, returned>>

Next ==
  \E s \in Sales :
    \/ Sell(s)
    \/ \E c \in Claims, amount \in 1..limit[s] : Pay(c, s, amount) \/ Refuse(c, s, amount)

Spec == Init /\ [][Next]_vars

(* No sale returns more than was taken for it. *)
NeverOverReturned == \A s \in Sales : returned[s] <= limit[s]

=============================================================================
