---------------------------- MODULE AccountLedger ----------------------------
(***************************************************************************)
(* What a virtual account promises its merchant: money is added to an open *)
(* account, the balance is all the money that was ever credited, an        *)
(* account that has received what was expected closes, and a closed        *)
(* account takes nothing and stays closed.                                 *)
(***************************************************************************)
EXTENDS Naturals

CONSTANTS
  Accounts,
  Expected,   \* Expected[a]: the amount at which account a closes, 0 for never
  Amounts     \* the credits that may arrive

VARIABLES
  phase,      \* phase[a]: "unborn", "open" or "closed"
  balance     \* balance[a]: the money credited so far

vars == <<phase, balance>>

Init ==
  /\ phase = [a \in Accounts |-> "unborn"]
  /\ balance = [a \in Accounts |-> 0]

Open(a) ==
  /\ phase[a] = "unborn"
  /\ phase' = [phase EXCEPT ![a] = "open"]
  /\ UNCHANGED balance

Full(a, amount) == Expected[a] > 0 /\ balance[a] + amount >= Expected[a]

Credit(a, amount) ==
  /\ phase[a] = "open"
  /\ balance' = [balance EXCEPT ![a] = @ + amount]
  /\ phase' = [phase EXCEPT ![a] = IF Full(a, amount) THEN "closed" ELSE "open"]

Close(a) ==
  /\ phase[a] # "unborn"
  /\ phase' = [phase EXCEPT ![a] = "closed"]
  /\ UNCHANGED balance

Next == \E a \in Accounts : Open(a) \/ Close(a) \/ \E amount \in Amounts : Credit(a, amount)

Spec == Init /\ [][Next]_vars

=============================================================================
