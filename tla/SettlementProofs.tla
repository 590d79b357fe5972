-------------------------- MODULE SettlementProofs --------------------------
(***************************************************************************)
(* Theorems about the settlement run, for any number of merchants,         *)
(* payments, runs and administrators, any prices, fee rate and bounds.     *)
(***************************************************************************)
EXTENDS Settlement, FiniteSums

Task == [at: Places, left: SUBSET Merchants, merchant: Merchants \cup {None}, gross: Nat,
         net: Int, fee: Int, settlement: SettlementIds \cup {None},
         counted: SUBSET PaymentIds, due: SUBSET PaymentIds, clean: BOOLEAN]

(* The places at which a run has a settlement of its own. *)
Holding == {"payout", "notify", "select", "mark"}

(* What a run carries with it at the place it has reached: what it pays out *)
(* is positive, and the settlement it works on exists.                      *)
TaskOK(t) ==
  /\ tasks[t].at \notin {"idle", "next"} => tasks[t].merchant \in Merchants
  /\ tasks[t].at = "create" => tasks[t].fee \in Nat /\ Payout(tasks[t].net, tasks[t].fee) \in Nat
  /\ tasks[t].at \in Holding => /\ tasks[t].settlement \in SettlementIds
                                /\ settlements[tasks[t].settlement].status # "none"

(* Sums are over finite sets: each step captures at most one payment. *)
FinitelyCaptured == IsFiniteSet({p \in PaymentIds : payments[p].status # "authorized"})

TypeInv ==
  /\ TypeOK
  /\ tasks \in [Tasks -> Task]
  /\ \A t \in Tasks : TaskOK(t)
  /\ FinitelyCaptured

-----------------------------------------------------------------------------
(* The model's sums are those of module FiniteSums. *)

(* The model's sum of prices is the one of module FiniteSums. *)
LEMMA PricesSum ==
  ASSUME NEW P \in SUBSET PaymentIds, IsFiniteSet(P)
  PROVE  Total(P) = SumOver(Price, P)
<1> DEFINE Sums(g) == g = [s \in SUBSET P |-> IF s = {} THEN 0
                                              ELSE Price[Pick(s)] + g[s \ {Pick(s)}]]
           g == CHOOSE g : Sums(g)
<1>1. Total(P) = g[P]
  BY DEF Total, MapThenSumSet, MapThenFoldSet, Pick
<1>2. PICK h : IsSum(h, Price, P)
  BY SumExists
<1>3. \A k : IsSum(k, Price, P) <=> Sums(k)
  BY DEF IsSum
<1>4. IsSum(g, Price, P)
  BY <1>2, <1>3
<1> QED
  BY <1>1, <1>4, SumIs

(* The refunded amounts as a function, for module FiniteSums. *)
Refunded == [p \in PaymentIds |-> payments[p].refunded]

RefundedIsSum ==
  \A P \in SUBSET PaymentIds : IsFiniteSet(P) => TotalRefunded(P) = SumOver(Refunded, P)

(* The model's sum of refunds is the one of module FiniteSums. *)
LEMMA RefundedSum == RefundedIsSum
<1> SUFFICES ASSUME NEW P \in SUBSET PaymentIds, IsFiniteSet(P)
             PROVE  TotalRefunded(P) = SumOver(Refunded, P)
  BY DEF RefundedIsSum
<1> DEFINE Sums(g) == g = [s \in SUBSET P |-> IF s = {} THEN 0
                                              ELSE payments[Pick(s)].refunded + g[s \ {Pick(s)}]]
           g == CHOOSE g : Sums(g)
<1>1. TotalRefunded(P) = g[P]
  BY DEF TotalRefunded, MapThenSumSet, MapThenFoldSet, Pick
<1>2. PICK h : IsSum(h, Refunded, P)
  BY SumExists
<1>3. \A s \in SUBSET P : s # {} => Refunded[Pick(s)] = payments[Pick(s)].refunded
  BY PickIn DEF Refunded
<1>4. \A k : IsSum(k, Refunded, P) <=> Sums(k)
  BY <1>3 DEF IsSum
<1>5. IsSum(g, Refunded, P)
  BY <1>2, <1>4
<1> QED
  BY <1>1, <1>5, SumIs

(* What is due is finite, and both its sums are amounts of money. *)
LEMMA DueSums ==
  ASSUME TypeInv, NEW m
  PROVE  /\ Due(m) \in SUBSET PaymentIds /\ IsFiniteSet(Due(m))
         /\ Total(Due(m)) \in Nat /\ TotalRefunded(Due(m)) \in Nat
<1>1. Due(m) \in SUBSET PaymentIds
  BY DEF Due
<1>2. IsFiniteSet(Due(m))
  <2>1. Due(m) \subseteq {p \in PaymentIds : payments[p].status # "authorized"}
    BY DEF Due
  <2> QED
    BY <2>1, FS_Subset DEF TypeInv, FinitelyCaptured
<1>3. Total(Due(m)) = SumOver(Price, Due(m)) /\ TotalRefunded(Due(m)) = SumOver(Refunded, Due(m))
  BY <1>1, <1>2, PricesSum, RefundedSum DEF RefundedIsSum
<1>4. /\ \A p \in Due(m) : Price[p] \in Nat
      /\ \A p \in Due(m) : Refunded[p] \in Nat
  BY <1>1, SettlementAssumption DEF TypeInv, TypeOK, Refunded
<1>5. SumOver(Price, Due(m)) \in Nat /\ SumOver(Refunded, Due(m)) \in Nat
  BY <1>2, <1>4, SumIsNatural
<1> QED
  BY <1>1, <1>2, <1>3, <1>5

(* Whoever leaves a merchant's payments alone leaves both sums alone. *)
LEMMA DueKept ==
  ASSUME TypeInv, NEW m, \A p \in PaymentIds : Owner[p] = m => payments'[p] = payments[p]
  PROVE  /\ Due(m)' = Due(m)
         /\ TotalRefunded(Due(m))' = TotalRefunded(Due(m))
<1>1. Due(m)' = Due(m)
  BY DEF Due
<1>2. PICK D : D = Due(m)
  OBVIOUS
<1>3. D \in SUBSET PaymentIds /\ IsFiniteSet(D)
  BY <1>2, DueSums
<1>4. TotalRefunded(D) = SumOver(Refunded, D)
  BY <1>3, RefundedSum DEF RefundedIsSum
<1>5. TotalRefunded(D)' = SumOver(Refunded', D)
  <2>1. RefundedIsSum'
    BY RefundedSum, PTL
  <2> QED
    BY <1>3, <2>1 DEF RefundedIsSum
<1>6. SumOver(Refunded', D) = SumOver(Refunded, D)
  <2>1. \A p \in D : Refunded'[p] = Refunded[p]
    BY <1>2, <1>3 DEF Due, Refunded
  <2> QED
    BY <1>3, <2>1, SumDependsOn
<1>7. TotalRefunded(Due(m))' = TotalRefunded(D)'
  BY <1>1, <1>2 DEF TotalRefunded
<1> QED
  BY <1>1, <1>2, <1>4, <1>5, <1>6, <1>7

-----------------------------------------------------------------------------
(* The whole quotient, and the products it is compared with. *)
LEMMA Quotient ==
  ASSUME NEW n \in Int, NEW d \in Nat, d > 0
  PROVE  n \div d \in Int /\ (n \div d) * d <= n /\ n < (n \div d) * d + d
OBVIOUS

(* A product with a negative factor. *)
LEMMA ProductOfNegative ==
  ASSUME NEW n \in Int, n < 0, NEW a \in Int, NEW b \in Int, a < b
  PROVE  n * a > n * b
OBVIOUS

(* Products keep an order. *)
LEMMA LessTimes ==
  ASSUME NEW a \in Int, NEW b \in Int, NEW d \in Nat, d > 0, a * d > b * d
  PROVE  a > b
OBVIOUS

(* A fee of less than the whole: a payout is positive only when the net *)
(* amount is, and then the fee is not negative.                         *)
LEMMA FeeIsNatural ==
  ASSUME NEW net \in Int, NEW fee \in Fees(net), Payout(net, fee) > 0
  PROVE  fee \in Nat /\ Payout(net, fee) \in Nat
<1> DEFINE n == net * FeeNum
           q == n \div FeeDen
<1>1. FeeNum \in Nat /\ FeeDen \in Nat /\ FeeNum < FeeDen /\ FeeDen > 0
  BY SettlementAssumption
<1>2. n \in Int
  BY <1>1
<1>3. q \in Int /\ q * FeeDen <= n /\ n < q * FeeDen + FeeDen
  BY <1>1, <1>2, Quotient
<1>4. fee \in Int /\ (fee = q \/ (fee = q - 1 /\ q > 0))
  BY <1>3 DEF Fees
<1>5. CASE net >= 0
  <2>1. n >= 0
    BY <1>1, <1>5
  <2>2. q >= 0
    <3>1. ASSUME q < 0 PROVE FALSE
      <4>1. (q + 1) * FeeDen <= 0
        BY <1>1, <1>3, <3>1
      <4>2. (q + 1) * FeeDen = q * FeeDen + FeeDen
        BY <1>1, <1>3
      <4>3. q * FeeDen \in Int
        BY <1>1, <1>3
      <4> HIDE DEF n, q
      <4> QED
        BY <1>1, <1>2, <1>3, <2>1, <4>1, <4>2, <4>3
    <3> QED
      BY <1>3, <3>1
  <2> HIDE DEF q
  <2> QED
    BY <1>3, <1>4, <2>2 DEF Payout
<1>6. CASE net < 0
  <2>1. n > net * FeeDen
    BY <1>1, <1>6, ProductOfNegative
  <2>2. (q + 1) * FeeDen = q * FeeDen + FeeDen /\ q * FeeDen \in Int /\ net * FeeDen \in Int
    BY <1>1, <1>3
  <2>3. (q + 1) * FeeDen > net * FeeDen
    <3> HIDE DEF n, q
    <3> QED
      BY <1>1, <1>2, <1>3, <2>1, <2>2
  <2>4. q + 1 > net
    <3> HIDE DEF q
    <3> QED
      BY <1>1, <1>3, <2>3, LessTimes
  <2>5. q <= 0
    <3>1. ASSUME q > 0 PROVE FALSE
      <4>1. q * FeeDen > 0
        BY <1>1, <1>3, <3>1
      <4>2. n <= 0
        BY <1>1, <1>6
      <4> HIDE DEF n, q
      <4> QED
        BY <1>2, <1>3, <2>2, <4>1, <4>2
    <3> QED
      BY <1>3, <3>1
  <2> HIDE DEF q
  <2> QED
    BY <1>3, <1>4, <1>6, <2>4, <2>5 DEF Payout
<1> QED
  BY <1>5, <1>6

-----------------------------------------------------------------------------
(* The run goes on where it was; it may have been disturbed. *)
GoesOn(t) ==
  /\ tasks'[t].at = tasks[t].at /\ tasks'[t].left = tasks[t].left
  /\ tasks'[t].merchant = tasks[t].merchant /\ tasks'[t].gross = tasks[t].gross
  /\ tasks'[t].net = tasks[t].net /\ tasks'[t].fee = tasks[t].fee
  /\ tasks'[t].settlement = tasks[t].settlement
  /\ tasks'[t].counted = tasks[t].counted /\ tasks'[t].due = tasks[t].due
  /\ tasks'[t].clean => tasks[t].clean

(* Disturbing the runs of a merchant says so to each of them, but for one. *)
LEMMA DisturbedEffect ==
  ASSUME TypeInv, NEW m, NEW e
  PROVE  /\ Disturbed(m, e) \in [Tasks -> Task]
         /\ \A t \in Tasks :
              /\ tasks' = Disturbed(m, e) => GoesOn(t)
              /\ t # e /\ tasks[t].merchant = m => ~Disturbed(m, e)[t].clean
              /\ t = e \/ tasks[t].merchant # m => Disturbed(m, e)[t] = tasks[t]
<1>1. ASSUME NEW t \in Tasks
      PROVE  /\ Disturbed(m, e)[t] \in Task
             /\ tasks' = Disturbed(m, e) => GoesOn(t)
             /\ t # e /\ tasks[t].merchant = m => ~Disturbed(m, e)[t].clean
             /\ t = e \/ tasks[t].merchant # m => Disturbed(m, e)[t] = tasks[t]
  <2>1. tasks[t] \in Task
    BY DEF TypeInv
  <2> DEFINE k == [tasks[t] EXCEPT !.clean = FALSE]
  <2>2. k \in Task /\ k.clean = FALSE /\ k.at = tasks[t].at /\ k.left = tasks[t].left
        /\ k.merchant = tasks[t].merchant /\ k.gross = tasks[t].gross /\ k.net = tasks[t].net
        /\ k.fee = tasks[t].fee /\ k.settlement = tasks[t].settlement
        /\ k.counted = tasks[t].counted /\ k.due = tasks[t].due
    BY <2>1 DEF Task
  <2>3. Disturbed(m, e)[t] = IF t # e /\ tasks[t].merchant = m THEN k ELSE tasks[t]
    BY DEF Disturbed
  <2> HIDE DEF k
  <2>4. CASE t # e /\ tasks[t].merchant = m
    BY <2>2, <2>3, <2>4 DEF GoesOn
  <2>5. CASE ~(t # e /\ tasks[t].merchant = m)
    BY <2>1, <2>3, <2>5 DEF GoesOn
  <2> QED
    BY <2>4, <2>5
<1>2. Disturbed(m, e) = [t \in Tasks |-> Disturbed(m, e)[t]]
  BY DEF Disturbed
<1> QED
  BY <1>1, <1>2

(* Settlements are never deleted. *)
NoneDeleted == \A s \in SettlementIds : settlements[s].status # "none" => settlements'[s].status # "none"

(* The part of the type invariant that is about the runs. *)
RunsOK ==
  /\ tasks \in [Tasks -> Task]
  /\ \A t \in Tasks : tasks[t].at \in Places /\ tasks[t].left \subseteq Merchants
  /\ \A t \in Tasks : TaskOK(t)

(* One run moves on, the others stay where they are. *)
LEMMA OneRunMoves ==
  ASSUME TypeInv, NoneDeleted, NEW t \in Tasks, NEW k \in Task,
         tasks' = [tasks EXCEPT ![t] = k], TaskOK(t)'
  PROVE  RunsOK' /\ tasks'[t] = k /\ \A u \in Tasks : u # t => tasks'[u] = tasks[u]
<1>1. tasks' \in [Tasks -> Task] /\ tasks'[t] = k /\ \A u \in Tasks : u # t => tasks'[u] = tasks[u]
  BY DEF TypeInv
<1>2. \A u \in Tasks : tasks'[u].at \in Places /\ tasks'[u].left \subseteq Merchants
  BY <1>1 DEF Task
<1>3. ASSUME NEW u \in Tasks PROVE TaskOK(u)'
  BY <1>1 DEF TypeInv, TaskOK, NoneDeleted
<1> QED
  BY <1>1, <1>2, <1>3 DEF RunsOK

(* Runs that are disturbed stay where they are. *)
LEMMA RunsDisturbed ==
  ASSUME TypeInv, NoneDeleted, NEW m, NEW e, tasks' = Disturbed(m, e)
  PROVE  RunsOK' /\ \A t \in Tasks : GoesOn(t)
<1>1. tasks' \in [Tasks -> Task] /\ \A t \in Tasks : GoesOn(t)
  BY DisturbedEffect
<1>2. \A u \in Tasks : tasks'[u].at \in Places /\ tasks'[u].left \subseteq Merchants
  BY <1>1 DEF Task
<1>3. ASSUME NEW u \in Tasks PROVE TaskOK(u)'
  BY <1>1 DEF TypeInv, TaskOK, NoneDeleted, GoesOn
<1> QED
  BY <1>1, <1>2, <1>3 DEF RunsOK

(* Being idle is a state of a task. *)
LEMMA IdleIsTask ==
  ASSUME NEW left \in SUBSET Merchants
  PROVE  /\ IdleTask \in Task /\ IdleTask.at = "idle"
         /\ [IdleTask EXCEPT !.at = "next", !.left = left] \in Task
         /\ [IdleTask EXCEPT !.at = "next", !.left = left].at = "next"
<1>1. IdleTask \in Task /\ IdleTask.at = "idle"
  BY DEF IdleTask, Task, Places
<1>2. "next" \in Places
  BY DEF Places
<1> QED
  BY <1>1, <1>2 DEF Task

(* The loop goes on with the next merchant, or the run is over. *)
LEMMA RunLeaves ==
  ASSUME TypeInv, NoneDeleted, NEW t \in Tasks,
         NextMerchant(t) \/ tasks' = [tasks EXCEPT ![t] = IdleTask]
  PROVE  /\ RunsOK' /\ tasks'[t].at \in {"idle", "next"}
         /\ \A u \in Tasks : u # t => tasks'[u] = tasks[u]
<1> DEFINE next == [IdleTask EXCEPT !.at = "next", !.left = tasks[t].left]
<1>1. tasks[t].left \in SUBSET Merchants
  BY DEF TypeInv, TypeOK
<1>2. IdleTask \in Task /\ IdleTask.at = "idle" /\ next \in Task /\ next.at = "next"
  BY <1>1, IdleIsTask
<1>3. PICK k \in {next, IdleTask} : tasks' = [tasks EXCEPT ![t] = k]
  BY DEF NextMerchant
<1>4. k \in Task /\ k.at \in {"idle", "next"}
  BY <1>2, <1>3
<1>5. tasks'[t] = k
  BY <1>3 DEF TypeInv
<1>6. TaskOK(t)'
  BY <1>4, <1>5 DEF TaskOK, Holding
<1> QED
  BY <1>3, <1>4, <1>5, <1>6, OneRunMoves

(* The part that is about the payments. *)
PaymentsOK ==
  /\ payments \in [PaymentIds -> [status: PaymentStatus, refunded: Nat, settled: BOOLEAN]]
  /\ FinitelyCaptured

SettlementRow == [status: SettlementStatus, merchant: Merchants \cup {None}, amount: Nat,
                  fees: Nat, clean: BOOLEAN]

(* A capture settles nothing and touches no other merchant's payments. *)
LEMMA CaptureEffect ==
  ASSUME TypeInv, NEW p \in PaymentIds, Capture(p)
  PROVE  /\ PaymentsOK'
         /\ \A q \in PaymentIds : payments'[q].settled = payments[q].settled
         /\ \A q \in PaymentIds : Owner[q] # Owner[p] => payments'[q] = payments[q]
<1>1. payments[p] \in [status: PaymentStatus, refunded: Nat, settled: BOOLEAN]
  BY DEF TypeInv, TypeOK
<1> DEFINE row == [payments[p] EXCEPT !.status = "captured"]
<1>2. row \in [status: PaymentStatus, refunded: Nat, settled: BOOLEAN] /\ row.settled = payments[p].settled
  BY <1>1 DEF PaymentStatus
<1>3. payments' = [payments EXCEPT ![p] = row]
  BY DEF Capture
<1> HIDE DEF row
<1>4. /\ payments' \in [PaymentIds -> [status: PaymentStatus, refunded: Nat, settled: BOOLEAN]]
      /\ payments'[p] = row /\ \A q \in PaymentIds : q # p => payments'[q] = payments[q]
  BY <1>2, <1>3 DEF TypeInv, TypeOK
<1>5. FinitelyCaptured'
  <2> DEFINE Old == {q \in PaymentIds : payments[q].status # "authorized"}
             New == {q \in PaymentIds : payments'[q].status # "authorized"}
  <2>1. IsFiniteSet(Old \cup {p})
    BY FS_AddElement DEF TypeInv, FinitelyCaptured
  <2>2. New \subseteq Old \cup {p}
    BY <1>4
  <2>3. IsFiniteSet(New)
    BY <2>1, <2>2, FS_Subset
  <2> QED
    BY <2>3 DEF FinitelyCaptured
<1> QED
  BY <1>2, <1>4, <1>5 DEF PaymentsOK

(* A refund settles nothing and touches no other merchant's payments. *)
LEMMA RefundEffect ==
  ASSUME TypeInv, NEW p \in PaymentIds, NEW a \in 1..Price[p], Refund(p, a)
  PROVE  /\ PaymentsOK'
         /\ \A q \in PaymentIds : payments'[q].settled = payments[q].settled
         /\ \A q \in PaymentIds : Owner[q] # Owner[p] => payments'[q] = payments[q]
<1>1. payments[p] \in [status: PaymentStatus, refunded: Nat, settled: BOOLEAN]
  BY DEF TypeInv, TypeOK
<1>2. Price[p] \in Nat /\ payments[p].refunded \in Nat
  BY <1>1, SettlementAssumption
<1> DEFINE sum == payments[p].refunded + a
           status == IF sum = Price[p] THEN "refunded" ELSE "partially_refunded"
           row == [payments[p] EXCEPT !.refunded = sum, !.status = status]
<1>3. /\ row \in [status: PaymentStatus, refunded: Nat, settled: BOOLEAN]
      /\ row.settled = payments[p].settled
  <2>1. sum \in Nat /\ status \in PaymentStatus
    BY <1>2 DEF PaymentStatus
  <2> HIDE DEF sum, status
  <2> QED
    BY <1>1, <2>1
<1>4. payments' = [payments EXCEPT ![p] = row]
  BY DEF Refund
<1> HIDE DEF row
<1>5. /\ payments' \in [PaymentIds -> [status: PaymentStatus, refunded: Nat, settled: BOOLEAN]]
      /\ payments'[p] = row /\ \A q \in PaymentIds : q # p => payments'[q] = payments[q]
  BY <1>3, <1>4 DEF TypeInv, TypeOK
<1>6. FinitelyCaptured'
  <2> DEFINE Old == {q \in PaymentIds : payments[q].status # "authorized"}
             New == {q \in PaymentIds : payments'[q].status # "authorized"}
  <2>1. IsFiniteSet(Old)
    BY DEF TypeInv, FinitelyCaptured
  <2>2. p \in Old
    BY DEF Refund
  <2>3. New \subseteq Old
    BY <1>5, <2>2
  <2>4. IsFiniteSet(New)
    BY <2>1, <2>3, FS_Subset
  <2> QED
    BY <2>4 DEF FinitelyCaptured
<1> QED
  BY <1>3, <1>5, <1>6 DEF PaymentsOK

(* Marking touches the payments of the settlement's merchant only. *)
LEMMA MarkEffect ==
  ASSUME TypeInv, NEW due \in SUBSET PaymentIds, payments' = Mark(due)
  PROVE  /\ PaymentsOK'
         /\ \A q \in due : payments'[q].settled
         /\ \A q \in PaymentIds : payments[q].settled => payments'[q].settled
         /\ \A q \in PaymentIds : q \notin due => payments'[q] = payments[q]
<1>1. ASSUME NEW q \in PaymentIds
      PROVE  /\ payments'[q] \in [status: PaymentStatus, refunded: Nat, settled: BOOLEAN]
             /\ payments'[q].status = payments[q].status
             /\ q \in due \/ payments[q].settled => payments'[q].settled
             /\ q \notin due => payments'[q] = payments[q]
  <2>1. payments[q] \in [status: PaymentStatus, refunded: Nat, settled: BOOLEAN]
    BY DEF TypeInv, TypeOK
  <2> DEFINE row == [payments[q] EXCEPT !.settled = TRUE]
  <2>2. row \in [status: PaymentStatus, refunded: Nat, settled: BOOLEAN] /\ row.settled = TRUE
        /\ row.status = payments[q].status
    BY <2>1
  <2>3. payments'[q] = IF q \in due THEN row ELSE payments[q]
    BY DEF Mark
  <2> HIDE DEF row
  <2> QED
    BY <2>1, <2>2, <2>3
<1>2. payments' = [q \in PaymentIds |-> payments'[q]]
  BY DEF Mark
<1>3. FinitelyCaptured'
  <2> DEFINE Old == {q \in PaymentIds : payments[q].status # "authorized"}
             New == {q \in PaymentIds : payments'[q].status # "authorized"}
  <2>1. New = Old
    BY <1>1
  <2>2. IsFiniteSet(New)
    BY <2>1 DEF TypeInv, FinitelyCaptured
  <2> QED
    BY <2>2 DEF FinitelyCaptured
<1> QED
  BY <1>1, <1>2, <1>3 DEF PaymentsOK

(* The part that is about the settlements and what surrounds them. *)
SettlementsOK ==
  /\ settlements \in [SettlementIds -> SettlementRow]
  /\ payouts \in [SettlementIds -> Nat]
  /\ edits \in [SettlementIds -> 0..MaxEdits]
HistoryOK ==
  /\ counted \in [SettlementIds -> SUBSET PaymentIds]
  /\ marked \in [SettlementIds -> SUBSET PaymentIds]
SurroundingsOK ==
  /\ live \subseteq Merchants
  /\ queue \subseteq {ScheduledName, TaskName}
  /\ retrying \in [Admins -> SUBSET SettlementIds]
  /\ faults \in 0..MaxFaults

(* The parts make up the type invariant. *)
LEMMA TypeParts == TypeInv <=> RunsOK /\ PaymentsOK /\ SettlementsOK /\ HistoryOK /\ SurroundingsOK
BY DEF TypeInv, TypeOK, RunsOK, PaymentsOK, SettlementsOK, HistoryOK, SurroundingsOK, SettlementRow

(* What a step leaves alone stays well typed. *)
LEMMA PartsKept ==
  ASSUME TypeInv
  PROVE  /\ settlements' = settlements => NoneDeleted
         /\ tasks' = tasks /\ NoneDeleted => RunsOK'
         /\ payments' = payments => PaymentsOK'
         /\ UNCHANGED <<settlements, payouts, edits>> => SettlementsOK'
         /\ UNCHANGED <<counted, marked>> => HistoryOK'
         /\ UNCHANGED <<live, queue, retrying, faults>> => SurroundingsOK'
<1>1. RunsOK /\ PaymentsOK /\ SettlementsOK /\ HistoryOK /\ SurroundingsOK
  BY TypeParts
<1>2. tasks' = tasks /\ NoneDeleted => RunsOK'
  BY <1>1 DEF RunsOK, TaskOK, NoneDeleted
<1> QED
  BY <1>1, <1>2 DEF NoneDeleted, PaymentsOK, FinitelyCaptured, SettlementsOK, HistoryOK, SurroundingsOK

(* A status UPDATE changes one row's status and nothing else. *)
LEMMA StatusEffect ==
  ASSUME TypeInv, NEW s \in SettlementIds, NEW status \in SettlementStatus \ {"none"},
         settlements' = [settlements EXCEPT ![s].status = status]
  PROVE  /\ settlements' \in [SettlementIds -> SettlementRow] /\ NoneDeleted
         /\ settlements'[s].status = status
         /\ \A r \in SettlementIds : r # s => settlements'[r] = settlements[r]
         /\ \A r \in SettlementIds : /\ settlements'[r].amount = settlements[r].amount
                                     /\ settlements'[r].fees = settlements[r].fees
                                     /\ settlements'[r].merchant = settlements[r].merchant
                                     /\ settlements'[r].clean = settlements[r].clean
<1>1. settlements \in [SettlementIds -> SettlementRow]
  BY TypeParts DEF SettlementsOK
<1>2. settlements[s] \in SettlementRow
  BY <1>1
<1> DEFINE row == [settlements[s] EXCEPT !.status = status]
<1>3. row \in SettlementRow /\ row.status = status /\ row.amount = settlements[s].amount
      /\ row.fees = settlements[s].fees /\ row.merchant = settlements[s].merchant
      /\ row.clean = settlements[s].clean
  BY <1>2 DEF SettlementRow
<1>4. settlements' = [settlements EXCEPT ![s] = row]
  OBVIOUS
<1> HIDE DEF row
<1>5. /\ settlements' \in [SettlementIds -> SettlementRow]
      /\ settlements'[s] = row /\ \A r \in SettlementIds : r # s => settlements'[r] = settlements[r]
  BY <1>1, <1>3, <1>4
<1> QED
  BY <1>3, <1>5 DEF NoneDeleted

(* The bank pays a settlement once. *)
LEMMA PayEffect ==
  ASSUME TypeInv, NEW s \in SettlementIds, PayByBank(s), edits' = edits
  PROVE  /\ SettlementsOK' /\ NoneDeleted
         /\ settlements'[s].status = "processed" /\ payouts'[s] = payouts[s] + 1
         /\ \A r \in SettlementIds : r # s => settlements'[r] = settlements[r] /\ payouts'[r] = payouts[r]
         /\ \A r \in SettlementIds : /\ settlements'[r].amount = settlements[r].amount
                                     /\ settlements'[r].fees = settlements[r].fees
                                     /\ settlements'[r].clean = settlements[r].clean
<1>1. "processed" \in SettlementStatus \ {"none"}
  BY DEF SettlementStatus
<1>2. settlements' = [settlements EXCEPT ![s].status = "processed"]
  BY DEF PayByBank
<1>3. payouts \in [SettlementIds -> Nat] /\ edits' \in [SettlementIds -> 0..MaxEdits]
  BY TypeParts DEF SettlementsOK
<1>4. /\ payouts' \in [SettlementIds -> Nat] /\ payouts'[s] = payouts[s] + 1
      /\ \A r \in SettlementIds : r # s => payouts'[r] = payouts[r]
  BY <1>3 DEF PayByBank
<1> QED
  BY <1>1, <1>2, <1>3, <1>4, StatusEffect DEF SettlementsOK

(* A new settlement takes a row that was not there. *)
LEMMA CreateEffect ==
  ASSUME TypeInv, NEW t \in Tasks, NEW s \in SettlementIds, CreateSettlement(t, s)
  PROVE  /\ SettlementsOK' /\ NoneDeleted /\ HistoryOK'
         /\ settlements'[s].status = "processing"
         /\ settlements'[s].amount = Payout(tasks[t].net, tasks[t].fee) /\ settlements'[s].fees = tasks[t].fee
         /\ counted'[s] = tasks[t].counted
         /\ \A r \in SettlementIds : r # s => settlements'[r] = settlements[r] /\ counted'[r] = counted[r]
<1>1. tasks[t] \in Task /\ tasks[t].fee \in Nat /\ Payout(tasks[t].net, tasks[t].fee) \in Nat
  BY DEF TypeInv, TaskOK, CreateSettlement
<1> DEFINE amount == Payout(tasks[t].net, tasks[t].fee)
           row == [status |-> "processing", merchant |-> tasks[t].merchant,
                   amount |-> amount, fees |-> tasks[t].fee, clean |-> TRUE]
<1>2. tasks[t].merchant \in Merchants \cup {None} /\ tasks[t].counted \in SUBSET PaymentIds
  BY <1>1 DEF Task
<1>3. row \in SettlementRow /\ row.status = "processing" /\ row.amount = amount /\ row.fees = tasks[t].fee
  <2> HIDE DEF amount
  <2>1. amount \in Nat
    BY <1>1 DEF amount
  <2> QED
    BY <1>1, <1>2, <2>1 DEF SettlementRow, SettlementStatus
<1>4. settlements' = [settlements EXCEPT ![s] = row]
  BY DEF CreateSettlement
<1> HIDE DEF row
<1>5. settlements \in [SettlementIds -> SettlementRow] /\ counted \in [SettlementIds -> SUBSET PaymentIds]
  BY TypeParts DEF SettlementsOK, HistoryOK
<1>6. /\ settlements' \in [SettlementIds -> SettlementRow]
      /\ settlements'[s] = row /\ \A r \in SettlementIds : r # s => settlements'[r] = settlements[r]
  BY <1>3, <1>4, <1>5
<1>7. /\ counted' \in [SettlementIds -> SUBSET PaymentIds] /\ counted'[s] = tasks[t].counted
      /\ \A r \in SettlementIds : r # s => counted'[r] = counted[r]
  BY <1>2, <1>5 DEF CreateSettlement
<1>8. UNCHANGED <<payouts, edits, marked>>
  BY DEF CreateSettlement
<1>9. SettlementsOK' /\ HistoryOK'
  BY <1>6, <1>7, <1>8, TypeParts DEF SettlementsOK, HistoryOK
<1>10. NoneDeleted
  BY <1>3, <1>6 DEF NoneDeleted
<1> QED
  BY <1>3, <1>6, <1>7, <1>9, <1>10

(* Marking records in the settlement whether its run was undisturbed. *)
LEMMA MarkingEffect ==
  ASSUME TypeInv, NEW t \in Tasks, MarkPayments(t)
  PROVE  /\ tasks[t].settlement \in SettlementIds /\ tasks[t].due \in SUBSET PaymentIds
         /\ SettlementsOK' /\ NoneDeleted /\ HistoryOK' /\ PaymentsOK'
         /\ marked'[tasks[t].settlement] = tasks[t].due
         /\ settlements'[tasks[t].settlement].clean = tasks[t].clean
         /\ \A r \in SettlementIds :
              r # tasks[t].settlement => settlements'[r] = settlements[r] /\ marked'[r] = marked[r]
         /\ \A r \in SettlementIds : /\ settlements'[r].status = settlements[r].status
                                     /\ settlements'[r].amount = settlements[r].amount
                                     /\ settlements'[r].fees = settlements[r].fees
<1>1. tasks[t] \in Task /\ tasks[t].settlement \in SettlementIds
  BY DEF TypeInv, TaskOK, MarkPayments, Holding
<1>2. tasks[t].due \in SUBSET PaymentIds /\ tasks[t].clean \in BOOLEAN
  BY <1>1 DEF Task
<1>3. settlements \in [SettlementIds -> SettlementRow] /\ marked \in [SettlementIds -> SUBSET PaymentIds]
  BY TypeParts DEF SettlementsOK, HistoryOK
<1>4. PICK s \in SettlementIds : s = tasks[t].settlement
  BY <1>1
<1>5. settlements[s] \in SettlementRow
  BY <1>3
<1> DEFINE row == [settlements[s] EXCEPT !.clean = tasks[t].clean]
<1>6. row \in SettlementRow /\ row.status = settlements[s].status /\ row.amount = settlements[s].amount
      /\ row.fees = settlements[s].fees /\ row.clean = tasks[t].clean
  BY <1>2, <1>5 DEF SettlementRow
<1>7. settlements' = [settlements EXCEPT ![s] = row]
  BY <1>4 DEF MarkPayments
<1> HIDE DEF row
<1>8. /\ settlements' \in [SettlementIds -> SettlementRow]
      /\ settlements'[s] = row /\ \A r \in SettlementIds : r # s => settlements'[r] = settlements[r]
  BY <1>3, <1>6, <1>7
<1>9. /\ marked' \in [SettlementIds -> SUBSET PaymentIds] /\ marked'[s] = tasks[t].due
      /\ \A r \in SettlementIds : r # s => marked'[r] = marked[r]
  BY <1>2, <1>3, <1>4 DEF MarkPayments
<1>10. UNCHANGED <<payouts, edits, counted>> /\ payments' = Mark(tasks[t].due)
  BY DEF MarkPayments
<1>11. SettlementsOK' /\ HistoryOK'
  BY <1>8, <1>9, <1>10, TypeParts DEF SettlementsOK, HistoryOK
<1>12. PaymentsOK'
  BY <1>2, <1>10, MarkEffect
<1>13. NoneDeleted
  BY <1>6, <1>8 DEF NoneDeleted
<1> QED
  BY <1>2, <1>4, <1>6, <1>8, <1>9, <1>11, <1>12, <1>13

(* Settlements on hold were being processed, the others are as they were. *)
LEMMA HoldEffect ==
  ASSUME TypeInv, NEW S \in SUBSET SettlementIds, MarkOnHold(S)
  PROVE  /\ settlements' \in [SettlementIds -> SettlementRow] /\ NoneDeleted
         /\ \A r \in SettlementIds :
              \/ settlements'[r].status = settlements[r].status
              \/ settlements[r].status = "processing" /\ settlements'[r].status = "on_hold"
         /\ \A r \in SettlementIds : /\ settlements'[r].amount = settlements[r].amount
                                     /\ settlements'[r].fees = settlements[r].fees
                                     /\ settlements'[r].clean = settlements[r].clean
<1>1. ASSUME NEW r \in SettlementIds
      PROVE  /\ settlements'[r] \in SettlementRow
             /\ \/ settlements'[r] = settlements[r]
                \/ settlements[r].status = "processing" /\ settlements'[r].status = "on_hold"
             /\ settlements'[r].amount = settlements[r].amount
             /\ settlements'[r].fees = settlements[r].fees
             /\ settlements'[r].clean = settlements[r].clean
  <2>1. settlements[r] \in SettlementRow
    BY TypeParts DEF SettlementsOK
  <2> DEFINE row == [settlements[r] EXCEPT !.status = "on_hold"]
  <2>2. row \in SettlementRow /\ row.status = "on_hold" /\ row.amount = settlements[r].amount
        /\ row.fees = settlements[r].fees /\ row.clean = settlements[r].clean
    BY <2>1 DEF SettlementRow, SettlementStatus
  <2>3. \/ settlements'[r] = settlements[r]
        \/ settlements[r].status = "processing" /\ settlements'[r] = row
    BY DEF MarkOnHold
  <2> HIDE DEF row
  <2> QED
    BY <2>1, <2>2, <2>3
<1>2. settlements' = [r \in SettlementIds |-> settlements'[r]]
  BY DEF MarkOnHold
<1>3. settlements' \in [SettlementIds -> SettlementRow]
  BY <1>1, <1>2
<1>4. NoneDeleted
  BY <1>1 DEF NoneDeleted
<1> QED
  BY <1>1, <1>3, <1>4

-----------------------------------------------------------------------------
(* The type invariant holds initially. *)
LEMMA TypeInit == Init => TypeInv
<1> SUFFICES ASSUME Init PROVE TypeInv
  OBVIOUS
<1>1. IdleTask \in Task /\ IdleTask.at = "idle"
  BY IdleIsTask
<1>2. RunsOK
  <2>1. tasks \in [Tasks -> Task] /\ \A t \in Tasks : tasks[t] = IdleTask
    BY <1>1 DEF Init
  <2>2. ASSUME NEW t \in Tasks PROVE tasks[t].at \in Places /\ tasks[t].left \subseteq Merchants
    BY <2>1 DEF Task
  <2>3. ASSUME NEW t \in Tasks PROVE TaskOK(t)
    BY <1>1, <2>1 DEF TaskOK, Holding
  <2> QED
    BY <2>1, <2>2, <2>3 DEF RunsOK
<1>3. PaymentsOK
  <2>1. {p \in PaymentIds : payments[p].status # "authorized"} = {}
    BY DEF Init
  <2>2. FinitelyCaptured
    BY <2>1, FS_EmptySet DEF FinitelyCaptured
  <2> QED
    BY <2>2 DEF PaymentsOK, Init, PaymentStatus
<1>4. SettlementsOK
  <2>1. NoSettlement \in SettlementRow
    BY DEF NoSettlement, SettlementRow, SettlementStatus
  <2>2. 0 \in 0..MaxEdits
    BY SettlementAssumption
  <2> QED
    BY <2>1, <2>2 DEF SettlementsOK, Init
<1>5. HistoryOK
  BY DEF HistoryOK, Init
<1>6. SurroundingsOK
  BY SettlementAssumption DEF SurroundingsOK, Init
<1> QED
  BY <1>2, <1>3, <1>4, <1>5, <1>6, TypeParts

(* What a run has after each of its steps. *)
LEMMA WorkTypes ==
  ASSUME TypeInv, NEW t \in Tasks, Work(t)
  PROVE  RunsOK' /\ \A u \in Tasks : u # t => GoesOn(u)
<1> DEFINE k == tasks[t]
<1>1. k \in Task /\ TaskOK(t) /\ \A u \in Tasks : tasks[u] \in Task
  BY DEF TypeInv
<1>2. \A u \in Tasks : tasks'[u] = tasks[u] => GoesOn(u)
  BY DEF GoesOn
<1>3. settlements' = settlements => NoneDeleted
  BY DEF NoneDeleted
<1>4. ASSUME NoneDeleted, NEW j \in Task, tasks' = [tasks EXCEPT ![t] = j], TaskOK(t)'
      PROVE  RunsOK' /\ \A u \in Tasks : u # t => GoesOn(u)
  BY <1>2, <1>4, OneRunMoves
<1>5. CASE WorkerTakes(t)
  <2>1. CASE tasks' = tasks
    <3>1. NoneDeleted
      BY <1>3, <1>5 DEF WorkerTakes
    <3> QED
      BY <1>2, <2>1, <3>1, PartsKept
  <2>2. CASE tasks' = [tasks EXCEPT ![t] = [IdleTask EXCEPT !.at = "next", !.left = live]]
    <3> DEFINE j == [IdleTask EXCEPT !.at = "next", !.left = live]
    <3>1. live \in SUBSET Merchants
      BY DEF TypeInv, TypeOK
    <3>2. j \in Task /\ j.at = "next"
      BY <3>1, IdleIsTask
    <3>3. tasks' = [tasks EXCEPT ![t] = j]
      BY <2>2
    <3> HIDE DEF j
    <3>4. tasks'[t] = j
      BY <3>3 DEF TypeInv
    <3>5. TaskOK(t)'
      BY <3>2, <3>4 DEF TaskOK, Holding
    <3>6. NoneDeleted
      BY <1>3, <1>5 DEF WorkerTakes
    <3> QED
      BY <1>4, <3>2, <3>3, <3>5, <3>6
  <2> QED
    BY <1>5, <2>1, <2>2 DEF WorkerTakes
<1>6. CASE TakeMerchant(t)
  <2>1. PICK m \in k.left : tasks' = [tasks EXCEPT ![t] =
          [IdleTask EXCEPT !.left = tasks[t].left \ {m},
                           !.at = IF Due(m) = {} THEN "next" ELSE "gross",
                           !.merchant = IF Due(m) = {} THEN None ELSE m]]
    BY <1>6 DEF TakeMerchant
  <2> DEFINE at == IF Due(m) = {} THEN "next" ELSE "gross"
             merchant == IF Due(m) = {} THEN None ELSE m
             left == tasks[t].left \ {m}
             j == [IdleTask EXCEPT !.left = left, !.at = at, !.merchant = merchant]
  <2>2. left \in SUBSET Merchants /\ m \in Merchants
    BY <1>1 DEF Task
  <2>3. at \in {"next", "gross"} /\ merchant \in Merchants \cup {None} /\ (at = "gross" => merchant \in Merchants)
    BY <2>2
  <2>4. tasks' = [tasks EXCEPT ![t] = j]
    BY <2>1
  <2> HIDE DEF at, merchant, left
  <2>5. j \in Task /\ j.at = at /\ j.merchant = merchant
    BY <2>2, <2>3, IdleIsTask DEF Task, Places
  <2> HIDE DEF j
  <2>6. tasks'[t] = j
    BY <2>4 DEF TypeInv
  <2>7. TaskOK(t)'
    BY <2>3, <2>5, <2>6 DEF TaskOK, Holding
  <2> QED
    BY <1>3, <1>4, <1>6, <2>4, <2>5, <2>7 DEF TakeMerchant
<1>7. CASE FinishRun(t)
  <2>1. NoneDeleted /\ tasks' = [tasks EXCEPT ![t] = IdleTask]
    BY <1>3, <1>7 DEF FinishRun
  <2> QED
    BY <1>2, <2>1, RunLeaves
<1>8. CASE SumGross(t)
  <2> DEFINE due == Due(k.merchant)
             j == [k EXCEPT !.at = "refunds", !.gross = Total(due), !.counted = due]
  <2>1. due \in SUBSET PaymentIds /\ Total(due) \in Nat
    BY DueSums
  <2>2. tasks' = [tasks EXCEPT ![t] = j] /\ k.at = "gross" /\ k.merchant \in Merchants
    BY <1>1, <1>8 DEF SumGross, TaskOK
  <2> HIDE DEF due
  <2>3. j \in Task /\ j.at = "refunds" /\ j.merchant = k.merchant
    BY <1>1, <2>1 DEF Task, Places
  <2>4. tasks'[t] = j
    BY <2>2 DEF TypeInv
  <2> HIDE DEF j
  <2>5. TaskOK(t)'
    BY <2>2, <2>3, <2>4 DEF TaskOK, Holding
  <2> QED
    BY <1>3, <1>4, <1>8, <2>2, <2>3, <2>5 DEF SumGross
<1>9. CASE SumRefunded(t)
  <2>0. Net(k.gross, TotalRefunded(Due(k.merchant))) \in Int /\ k.merchant \in Merchants
    <3>1. TotalRefunded(Due(k.merchant)) \in Nat /\ k.gross \in Nat
      BY <1>1, DueSums DEF Task
    <3> QED
      BY <1>1, <1>9, <3>1 DEF SumRefunded, TaskOK, Net
  <2>1. PICK net \in Int : net = Net(k.gross, TotalRefunded(Due(k.merchant)))
    BY <2>0
  <2>2. PICK fee \in Fees(net) :
          IF Payout(net, fee) <= 0
          THEN NextMerchant(t)
          ELSE tasks' = [tasks EXCEPT ![t].at = "create", ![t].net = net, ![t].fee = fee]
    BY <1>9, <2>1 DEF SumRefunded
  <2>3. Payout(net, fee) \in Int
    <3>1. fee \in Int
      <4>1. FeeNum \in Nat /\ FeeDen \in Nat /\ FeeDen > 0
        BY SettlementAssumption
      <4>2. net * FeeNum \in Int
        BY <2>1, <4>1
      <4>3. (net * FeeNum) \div FeeDen \in Int
        BY <4>1, <4>2, Quotient
      <4> QED
        BY <2>2, <4>3 DEF Fees
    <3> QED
      BY <2>1, <3>1 DEF Payout
  <2>4. CASE Payout(net, fee) <= 0
    <3>1. NextMerchant(t) /\ NoneDeleted
      BY <1>3, <1>9, <2>2, <2>4 DEF SumRefunded
    <3> QED
      BY <1>2, <3>1, RunLeaves
  <2>5. CASE Payout(net, fee) > 0
    <3> DEFINE j == [k EXCEPT !.at = "create", !.net = net, !.fee = fee]
    <3>1. fee \in Nat /\ Payout(net, fee) \in Nat
      BY <2>1, <2>2, <2>5, FeeIsNatural
    <3>2. tasks' = [tasks EXCEPT ![t] = j]
      <4>1. tasks' = [tasks EXCEPT ![t].at = "create", ![t].net = net, ![t].fee = fee]
        BY <2>2, <2>3, <2>5
      <4> QED
        BY <4>1
    <3>3. j \in Task /\ j.at = "create" /\ j.net = net /\ j.fee = fee /\ j.merchant = k.merchant
      <4>1. net \in Int /\ fee \in Int /\ k \in Task
        BY <1>1, <2>1, <3>1
      <4> HIDE DEF k
      <4> QED
        BY <4>1 DEF Task, Places
    <3>4. tasks'[t] = j
      BY <3>2 DEF TypeInv
    <3> HIDE DEF j
    <3>5. TaskOK(t)'
      BY <2>0, <3>1, <3>3, <3>4 DEF TaskOK, Holding, Payout
    <3> QED
      BY <1>3, <1>4, <1>9, <3>2, <3>3, <3>5 DEF SumRefunded
  <2> QED
    BY <2>3, <2>4, <2>5
<1>10. ASSUME NEW s \in SettlementIds, CreateSettlement(t, s)
       PROVE  RunsOK' /\ \A u \in Tasks : u # t => GoesOn(u)
  <2> DEFINE j == [k EXCEPT !.at = "payout", !.settlement = s]
  <2>1. tasks' = [tasks EXCEPT ![t] = j] /\ k.merchant \in Merchants
    BY <1>1, <1>10 DEF CreateSettlement, TaskOK
  <2>2. j \in Task /\ j.at = "payout" /\ j.settlement = s /\ j.merchant = k.merchant
    BY <1>1 DEF Task, Places
  <2>3. tasks'[t] = j
    BY <2>1 DEF TypeInv
  <2> HIDE DEF j
  <2>4. TaskOK(t)' /\ NoneDeleted
    BY <1>10, <2>1, <2>2, <2>3, CreateEffect DEF TaskOK
  <2> QED
    BY <1>4, <2>1, <2>2, <2>4
<1>11. CASE BankPayout(t) \/ NotifyMerchant(t)
  <2>1. PICK at \in {"notify", "select"} : tasks' = [tasks EXCEPT ![t].at = at]
    BY <1>11 DEF BankPayout, NotifyMerchant
  <2> DEFINE j == [k EXCEPT !.at = at]
  <2>2. k.at \in Holding /\ k.merchant \in Merchants /\ k.settlement \in SettlementIds
        /\ settlements[k.settlement].status # "none"
    BY <1>1, <1>11 DEF BankPayout, NotifyMerchant, Holding, TaskOK
  <2>3. tasks' = [tasks EXCEPT ![t] = j]
    BY <2>1
  <2>4. j \in Task /\ j.at = at /\ j.settlement = k.settlement /\ j.merchant = k.merchant
    BY <1>1 DEF Task, Places
  <2>5. tasks'[t] = j
    BY <2>3 DEF TypeInv
  <2> HIDE DEF j
  <2>6. NoneDeleted
    BY <1>3, <1>11, <2>2, PayEffect DEF BankPayout, NotifyMerchant
  <2>7. TaskOK(t)'
    BY <2>2, <2>4, <2>5, <2>6 DEF TaskOK, Holding, NoneDeleted
  <2> QED
    BY <1>4, <2>3, <2>4, <2>6, <2>7
<1>12. CASE SelectDue(t)
  <2> DEFINE due == Due(k.merchant)
             j == [k EXCEPT !.at = "mark", !.due = due]
  <2>1. due \in SUBSET PaymentIds
    BY DueSums
  <2>2. k.at \in Holding /\ k.merchant \in Merchants /\ k.settlement \in SettlementIds
        /\ settlements[k.settlement].status # "none"
    BY <1>1, <1>12 DEF SelectDue, Holding, TaskOK
  <2>3. tasks' = [tasks EXCEPT ![t] = j]
    BY <1>12 DEF SelectDue
  <2> HIDE DEF due
  <2>4. j \in Task /\ j.at = "mark" /\ j.settlement = k.settlement /\ j.merchant = k.merchant
    BY <1>1, <2>1 DEF Task, Places
  <2>5. tasks'[t] = j
    BY <2>3 DEF TypeInv
  <2> HIDE DEF j
  <2>6. NoneDeleted
    BY <1>3, <1>12 DEF SelectDue
  <2>7. TaskOK(t)'
    BY <2>2, <2>4, <2>5, <2>6 DEF TaskOK, NoneDeleted
  <2> QED
    BY <1>4, <2>3, <2>4, <2>6, <2>7
<1>13. CASE MarkPayments(t)
  <2> DEFINE d == Disturbed(k.merchant, t)
             j == [IdleTask EXCEPT !.at = "next", !.left = k.left]
  <2>1. tasks' = [d EXCEPT ![t] = j] /\ NoneDeleted
    BY <1>13, MarkingEffect DEF MarkPayments
  <2>2. j \in Task /\ j.at = "next"
    BY <1>1, IdleIsTask DEF Task
  <2>3. d \in [Tasks -> Task]
    BY DisturbedEffect
  <2>4. \A u \in Tasks : \/ d[u] = tasks[u]
                         \/ d[u] = [tasks[u] EXCEPT !.clean = FALSE]
    BY DEF Disturbed
  <2> HIDE DEF d, j
  <2>5. tasks' \in [Tasks -> Task] /\ tasks'[t] = j /\ \A u \in Tasks : u # t => tasks'[u] = d[u]
    BY <2>1, <2>2, <2>3
  <2>6. ASSUME NEW u \in Tasks, u # t PROVE GoesOn(u)
    <3>1. tasks[u] \in Task /\ tasks'[u] = d[u]
      BY <1>1, <2>5, <2>6
    <3>2. CASE tasks'[u] = tasks[u]
      BY <3>2 DEF GoesOn
    <3>3. CASE tasks'[u] = [tasks[u] EXCEPT !.clean = FALSE]
      <4> DEFINE c == [tasks[u] EXCEPT !.clean = FALSE]
      <4>1. /\ c.at = tasks[u].at /\ c.left = tasks[u].left /\ c.merchant = tasks[u].merchant
            /\ c.gross = tasks[u].gross /\ c.net = tasks[u].net /\ c.fee = tasks[u].fee
            /\ c.settlement = tasks[u].settlement /\ c.counted = tasks[u].counted /\ c.due = tasks[u].due
            /\ ~c.clean
        BY <3>1 DEF Task
      <4>2. tasks'[u] = c
        BY <3>3
      <4> HIDE DEF c
      <4> QED
        BY <4>1, <4>2 DEF GoesOn
    <3> QED
      BY <2>4, <3>1, <3>2, <3>3
  <2>7. \A u \in Tasks : tasks'[u].at \in Places /\ tasks'[u].left \subseteq Merchants
    BY <2>5 DEF Task
  <2>8. ASSUME NEW u \in Tasks PROVE TaskOK(u)'
    BY <2>1, <2>2, <2>5, <2>6 DEF TypeInv, TaskOK, NoneDeleted, GoesOn, Holding
  <2> QED
    BY <2>5, <2>6, <2>7, <2>8 DEF RunsOK
<1> QED
  BY <1>5, <1>6, <1>7, <1>8, <1>9, <1>10, <1>11, <1>12, <1>13 DEF Work

(* Every step keeps the type invariant. *)
LEMMA TypeStep == ASSUME TypeInv, [Next]_vars PROVE TypeInv'
<1>0. RunsOK /\ PaymentsOK /\ SettlementsOK /\ HistoryOK /\ SurroundingsOK
  BY TypeParts
<1>1. SUFFICES RunsOK' /\ PaymentsOK' /\ SettlementsOK' /\ HistoryOK' /\ SurroundingsOK'
  BY TypeParts, PTL
<1>2. ASSUME NEW t \in Tasks, Work(t)
      PROVE  RunsOK' /\ PaymentsOK' /\ SettlementsOK' /\ HistoryOK' /\ SurroundingsOK'
  <2>1. RunsOK'
    BY <1>2, WorkTypes
  <2>2. CASE WorkerTakes(t)
    <3>1. SurroundingsOK'
      BY <1>0, <2>2 DEF WorkerTakes, SurroundingsOK
    <3> QED
      BY <2>1, <2>2, <3>1, PartsKept DEF WorkerTakes
  <2>3. CASE TakeMerchant(t) \/ FinishRun(t) \/ SumGross(t) \/ SumRefunded(t) \/ NotifyMerchant(t) \/ SelectDue(t)
    <3>1. UNCHANGED <<payments, settlements, live, queue, retrying, counted, marked, payouts, faults, edits>>
      BY <2>3 DEF TakeMerchant, FinishRun, SumGross, SumRefunded, NotifyMerchant, SelectDue
    <3> QED
      BY <2>1, <3>1, PartsKept
  <2>4. ASSUME NEW s \in SettlementIds, CreateSettlement(t, s)
        PROVE  PaymentsOK' /\ SettlementsOK' /\ HistoryOK' /\ SurroundingsOK'
    BY <2>4, CreateEffect, PartsKept DEF CreateSettlement
  <2>5. CASE BankPayout(t)
    <3>1. tasks[t].settlement \in SettlementIds
      BY <2>5 DEF TypeInv, TaskOK, BankPayout, Holding
    <3> QED
      BY <2>1, <2>5, <3>1, PayEffect, PartsKept DEF BankPayout
  <2>6. CASE MarkPayments(t)
    BY <2>1, <2>6, MarkingEffect, PartsKept DEF MarkPayments
  <2> QED
    BY <1>2, <2>1, <2>2, <2>3, <2>4, <2>5, <2>6 DEF Work
<1>3. ASSUME NEW t \in Tasks, StatementRaises(t) \/ WorkerKilled(t)
      PROVE  RunsOK' /\ PaymentsOK' /\ SettlementsOK' /\ HistoryOK' /\ SurroundingsOK'
  <2>1. /\ UNCHANGED <<payments, settlements, live, queue, retrying, counted, marked, payouts, edits>>
        /\ faults < MaxFaults /\ faults' = faults + 1
        /\ NextMerchant(t) \/ tasks' = [tasks EXCEPT ![t] = IdleTask]
    BY <1>3 DEF StatementRaises, WorkerKilled
  <2>2. SurroundingsOK'
    BY <1>0, <2>1, SettlementAssumption DEF SurroundingsOK
  <2>3. NoneDeleted
    BY <2>1, PartsKept
  <2> QED
    BY <2>1, <2>2, <2>3, RunLeaves, PartsKept
<1>4. CASE BeatFires \/ OperatorCalls
  <2>1. PICK name \in {ScheduledName, TaskName} : Send(name)
    BY <1>4 DEF BeatFires, OperatorCalls
  <2>2. SurroundingsOK'
    BY <1>0, <2>1 DEF Send, SurroundingsOK
  <2> QED
    BY <2>1, <2>2, PartsKept DEF Send
<1>5. ASSUME NEW p \in PaymentIds, Capture(p) \/ \E a \in 1..Price[p] : Refund(p, a)
      PROVE  RunsOK' /\ PaymentsOK' /\ SettlementsOK' /\ HistoryOK' /\ SurroundingsOK'
  <2>1. /\ UNCHANGED <<settlements, live, queue, retrying, counted, marked, payouts, faults, edits>>
        /\ tasks' = Disturbed(Owner[p], None)
    BY <1>5 DEF Capture, Refund
  <2>2. PaymentsOK'
    BY <1>5, CaptureEffect, RefundEffect
  <2>3. NoneDeleted
    BY <2>1, PartsKept
  <2>4. RunsOK'
    BY <2>1, <2>3, RunsDisturbed
  <2> QED
    BY <2>1, <2>2, <2>4, PartsKept
<1>6. ASSUME NEW m \in Merchants, Suspend(m)
      PROVE  RunsOK' /\ PaymentsOK' /\ SettlementsOK' /\ HistoryOK' /\ SurroundingsOK'
  <2>1. SurroundingsOK'
    BY <1>0, <1>6 DEF Suspend, SurroundingsOK
  <2> QED
    BY <1>6, <2>1, PartsKept DEF Suspend
<1>7. ASSUME NEW S \in SUBSET SettlementIds, MarkOnHold(S)
      PROVE  RunsOK' /\ PaymentsOK' /\ SettlementsOK' /\ HistoryOK' /\ SurroundingsOK'
  <2>1. settlements' \in [SettlementIds -> SettlementRow] /\ NoneDeleted
    BY <1>7, HoldEffect
  <2>2. SettlementsOK'
    BY <1>0, <1>7, <2>1 DEF SettlementsOK, MarkOnHold
  <2> QED
    BY <1>7, <2>1, <2>2, PartsKept DEF MarkOnHold
<1>8. ASSUME NEW s \in SettlementIds, SetFailed(s)
      PROVE  RunsOK' /\ PaymentsOK' /\ SettlementsOK' /\ HistoryOK' /\ SurroundingsOK'
  <2>1. settlements' \in [SettlementIds -> SettlementRow] /\ NoneDeleted
    BY <1>8, StatusEffect DEF SetFailed, SettlementStatus
  <2>2. edits' \in [SettlementIds -> 0..MaxEdits]
    BY <1>0, <1>8, SettlementAssumption DEF SettlementsOK, SetFailed
  <2>3. SettlementsOK'
    BY <1>0, <1>8, <2>1, <2>2 DEF SettlementsOK, SetFailed
  <2> QED
    BY <1>8, <2>1, <2>3, PartsKept DEF SetFailed
<1>9. ASSUME NEW a \in Admins, RetryPayout(a)
      PROVE  RunsOK' /\ PaymentsOK' /\ SettlementsOK' /\ HistoryOK' /\ SurroundingsOK'
  <2>1. PICK s \in retrying[a] : PayByBank(s) /\ retrying' = [retrying EXCEPT ![a] = @ \ {s}]
    BY <1>9 DEF RetryPayout
  <2>2. s \in SettlementIds /\ UNCHANGED <<payments, live, queue, tasks, counted, marked, faults, edits>>
    BY <1>0, <1>9 DEF SurroundingsOK, RetryPayout
  <2>3. SettlementsOK' /\ NoneDeleted
    BY <2>1, <2>2, PayEffect
  <2>4. SurroundingsOK'
    BY <1>0, <2>1, <2>2 DEF SurroundingsOK
  <2> QED
    BY <2>2, <2>3, <2>4, PartsKept
<1>10. ASSUME NEW a \in Admins, NEW S \in SUBSET SettlementIds, LoadRetries(a, S)
       PROVE  RunsOK' /\ PaymentsOK' /\ SettlementsOK' /\ HistoryOK' /\ SurroundingsOK'
  <2>1. SurroundingsOK'
    BY <1>0, <1>10 DEF SurroundingsOK, LoadRetries, Retryable
  <2> QED
    BY <1>10, <2>1, PartsKept DEF LoadRetries
<1>11. CASE UNCHANGED vars
  BY <1>11, PartsKept DEF vars
<1> QED
  BY <1>2, <1>3, <1>4, <1>5, <1>6, <1>7, <1>8, <1>9, <1>10, <1>11 DEF Next

(* The rows, the runs and their histories stay well typed, for any number of *)
(* runs at any of their places.                                              *)
LEMMA TypeInvariant == Spec => []TypeInv
<1>1. Init => TypeInv
  BY TypeInit
<1>2. TypeInv /\ [Next]_vars => TypeInv'
  BY TypeStep
<1> QED
  BY <1>1, <1>2, PTL DEF Spec

-----------------------------------------------------------------------------
(* Who may pay a settlement *)

(* A run is about to have the bank pay the settlement. *)
Paying(t, s) == tasks[t].at = "payout" /\ tasks[t].settlement = s
AboutToPay(s) == \E t \in Tasks : Paying(t, s)

(* The settlement is, or was when an administrator loaded it, to be retried. *)
ToRetry(s) == settlements[s].status = "failed" \/ \E a \in Admins : s \in retrying[a]

Coming(s) == (IF AboutToPay(s) THEN 1 ELSE 0) + (IF ToRetry(s) THEN 1 ELSE 0)

(* No two runs pay the same settlement. *)
OnePayer == \A t, u \in Tasks, s \in SettlementIds : Paying(t, s) /\ Paying(u, s) => t = u

(* A payout needs a run of its own or a failure that is not answered yet: the  *)
(* payouts there were and those that are coming fit into one and the failures. *)
PaidOK(s) ==
  /\ payouts[s] + Coming(s) <= 1 + edits[s]
  /\ settlements[s].status = "none" => payouts[s] = 0 /\ ~ToRetry(s)

PaidInv == OnePayer /\ \A s \in SettlementIds : PaidOK(s)

(* One administrator at a time retries. *)
OneRetrier == \A a, b \in Admins : a = b

(* It only takes a new payer to disturb a settlement's share. *)
LEMMA PaidKept ==
  ASSUME TypeInv, PaidInv, TypeInv', NEW s \in SettlementIds,
         payouts'[s] = payouts[s], edits'[s] = edits[s],
         settlements'[s].status = "none" => settlements[s].status = "none",
         AboutToPay(s)' => AboutToPay(s), ToRetry(s)' => ToRetry(s)
  PROVE  PaidOK(s)'
<1>1. payouts[s] \in Nat /\ edits[s] \in Nat
  BY SettlementAssumption, TypeParts DEF SettlementsOK
<1>2. Coming(s)' <= Coming(s) /\ Coming(s) \in Nat /\ Coming(s)' \in Nat
  BY DEF Coming
<1>3. payouts[s] + Coming(s) <= 1 + edits[s]
  BY DEF PaidInv, PaidOK
<1>4. payouts'[s] + Coming(s)' <= 1 + edits'[s]
  <2> HIDE DEF Coming
  <2> QED
    BY <1>1, <1>2, <1>3
<1>5. settlements'[s].status = "none" => payouts'[s] = 0 /\ ~ToRetry(s)'
  BY DEF PaidInv, PaidOK
<1> QED
  BY <1>4, <1>5 DEF PaidOK

(* As long as no run reaches a payout, nobody new shares one. *)
LEMMA PayersKept ==
  ASSUME TypeInv, PaidInv,
         \A t \in Tasks, s \in SettlementIds : Paying(t, s)' => Paying(t, s)
  PROVE  /\ OnePayer'
         /\ \A s \in SettlementIds : AboutToPay(s)' => AboutToPay(s)
BY DEF PaidInv, OnePayer, AboutToPay

(* At first nothing was paid. *)
LEMMA PaidInit == Init => PaidInv
<1> SUFFICES ASSUME Init PROVE PaidInv
  OBVIOUS
<1>1. \A t \in Tasks, s \in SettlementIds : ~Paying(t, s)
  BY DEF Init, IdleTask, Paying
<1>2. ASSUME NEW s \in SettlementIds PROVE PaidOK(s)
  <2>1. ~AboutToPay(s) /\ ~ToRetry(s)
    BY <1>1 DEF AboutToPay, ToRetry, Init, NoSettlement
  <2>2. payouts[s] = 0 /\ edits[s] = 0
    BY DEF Init
  <2> QED
    BY <2>1, <2>2 DEF PaidOK, Coming
<1> QED
  BY <1>1, <1>2 DEF PaidInv, OnePayer

(* Every step keeps the payouts within the failures: a new settlement brings *)
(* one run that pays it, an edit one retry; each payout uses up its payer.   *)
LEMMA PaidStep ==
  ASSUME OneRetrier, TypeInv, TypeInv', PaidInv, [Next]_vars
  PROVE  PaidInv'
<1> SUFFICES OnePayer' /\ \A s \in SettlementIds : PaidOK(s)'
  BY DEF PaidInv
<1>a. \A s \in SettlementIds : payouts[s] \in Nat /\ edits[s] \in Nat
  BY SettlementAssumption, TypeParts DEF SettlementsOK
(* Steps that touch neither the settlements nor the retries. *)
<1>1. ASSUME UNCHANGED <<settlements, retrying, payouts, edits>>,
             \A t \in Tasks, s \in SettlementIds : Paying(t, s)' => Paying(t, s)
      PROVE  OnePayer' /\ \A s \in SettlementIds : PaidOK(s)'
  <2>1. \A s \in SettlementIds : ToRetry(s)' => ToRetry(s)
    BY <1>1 DEF ToRetry
  <2>2. OnePayer' /\ \A s \in SettlementIds : AboutToPay(s)' => AboutToPay(s)
    BY <1>1, PayersKept
  <2> QED
    BY <1>1, <2>1, <2>2, PaidKept
<1>2. ASSUME NEW t \in Tasks, \A u \in Tasks : u # t => GoesOn(u), tasks'[t].at # "payout"
      PROVE  \A u \in Tasks, s \in SettlementIds : Paying(u, s)' => Paying(u, s)
  BY <1>2 DEF Paying, GoesOn
<1>3. ASSUME NEW t \in Tasks, Work(t) PROVE OnePayer' /\ \A s \in SettlementIds : PaidOK(s)'
  <2>1. \A u \in Tasks : u # t => GoesOn(u)
    BY <1>3, WorkTypes
  <2>2. CASE WorkerTakes(t) \/ TakeMerchant(t) \/ FinishRun(t) \/ SumGross(t) \/ SumRefunded(t)
             \/ NotifyMerchant(t) \/ SelectDue(t)
    <3>1. tasks'[t].at # "payout"
      <4>1. tasks[t] \in Task /\ tasks \in [Tasks -> Task]
        BY DEF TypeInv
      <4>2. CASE WorkerTakes(t)
        BY <4>1, <4>2 DEF WorkerTakes, IdleTask
      <4>3. CASE TakeMerchant(t)
        BY <4>1, <4>3 DEF TakeMerchant, IdleTask
      <4>4. CASE FinishRun(t)
        BY <4>1, <4>4 DEF FinishRun, IdleTask
      <4>5. CASE SumGross(t)
        BY <4>1, <4>5 DEF SumGross, Task
      <4>6. CASE SumRefunded(t)
        <5>1. PICK net, fee : tasks' = [tasks EXCEPT ![t].at = "create", ![t].net = net, ![t].fee = fee]
                              \/ NextMerchant(t)
          BY <4>6 DEF SumRefunded
        <5>2. CASE NextMerchant(t)
          BY <4>1, <5>2 DEF NextMerchant, IdleTask
        <5>3. CASE tasks' = [tasks EXCEPT ![t].at = "create", ![t].net = net, ![t].fee = fee]
          <6>1. tasks' = [tasks EXCEPT ![t] = [tasks[t] EXCEPT !.at = "create", !.net = net, !.fee = fee]]
            BY <5>3
          <6>2. tasks'[t] = [tasks[t] EXCEPT !.at = "create", !.net = net, !.fee = fee]
            BY <4>1, <6>1
          <6> QED
            BY <4>1, <6>2 DEF Task
        <5> QED
          BY <5>1, <5>2, <5>3
      <4>7. CASE NotifyMerchant(t)
        BY <4>1, <4>7 DEF NotifyMerchant, Task
      <4>8. CASE SelectDue(t)
        BY <4>1, <4>8 DEF SelectDue, Task
      <4> QED
        BY <2>2, <4>2, <4>3, <4>4, <4>5, <4>6, <4>7, <4>8
    <3>2. UNCHANGED <<settlements, retrying, payouts, edits>>
      BY <2>2 DEF WorkerTakes, TakeMerchant, FinishRun, SumGross, SumRefunded, NotifyMerchant, SelectDue
    <3> QED
      BY <1>1, <1>2, <2>1, <3>1, <3>2
  <2>3. ASSUME NEW r \in SettlementIds, CreateSettlement(t, r)
        PROVE  OnePayer' /\ \A s \in SettlementIds : PaidOK(s)'
    <3>1. settlements'[r].status = "processing" /\ \A s \in SettlementIds : s # r => settlements'[s] = settlements[s]
      BY <2>3, CreateEffect
    <3>2. settlements[r].status = "none" /\ UNCHANGED <<retrying, payouts, edits>>
      BY <2>3 DEF CreateSettlement
    <3>3. tasks'[t].at = "payout" /\ tasks'[t].settlement = r
      BY <2>3 DEF CreateSettlement, TypeInv, Task
    <3>4. \A u \in Tasks : ~Paying(u, r)
      BY <3>2 DEF Paying, TypeInv, TaskOK, Holding
    <3>5. \A u \in Tasks, s \in SettlementIds : Paying(u, s)' => (u = t /\ s = r) \/ (s # r /\ Paying(u, s))
      BY <2>1, <3>3, <3>4 DEF Paying, GoesOn
    <3>6. OnePayer'
      BY <3>5 DEF PaidInv, OnePayer
    <3>7. PaidOK(r)'
      <4>1. payouts[r] = 0 /\ ~ToRetry(r)
        BY <3>2 DEF PaidInv, PaidOK
      <4>2. ~ToRetry(r)'
        BY <3>1, <3>2, <4>1 DEF ToRetry
      <4>3. Coming(r)' <= 1 /\ Coming(r)' \in Nat
        BY <4>2 DEF Coming
      <4>4. payouts'[r] = 0 /\ edits'[r] \in Nat
        BY <1>a, <3>2, <4>1
      <4> QED
        BY <3>1, <4>2, <4>3, <4>4 DEF PaidOK
    <3>8. ASSUME NEW s \in SettlementIds, s # r PROVE PaidOK(s)'
      <4>1. AboutToPay(s)' => AboutToPay(s)
        BY <3>5, <3>8 DEF AboutToPay
      <4>2. ToRetry(s)' => ToRetry(s)
        BY <3>1, <3>2, <3>8 DEF ToRetry
      <4> QED
        BY <3>1, <3>2, <3>8, <4>1, <4>2, PaidKept
    <3> QED
      BY <3>6, <3>7, <3>8
  <2>4. CASE BankPayout(t)
    <3>1. PICK r \in SettlementIds : r = tasks[t].settlement
      BY <2>4 DEF TypeInv, TaskOK, BankPayout, Holding
    <3>2. PayByBank(r) /\ UNCHANGED <<retrying, edits>> /\ Paying(t, r)
      BY <2>4, <3>1 DEF BankPayout, Paying
    <3>3. /\ settlements'[r].status = "processed" /\ payouts'[r] = payouts[r] + 1
          /\ \A s \in SettlementIds : s # r => settlements'[s] = settlements[s] /\ payouts'[s] = payouts[s]
      BY <3>2, PayEffect
    <3>4. tasks'[t].at = "notify"
      BY <2>4 DEF BankPayout, TypeInv, Task
    <3>5. \A u \in Tasks, s \in SettlementIds : Paying(u, s)' => Paying(u, s)
      BY <1>2, <2>1, <3>4
    <3>6. OnePayer' /\ \A s \in SettlementIds : AboutToPay(s)' => AboutToPay(s)
      BY <3>5, PayersKept
    <3>7. \A s \in SettlementIds : ToRetry(s)' => ToRetry(s)
      BY <3>2, <3>3 DEF ToRetry
    <3>8. PaidOK(r)'
      <4>1. AboutToPay(r) /\ ~AboutToPay(r)'
        BY <3>2, <3>4, <3>5 DEF AboutToPay, PaidInv, OnePayer, Paying
      <4>2. Coming(r)' + 1 <= Coming(r) /\ Coming(r) \in Nat /\ Coming(r)' \in Nat
        BY <3>7, <4>1 DEF Coming
      <4>3. payouts[r] + Coming(r) <= 1 + edits[r]
        BY DEF PaidInv, PaidOK
      <4>4. payouts'[r] + Coming(r)' <= 1 + edits'[r]
        BY <1>a, <3>2, <3>3, <4>2, <4>3
      <4> QED
        BY <3>3, <4>4 DEF PaidOK
    <3>9. ASSUME NEW s \in SettlementIds, s # r PROVE PaidOK(s)'
      BY <3>2, <3>3, <3>6, <3>7, <3>9, PaidKept
    <3> QED
      BY <3>6, <3>8, <3>9
  <2>5. CASE MarkPayments(t)
    <3>1. /\ \A s \in SettlementIds : settlements'[s].status = settlements[s].status
          /\ UNCHANGED <<retrying, payouts, edits>>
      BY <2>5, MarkingEffect DEF MarkPayments
    <3>2. tasks'[t].at # "payout"
      <4>1. Disturbed(tasks[t].merchant, t) \in [Tasks -> Task]
        BY DisturbedEffect
      <4> QED
        BY <2>5, <4>1 DEF MarkPayments, IdleTask
    <3>3. \A u \in Tasks, s \in SettlementIds : Paying(u, s)' => Paying(u, s)
      BY <1>2, <2>1, <3>2
    <3>4. OnePayer' /\ \A s \in SettlementIds : AboutToPay(s)' => AboutToPay(s)
      BY <3>3, PayersKept
    <3>5. \A s \in SettlementIds : ToRetry(s)' => ToRetry(s)
      BY <3>1 DEF ToRetry
    <3> QED
      BY <3>1, <3>4, <3>5, PaidKept
  <2> QED
    BY <1>3, <2>2, <2>3, <2>4, <2>5 DEF Work
<1>4. ASSUME NEW t \in Tasks, StatementRaises(t) \/ WorkerKilled(t)
      PROVE  OnePayer' /\ \A s \in SettlementIds : PaidOK(s)'
  <2>1. /\ UNCHANGED <<settlements, retrying, payouts, edits>>
        /\ NextMerchant(t) \/ tasks' = [tasks EXCEPT ![t] = IdleTask]
    BY <1>4 DEF StatementRaises, WorkerKilled
  <2>2. tasks'[t].at \in {"idle", "next"} /\ \A u \in Tasks : u # t => tasks'[u] = tasks[u]
    BY <2>1, PartsKept, RunLeaves
  <2>3. \A u \in Tasks : u # t => GoesOn(u)
    BY <2>2 DEF GoesOn
  <2> QED
    BY <1>1, <1>2, <2>1, <2>2, <2>3
<1>5. ASSUME NEW p \in PaymentIds, Capture(p) \/ \E a \in 1..Price[p] : Refund(p, a)
      PROVE  OnePayer' /\ \A s \in SettlementIds : PaidOK(s)'
  <2>1. UNCHANGED <<settlements, retrying, payouts, edits>> /\ tasks' = Disturbed(Owner[p], None)
    BY <1>5 DEF Capture, Refund
  <2>2. \A t \in Tasks : GoesOn(t)
    BY <2>1, DisturbedEffect
  <2> QED
    BY <1>1, <2>1, <2>2 DEF GoesOn, Paying
<1>6. CASE UNCHANGED <<settlements, retrying, payouts, edits, tasks>>
  BY <1>1, <1>6 DEF Paying
<1>7. CASE BeatFires \/ OperatorCalls \/ (\E m \in Merchants : Suspend(m)) \/ UNCHANGED vars
  BY <1>6, <1>7 DEF BeatFires, OperatorCalls, Send, Suspend, vars
<1>8. ASSUME tasks' = tasks PROVE OnePayer' /\ \A s \in SettlementIds : AboutToPay(s)' => AboutToPay(s)
  BY <1>8, PayersKept DEF Paying
<1>9. ASSUME NEW S \in SUBSET SettlementIds, MarkOnHold(S)
      PROVE  OnePayer' /\ \A s \in SettlementIds : PaidOK(s)'
  <2>1. UNCHANGED <<tasks, retrying, payouts, edits>>
    BY <1>9 DEF MarkOnHold
  <2>2. \A s \in SettlementIds :
          \/ settlements'[s].status = settlements[s].status
          \/ settlements[s].status = "processing" /\ settlements'[s].status = "on_hold"
    BY <1>9, HoldEffect
  <2>3. \A s \in SettlementIds : ToRetry(s)' => ToRetry(s)
    BY <2>1, <2>2 DEF ToRetry
  <2> QED
    BY <1>8, <2>1, <2>2, <2>3, PaidKept
<1>10. ASSUME NEW r \in SettlementIds, SetFailed(r)
       PROVE  OnePayer' /\ \A s \in SettlementIds : PaidOK(s)'
  <2>1. UNCHANGED <<tasks, retrying, payouts>> /\ settlements[r].status \in {"processed", "on_hold"}
    BY <1>10 DEF SetFailed
  <2>2. /\ settlements'[r].status = "failed"
        /\ \A s \in SettlementIds : s # r => settlements'[s] = settlements[s]
    BY <1>10, StatusEffect DEF SetFailed, SettlementStatus
  <2>3. edits'[r] = edits[r] + 1 /\ \A s \in SettlementIds : s # r => edits'[s] = edits[s]
    BY <1>10, TypeParts DEF SetFailed, SettlementsOK
  <2>4. PaidOK(r)'
    <3>1. AboutToPay(r)' => AboutToPay(r)
      BY <1>8, <2>1
    <3>2. Coming(r)' <= Coming(r) + 1 /\ Coming(r) \in Nat /\ Coming(r)' \in Nat
      BY <3>1 DEF Coming
    <3>3. payouts[r] + Coming(r) <= 1 + edits[r]
      BY DEF PaidInv, PaidOK
    <3>4. payouts'[r] + Coming(r)' <= 1 + edits'[r]
      BY <1>a, <2>1, <2>3, <3>2, <3>3
    <3> QED
      BY <2>2, <3>4 DEF PaidOK
  <2>5. ASSUME NEW s \in SettlementIds, s # r PROVE PaidOK(s)'
    <3>1. ToRetry(s)' => ToRetry(s)
      BY <2>1, <2>2, <2>5 DEF ToRetry
    <3> QED
      BY <1>8, <2>1, <2>2, <2>3, <2>5, <3>1, PaidKept
  <2> QED
    BY <1>8, <2>1, <2>4, <2>5
<1>11. ASSUME NEW a \in Admins, RetryPayout(a)
       PROVE  OnePayer' /\ \A s \in SettlementIds : PaidOK(s)'
  <2>1. PICK r \in retrying[a] : PayByBank(r) /\ retrying' = [retrying EXCEPT ![a] = @ \ {r}]
    BY <1>11 DEF RetryPayout
  <2>2. UNCHANGED <<tasks, edits>> /\ retrying \in [Admins -> SUBSET SettlementIds] /\ r \in SettlementIds
    BY <1>11, TypeParts DEF RetryPayout, SurroundingsOK
  <2>3. /\ settlements'[r].status = "processed" /\ payouts'[r] = payouts[r] + 1
        /\ \A s \in SettlementIds : s # r => settlements'[s] = settlements[s] /\ payouts'[s] = payouts[s]
    BY <2>1, <2>2, PayEffect
  <2>4. \A s \in SettlementIds : ToRetry(s)' => ToRetry(s)
    BY <2>1, <2>2, <2>3 DEF ToRetry
  <2>5. PaidOK(r)'
    <3>1. ToRetry(r)
      BY <2>1 DEF ToRetry
    <3>2. ~ToRetry(r)'
      <4>1. \A b \in Admins : r \notin retrying'[b]
        BY <2>1, <2>2 DEF OneRetrier
      <4> QED
        BY <2>3, <4>1 DEF ToRetry
    <3>3. AboutToPay(r)' => AboutToPay(r)
      BY <1>8, <2>2
    <3>4. Coming(r)' + 1 <= Coming(r) /\ Coming(r) \in Nat /\ Coming(r)' \in Nat
      BY <3>1, <3>2, <3>3 DEF Coming
    <3>5. payouts[r] + Coming(r) <= 1 + edits[r]
      BY <2>2 DEF PaidInv, PaidOK
    <3>6. payouts'[r] + Coming(r)' <= 1 + edits'[r]
      BY <1>a, <2>2, <2>3, <3>4, <3>5
    <3> QED
      BY <2>3, <3>6 DEF PaidOK
  <2>6. ASSUME NEW s \in SettlementIds, s # r PROVE PaidOK(s)'
    BY <1>8, <2>2, <2>3, <2>4, <2>6, PaidKept
  <2> QED
    BY <1>8, <2>2, <2>5, <2>6
<1>12. ASSUME NEW a \in Admins, NEW S \in SUBSET SettlementIds, LoadRetries(a, S)
       PROVE  OnePayer' /\ \A s \in SettlementIds : PaidOK(s)'
  <2>1. UNCHANGED <<tasks, settlements, payouts, edits>> /\ retrying' = [retrying EXCEPT ![a] = Retryable(S)]
    BY <1>12 DEF LoadRetries
  <2>2. \A s \in SettlementIds : ToRetry(s)' => ToRetry(s)
    BY <2>1, TypeParts DEF ToRetry, Retryable, SurroundingsOK
  <2> QED
    BY <1>8, <2>1, <2>2, PaidKept
<1> QED
  BY <1>3, <1>4, <1>5, <1>7, <1>9, <1>10, <1>11, <1>12 DEF Next

(* The bank pays a settlement once, and once more for each time it was set *)
(* to failed by hand, if one administrator at a time retries: however many *)
(* runs, holds and retries there are, and wherever they are cut short.     *)
THEOREM PaidOncePerFailureCorrect ==
  ASSUME OneRetrier
  PROVE  Spec => []PaidOncePerFailure
<1>1. TypeInv /\ PaidInv => PaidOncePerFailure
  <2> SUFFICES ASSUME TypeInv, PaidInv PROVE PaidOncePerFailure
    OBVIOUS
  <2>1. ASSUME NEW s \in SettlementIds PROVE payouts[s] <= 1 + edits[s]
    <3>1. payouts[s] \in Nat /\ edits[s] \in Nat
      BY SettlementAssumption, TypeParts DEF SettlementsOK
    <3>2. Coming(s) \in Nat /\ payouts[s] + Coming(s) <= 1 + edits[s]
      BY DEF PaidInv, PaidOK, Coming
    <3> QED
      BY <3>1, <3>2
  <2> QED
    BY <2>1 DEF TypeInv, PaidOncePerFailure
<1>2. TypeInv /\ TypeInv' /\ PaidInv /\ [Next]_vars => PaidInv'
  BY PaidStep
<1> QED
  BY <1>1, <1>2, PaidInit, TypeInvariant, PTL DEF Spec

-----------------------------------------------------------------------------
(* What undisturbed runs know *)

(* The places at which a run has added up what is due. *)
Late == {"refunds", "create"} \cup Holding

(* While nobody disturbs it, what a run has computed is what is due still. *)
KnowsDue(t) ==
  LET k == tasks[t] IN
  k.clean =>
    /\ k.at \in Late => k.counted = Due(k.merchant) /\ k.gross = Total(Due(k.merchant))
    /\ k.at \in Late \ {"refunds"} => k.net = Total(Due(k.merchant)) - TotalRefunded(Due(k.merchant))
    /\ k.at = "mark" => k.due = Due(k.merchant)

(* Disturbed or not, a run's settlement is made of what the run has counted, *)
(* and the run marks its own merchant's payments only.                       *)
HoldsOwn(t) ==
  LET k == tasks[t] IN
  /\ k.at = "mark" => \A p \in k.due : Owner[p] = k.merchant
  /\ k.at \in Holding =>
       /\ counted[k.settlement] = k.counted
       /\ settlements[k.settlement].amount + settlements[k.settlement].fees = k.net

(* What an undisturbed run has marked is what it has counted, once and for all. *)
CleanlyMarked(s) ==
  marked[s] # {} =>
    /\ settlements[s].status # "none"
    /\ settlements[s].clean => marked[s] = counted[s] /\ \A p \in counted[s] : payments[p].settled

CleanInv ==
  /\ \A t \in Tasks : KnowsDue(t) /\ HoldsOwn(t)
  /\ \A s \in SettlementIds : CleanlyMarked(s)
  /\ SettledOnce

(* A run keeps what it knows, unless it is told that it was disturbed. *)
LEMMA KnowsKept ==
  ASSUME TypeInv, NEW t \in Tasks, KnowsDue(t), GoesOn(t),
         tasks'[t].clean => \A p \in PaymentIds : Owner[p] = tasks[t].merchant => payments'[p] = payments[p]
  PROVE  KnowsDue(t)'
<1> SUFFICES ASSUME tasks'[t].clean PROVE KnowsDue(t)'
  BY DEF KnowsDue
<1>1. PICK m : m = tasks[t].merchant
  OBVIOUS
<1>2. tasks'[t].merchant = m /\ tasks[t].clean
  BY <1>1 DEF GoesOn
<1>3. Due(m)' = Due(m) /\ TotalRefunded(Due(m))' = TotalRefunded(Due(m))
  BY <1>1, DueKept
<1>4. Due(tasks[t].merchant)' = Due(m) /\ TotalRefunded(Due(tasks[t].merchant))' = TotalRefunded(Due(m))
  BY <1>2, <1>3 DEF Due
<1> QED
  BY <1>1, <1>2, <1>4 DEF KnowsDue, GoesOn

(* A run keeps its settlement: what it is made of changes with no later step. *)
LEMMA HoldsKept ==
  ASSUME TypeInv, NEW t \in Tasks, HoldsOwn(t), GoesOn(t),
         \A s \in SettlementIds : settlements[s].status # "none" =>
           /\ counted'[s] = counted[s]
           /\ settlements'[s].amount = settlements[s].amount /\ settlements'[s].fees = settlements[s].fees
  PROVE  HoldsOwn(t)'
BY DEF TypeInv, TaskOK, HoldsOwn, GoesOn

(* Settlements that are marked stay as they are, and payments stay settled. *)
LEMMA MarkedKept ==
  ASSUME TypeInv, CleanInv, NoneDeleted, marked' = marked,
         \A s \in SettlementIds : settlements[s].status # "none" =>
           counted'[s] = counted[s] /\ settlements'[s].clean = settlements[s].clean,
         \A p \in PaymentIds : payments[p].settled => payments'[p].settled
  PROVE  (\A s \in SettlementIds : CleanlyMarked(s)') /\ SettledOnce'
<1>1. \A s \in SettlementIds : counted[s] \in SUBSET PaymentIds
  BY TypeParts DEF HistoryOK
<1>2. \A s \in SettlementIds : marked'[s] # {} =>
        settlements[s].status # "none" /\ counted'[s] = counted[s] /\ settlements'[s].clean = settlements[s].clean
  BY DEF CleanInv, CleanlyMarked
<1>3. ASSUME NEW s \in SettlementIds PROVE CleanlyMarked(s)'
  BY <1>1, <1>2 DEF CleanInv, CleanlyMarked, NoneDeleted
<1>4. SettledOnce'
  BY <1>2 DEF CleanInv, SettledOnce
<1> QED
  BY <1>3, <1>4

(* Nothing is known initially. *)
LEMMA CleanInit == Init => CleanInv
<1> SUFFICES ASSUME Init PROVE CleanInv
  OBVIOUS
<1>1. \A t \in Tasks : tasks[t].at = "idle"
  BY DEF Init, IdleTask
<1>2. \A s \in SettlementIds : marked[s] = {}
  BY DEF Init
<1> QED
  BY <1>1, <1>2 DEF CleanInv, KnowsDue, HoldsOwn, CleanlyMarked, SettledOnce, Late, Holding

(* Steps of a run that leave the payments alone: the run adds up what is due, *)
(* creates the settlement from its sums and selects what it will mark.        *)
LEMMA WorkKnows ==
  ASSUME TypeInv, CleanInv, NEW t \in Tasks, Work(t), ~MarkPayments(t)
  PROVE  KnowsDue(t)' /\ HoldsOwn(t)'
<1> DEFINE k == tasks[t]
<1>1. k \in Task /\ TaskOK(t) /\ tasks \in [Tasks -> Task] /\ KnowsDue(t) /\ HoldsOwn(t)
  BY DEF TypeInv, CleanInv
<1>2. payments' = payments
  BY DEF Work, WorkerTakes, TakeMerchant, FinishRun, SumGross, SumRefunded, CreateSettlement,
         BankPayout, NotifyMerchant, SelectDue
<1>3. PICK m : m = k.merchant
  OBVIOUS
<1>4. Due(m)' = Due(m) /\ TotalRefunded(Due(m))' = TotalRefunded(Due(m))
  BY <1>2, DueKept
<1>5. ASSUME tasks'[t].merchant = m
      PROVE  /\ Due(tasks[t].merchant)' = Due(m)
             /\ TotalRefunded(Due(tasks[t].merchant))' = TotalRefunded(Due(m))
  BY <1>4, <1>5 DEF Due
<1>6. ASSUME tasks'[t].at \in {"idle", "next", "gross"} PROVE KnowsDue(t)' /\ HoldsOwn(t)'
  BY <1>6 DEF KnowsDue, HoldsOwn, Late, Holding
<1>7. CASE WorkerTakes(t) \/ TakeMerchant(t) \/ FinishRun(t)
  <2>1. CASE WorkerTakes(t)
    <3>1. k.at = "idle" /\ (tasks' = tasks \/ tasks'[t].at = "next")
      BY <1>1, <2>1 DEF WorkerTakes, IdleTask
    <3> QED
      BY <1>6, <3>1
  <2>2. CASE TakeMerchant(t)
    <3>1. tasks'[t].at \in {"next", "gross"}
      BY <1>1, <2>2 DEF TakeMerchant, IdleTask
    <3> QED
      BY <1>6, <3>1
  <2>3. CASE FinishRun(t)
    <3>1. tasks'[t].at = "idle"
      BY <1>1, <2>3 DEF FinishRun, IdleTask
    <3> QED
      BY <1>6, <3>1
  <2> QED
    BY <1>7, <2>1, <2>2, <2>3
<1>8. CASE SumGross(t)
  <2> DEFINE due == Due(k.merchant)
             gross == Total(due)
             j == [k EXCEPT !.at = "refunds", !.gross = gross, !.counted = due]
  <2>1. tasks' = [tasks EXCEPT ![t] = j]
    BY <1>8 DEF SumGross
  <2>2. due = Due(m) /\ gross = Total(Due(m))
    BY <1>3
  <2> HIDE DEF due, gross
  <2>3. j.at = "refunds" /\ j.merchant = k.merchant /\ j.gross = gross /\ j.counted = due
    BY <1>1 DEF Task
  <2>4. tasks'[t] = j
    BY <1>1, <2>1
  <2> HIDE DEF j
  <2> QED
    BY <1>3, <1>4, <1>5, <2>2, <2>3, <2>4 DEF KnowsDue, HoldsOwn, Late, Holding
<1>9. CASE SumRefunded(t)
  <2>1. PICK net : net = Net(k.gross, TotalRefunded(Due(k.merchant)))
    OBVIOUS
  <2>2. PICK fee : \/ NextMerchant(t)
                   \/ tasks' = [tasks EXCEPT ![t].at = "create", ![t].net = net, ![t].fee = fee]
    BY <1>9, <2>1 DEF SumRefunded
  <2>3. CASE NextMerchant(t)
    <3>1. tasks'[t].at = "next"
      BY <1>1, <2>3 DEF NextMerchant, IdleTask
    <3> QED
      BY <1>6, <3>1
  <2>4. CASE tasks' = [tasks EXCEPT ![t].at = "create", ![t].net = net, ![t].fee = fee]
    <3> DEFINE j == [k EXCEPT !.at = "create", !.net = net, !.fee = fee]
    <3>1. tasks' = [tasks EXCEPT ![t] = j]
      BY <2>4
    <3>2. tasks'[t] = j
      BY <1>1, <3>1
    <3>3. /\ j.at = "create" /\ j.merchant = k.merchant /\ j.gross = k.gross /\ j.counted = k.counted
          /\ j.net = net /\ j.clean = k.clean
      BY <1>1 DEF Task
    <3> HIDE DEF j
    <3>4. k.at = "refunds"
      BY <1>9 DEF SumRefunded
    <3>5. k.clean => /\ k.counted = Due(m) /\ k.gross = Total(Due(m))
                     /\ net = Total(Due(m)) - TotalRefunded(Due(m))
      BY <1>1, <1>3, <2>1, <3>4 DEF KnowsDue, Late, Net
    <3> QED
      BY <1>3, <1>4, <1>5, <3>2, <3>3, <3>5 DEF KnowsDue, HoldsOwn, Late, Holding
  <2> QED
    BY <2>2, <2>3, <2>4
<1>10. ASSUME NEW s \in SettlementIds, CreateSettlement(t, s) PROVE KnowsDue(t)' /\ HoldsOwn(t)'
  <2> DEFINE j == [k EXCEPT !.at = "payout", !.settlement = s]
  <2>1. tasks' = [tasks EXCEPT ![t] = j] /\ k.at = "create"
    BY <1>10 DEF CreateSettlement
  <2>2. tasks'[t] = j
    BY <1>1, <2>1
  <2>3. /\ j.at = "payout" /\ j.settlement = s /\ j.merchant = k.merchant /\ j.gross = k.gross
        /\ j.counted = k.counted /\ j.net = k.net /\ j.clean = k.clean
    BY <1>1 DEF Task
  <2> HIDE DEF j
  <2>4. counted'[s] = k.counted /\ settlements'[s].amount + settlements'[s].fees = k.net
    <3>1. /\ counted'[s] = k.counted /\ settlements'[s].fees = k.fee
          /\ settlements'[s].amount = Payout(k.net, k.fee)
      BY <1>10, CreateEffect
    <3>2. k.net \in Int /\ k.fee \in Int
      BY <1>1 DEF Task
    <3> QED
      BY <3>1, <3>2 DEF Payout
  <2>5. HoldsOwn(t)'
    BY <2>2, <2>3, <2>4 DEF HoldsOwn
  <2>6. KnowsDue(t)'
    BY <1>1, <1>3, <1>4, <1>5, <2>1, <2>2, <2>3 DEF KnowsDue, Late, Holding
  <2> QED
    BY <2>5, <2>6
<1>11. CASE BankPayout(t) \/ NotifyMerchant(t)
  <2>1. PICK at \in {"notify", "select"} : tasks' = [tasks EXCEPT ![t].at = at]
    BY <1>11 DEF BankPayout, NotifyMerchant
  <2> DEFINE j == [k EXCEPT !.at = at]
  <2>2. tasks'[t] = j /\ k.at \in {"payout", "notify"}
    BY <1>1, <1>11, <2>1 DEF BankPayout, NotifyMerchant
  <2>3. /\ j.at = at /\ j.settlement = k.settlement /\ j.merchant = k.merchant /\ j.gross = k.gross
        /\ j.counted = k.counted /\ j.net = k.net /\ j.clean = k.clean
    BY <1>1 DEF Task
  <2> HIDE DEF j
  <2>4. k.settlement \in SettlementIds
    BY <1>1, <2>2 DEF TaskOK, Holding
  <2>5. /\ counted'[k.settlement] = counted[k.settlement]
        /\ settlements'[k.settlement].amount = settlements[k.settlement].amount
        /\ settlements'[k.settlement].fees = settlements[k.settlement].fees
    <3>1. CASE BankPayout(t)
      BY <2>4, <3>1, PayEffect DEF BankPayout
    <3>2. CASE NotifyMerchant(t)
      BY <3>2 DEF NotifyMerchant
    <3> QED
      BY <1>11, <3>1, <3>2
  <2>6. HoldsOwn(t)'
    BY <1>1, <2>1, <2>2, <2>3, <2>5 DEF HoldsOwn, Holding
  <2>7. KnowsDue(t)'
    BY <1>1, <1>3, <1>4, <1>5, <2>1, <2>2, <2>3 DEF KnowsDue, Late, Holding
  <2> QED
    BY <2>6, <2>7
<1>12. CASE SelectDue(t)
  <2> DEFINE due == Due(k.merchant)
             j == [k EXCEPT !.at = "mark", !.due = due]
  <2>1. tasks' = [tasks EXCEPT ![t] = j] /\ k.at = "select" /\ UNCHANGED <<counted, settlements>>
    BY <1>12 DEF SelectDue
  <2>2. due = Due(m) /\ \A p \in due : Owner[p] = k.merchant
    BY <1>3 DEF Due
  <2> HIDE DEF due
  <2>3. tasks'[t] = j
    BY <1>1, <2>1
  <2>4. /\ j.at = "mark" /\ j.settlement = k.settlement /\ j.merchant = k.merchant /\ j.gross = k.gross
        /\ j.counted = k.counted /\ j.net = k.net /\ j.clean = k.clean /\ j.due = due
    BY <1>1 DEF Task
  <2> HIDE DEF j
  <2>5. HoldsOwn(t)'
    BY <1>1, <2>1, <2>2, <2>3, <2>4 DEF HoldsOwn, Holding
  <2>6. KnowsDue(t)'
    BY <1>1, <1>3, <1>4, <1>5, <2>1, <2>2, <2>3, <2>4 DEF KnowsDue, Late, Holding
  <2> QED
    BY <2>5, <2>6
<1> QED
  BY <1>7, <1>8, <1>9, <1>10, <1>11, <1>12 DEF Work

(* A run marks: an undisturbed one what it was paid for, and nothing of it was *)
(* settled before; the merchant's other runs are told that they are disturbed. *)
LEMMA MarkKnows ==
  ASSUME TypeInv, CleanInv, NEW t \in Tasks, MarkPayments(t)
  PROVE  CleanInv'
<1> DEFINE m == tasks[t].merchant
<1>1. PICK r \in SettlementIds : r = tasks[t].settlement
  BY MarkingEffect
<1>2. PICK due \in SUBSET PaymentIds : due = tasks[t].due
  BY MarkingEffect
<1>3. /\ marked'[r] = due /\ settlements'[r].clean = tasks[t].clean
      /\ \A s \in SettlementIds : s # r => settlements'[s] = settlements[s] /\ marked'[s] = marked[s]
      /\ \A s \in SettlementIds : /\ settlements'[s].status = settlements[s].status
                                  /\ settlements'[s].amount = settlements[s].amount
                                  /\ settlements'[s].fees = settlements[s].fees
      /\ counted' = counted
  BY <1>1, <1>2, MarkingEffect DEF MarkPayments
<1>4. /\ \A p \in due : payments'[p].settled
      /\ \A p \in PaymentIds : payments[p].settled => payments'[p].settled
      /\ \A p \in PaymentIds : p \notin due => payments'[p] = payments[p]
  BY <1>2, MarkEffect DEF MarkPayments
<1>5. tasks[t].at = "mark" /\ KnowsDue(t) /\ HoldsOwn(t) /\ settlements[r].status # "none"
  BY <1>1 DEF MarkPayments, CleanInv, TypeInv, TaskOK, Holding
<1>6. counted[r] = tasks[t].counted /\ \A p \in due : Owner[p] = m
  BY <1>1, <1>2, <1>5 DEF HoldsOwn, Holding
<1>7. tasks[t].clean => due = counted[r] /\ \A p \in due : ~payments[p].settled
  BY <1>2, <1>5, <1>6 DEF KnowsDue, Late, Holding, Due
<1>8. ASSUME NEW s \in SettlementIds PROVE CleanlyMarked(s)'
  <2>1. CASE s = r
    BY <1>3, <1>4, <1>5, <1>7, <2>1 DEF CleanlyMarked
  <2>2. CASE s # r
    <3>1. counted[s] \in SUBSET PaymentIds /\ CleanlyMarked(s)
      BY TypeParts DEF HistoryOK, CleanInv
    <3> QED
      BY <1>3, <1>4, <2>2, <3>1 DEF CleanlyMarked
  <2> QED
    BY <2>1, <2>2
<1>9. SettledOnce'
  <2>1. ASSUME NEW s \in SettlementIds, s # r, settlements[s].clean, tasks[t].clean, marked[s] # {}
        PROVE  counted[s] \cap counted[r] = {}
    <3>1. \A p \in counted[s] : payments[p].settled
      BY <2>1 DEF CleanInv, CleanlyMarked
    <3> QED
      BY <1>7, <3>1, <2>1
  <2>2. ASSUME NEW a \in SettlementIds, NEW b \in SettlementIds, a # b,
               settlements'[a].clean, settlements'[b].clean, marked'[a] # {}, marked'[b] # {}
        PROVE  counted'[a] \cap counted'[b] = {}
    <3>1. CASE a # r /\ b # r
      BY <1>3, <2>2, <3>1 DEF CleanInv, SettledOnce
    <3>2. CASE a = r
      BY <1>3, <2>1, <2>2, <3>2
    <3>3. CASE b = r
      BY <1>3, <2>1, <2>2, <3>3
    <3> QED
      BY <3>1, <3>2, <3>3
  <2> QED
    BY <2>2 DEF SettledOnce
<1>10. ASSUME NEW u \in Tasks PROVE KnowsDue(u)' /\ HoldsOwn(u)'
  <2>1. Disturbed(m, t) \in [Tasks -> Task]
    BY DisturbedEffect
  <2>2. CASE u = t
    <3>1. tasks'[t].at = "next"
      BY <2>1 DEF MarkPayments, IdleTask
    <3> QED
      BY <2>2, <3>1 DEF KnowsDue, HoldsOwn, Late, Holding
  <2>3. CASE u # t
    <3>1. tasks'[u] = Disturbed(m, t)[u]
      BY <2>1, <2>3 DEF MarkPayments
    <3>2. GoesOn(u)
      BY <2>3, WorkTypes DEF Work
    <3>3. tasks'[u].clean => tasks[u].merchant # m
      BY <2>3, <3>1, DisturbedEffect
    <3>4. tasks'[u].clean => \A p \in PaymentIds : Owner[p] = tasks[u].merchant => payments'[p] = payments[p]
      BY <1>4, <1>6, <3>3
    <3>5. KnowsDue(u) /\ HoldsOwn(u)
      BY DEF CleanInv
    <3>6. KnowsDue(u)'
      BY <3>2, <3>4, <3>5, KnowsKept
    <3>7. HoldsOwn(u)'
      BY <1>3, <3>2, <3>5, HoldsKept
    <3> QED
      BY <3>6, <3>7
  <2> QED
    BY <2>2, <2>3
<1> QED
  BY <1>8, <1>9, <1>10 DEF CleanInv

(* Every step keeps what undisturbed runs know: a capture, a refund or another *)
(* run's marking says so to the runs of its merchant, the rest touches none of *)
(* their payments.                                                             *)
LEMMA CleanStep ==
  ASSUME TypeInv, CleanInv, [Next]_vars
  PROVE  CleanInv'
<1>1. \A t \in Tasks : KnowsDue(t) /\ HoldsOwn(t)
  BY DEF CleanInv
<1>2. \A t \in Tasks : tasks'[t] = tasks[t] => GoesOn(t)
  BY DEF GoesOn
(* Steps that change no payment. *)
<1>3. ASSUME NEW t \in Tasks, GoesOn(t), payments' = payments PROVE KnowsDue(t)'
  BY <1>1, <1>3, KnowsKept
(* Steps that change no settlement there is, but for its status. *)
<1>4. ASSUME NoneDeleted, marked' = marked,
             \A p \in PaymentIds : payments[p].settled => payments'[p].settled,
             \A s \in SettlementIds : settlements[s].status # "none" =>
               /\ counted'[s] = counted[s] /\ settlements'[s].clean = settlements[s].clean
               /\ settlements'[s].amount = settlements[s].amount /\ settlements'[s].fees = settlements[s].fees,
             \A t \in Tasks : KnowsDue(t)', \A t \in Tasks : GoesOn(t) \/ HoldsOwn(t)'
      PROVE  CleanInv'
  <2>1. \A t \in Tasks : HoldsOwn(t)'
    BY <1>1, <1>4, HoldsKept
  <2>2. (\A s \in SettlementIds : CleanlyMarked(s)') /\ SettledOnce'
    BY <1>4, MarkedKept
  <2> QED
    BY <1>4, <2>1, <2>2 DEF CleanInv
<1>5. ASSUME NEW t \in Tasks, Work(t), ~MarkPayments(t) PROVE CleanInv'
  <2>1. KnowsDue(t)' /\ HoldsOwn(t)' /\ \A u \in Tasks : u # t => GoesOn(u)
    BY <1>5, WorkKnows, WorkTypes
  <2>2. payments' = payments /\ marked' = marked
    BY <1>5 DEF Work, WorkerTakes, TakeMerchant, FinishRun, SumGross, SumRefunded, CreateSettlement,
                BankPayout, NotifyMerchant, SelectDue
  <2>3. /\ NoneDeleted
        /\ \A s \in SettlementIds : settlements[s].status # "none" =>
             /\ counted'[s] = counted[s] /\ settlements'[s].clean = settlements[s].clean
             /\ settlements'[s].amount = settlements[s].amount /\ settlements'[s].fees = settlements[s].fees
    <3>1. CASE UNCHANGED <<settlements, counted>>
      BY <3>1 DEF NoneDeleted
    <3>2. ASSUME NEW r \in SettlementIds, CreateSettlement(t, r)
          PROVE  /\ NoneDeleted
                 /\ \A s \in SettlementIds : settlements[s].status # "none" =>
                      settlements'[s] = settlements[s] /\ counted'[s] = counted[s]
      <4>1. settlements[r].status = "none"
        BY <3>2 DEF CreateSettlement
      <4> QED
        BY <3>2, <4>1, CreateEffect
    <3>3. CASE BankPayout(t)
      <4>1. tasks[t].settlement \in SettlementIds
        BY <3>3 DEF TypeInv, TaskOK, BankPayout, Holding
      <4>2. PayByBank(tasks[t].settlement) /\ UNCHANGED <<edits, counted>>
        BY <3>3 DEF BankPayout
      <4> QED
        BY <4>1, <4>2, PayEffect
    <3>4. CASE WorkerTakes(t) \/ TakeMerchant(t) \/ FinishRun(t) \/ SumGross(t) \/ SumRefunded(t)
               \/ NotifyMerchant(t) \/ SelectDue(t)
      BY <3>1, <3>4 DEF WorkerTakes, TakeMerchant, FinishRun, SumGross, SumRefunded, NotifyMerchant, SelectDue
    <3> QED
      BY <1>5, <3>2, <3>3, <3>4 DEF Work
  <2>4. \A u \in Tasks : KnowsDue(u)'
    BY <1>3, <2>1, <2>2
  <2> QED
    BY <1>4, <2>1, <2>2, <2>3, <2>4
<1>6. ASSUME NEW t \in Tasks, MarkPayments(t) PROVE CleanInv'
  BY <1>6, MarkKnows
<1>7. ASSUME NEW t \in Tasks, StatementRaises(t) \/ WorkerKilled(t) PROVE CleanInv'
  <2>1. /\ UNCHANGED <<payments, settlements, counted, marked>>
        /\ NextMerchant(t) \/ tasks' = [tasks EXCEPT ![t] = IdleTask]
    BY <1>7 DEF StatementRaises, WorkerKilled
  <2>2. NoneDeleted
    BY <2>1, PartsKept
  <2>3. tasks'[t].at \in {"idle", "next"} /\ \A u \in Tasks : u # t => tasks'[u] = tasks[u]
    BY <2>1, <2>2, RunLeaves
  <2>4. KnowsDue(t)' /\ HoldsOwn(t)'
    BY <2>3 DEF KnowsDue, HoldsOwn, Late, Holding
  <2>5. \A u \in Tasks : KnowsDue(u)'
    BY <1>2, <1>3, <2>1, <2>3, <2>4
  <2> QED
    BY <1>2, <1>4, <2>1, <2>2, <2>3, <2>4, <2>5
<1>8. ASSUME NEW p \in PaymentIds, Capture(p) \/ \E a \in 1..Price[p] : Refund(p, a) PROVE CleanInv'
  <2>1. UNCHANGED <<settlements, counted, marked>> /\ tasks' = Disturbed(Owner[p], None)
    BY <1>8 DEF Capture, Refund
  <2>2. /\ \A q \in PaymentIds : payments'[q].settled = payments[q].settled
        /\ \A q \in PaymentIds : Owner[q] # Owner[p] => payments'[q] = payments[q]
    BY <1>8, CaptureEffect, RefundEffect
  <2>3. NoneDeleted
    BY <2>1, PartsKept
  <2>4. ASSUME NEW t \in Tasks PROVE GoesOn(t) /\ KnowsDue(t)'
    <3>1. GoesOn(t)
      BY <2>1, DisturbedEffect
    <3>2. t # None
      BY SettlementAssumption
    <3>3. tasks'[t].clean => tasks[t].merchant # Owner[p]
      BY <2>1, <3>2, DisturbedEffect
    <3>4. tasks'[t].clean => \A q \in PaymentIds : Owner[q] = tasks[t].merchant => payments'[q] = payments[q]
      BY <2>2, <3>3
    <3> QED
      BY <1>1, <3>1, <3>4, KnowsKept
  <2> QED
    BY <1>4, <2>1, <2>2, <2>3, <2>4
<1>9. ASSUME UNCHANGED <<payments, tasks, counted, marked>>, NoneDeleted,
             \A s \in SettlementIds : /\ settlements'[s].clean = settlements[s].clean
                                      /\ settlements'[s].amount = settlements[s].amount
                                      /\ settlements'[s].fees = settlements[s].fees
      PROVE  CleanInv'
  <2>1. \A t \in Tasks : GoesOn(t)
    BY <1>2, <1>9
  <2>2. \A t \in Tasks : KnowsDue(t)'
    BY <1>3, <1>9, <2>1
  <2> QED
    BY <1>4, <1>9, <2>1, <2>2
<1>10. CASE UNCHANGED <<payments, tasks, counted, marked, settlements>>
  BY <1>9, <1>10, PartsKept
<1>11. CASE BeatFires \/ OperatorCalls \/ (\E m \in Merchants : Suspend(m)) \/ UNCHANGED vars
            \/ \E a \in Admins : \E S \in SUBSET SettlementIds : LoadRetries(a, S)
  BY <1>10, <1>11 DEF BeatFires, OperatorCalls, Send, Suspend, LoadRetries, vars
<1>12. ASSUME NEW S \in SUBSET SettlementIds, MarkOnHold(S) PROVE CleanInv'
  BY <1>9, <1>12, HoldEffect DEF MarkOnHold
<1>13. ASSUME NEW s \in SettlementIds, SetFailed(s) PROVE CleanInv'
  <2>1. /\ NoneDeleted
        /\ \A r \in SettlementIds : /\ settlements'[r].clean = settlements[r].clean
                                    /\ settlements'[r].amount = settlements[r].amount
                                    /\ settlements'[r].fees = settlements[r].fees
    BY <1>13, StatusEffect DEF SetFailed, SettlementStatus
  <2> QED
    BY <1>9, <1>13, <2>1 DEF SetFailed
<1>14. ASSUME NEW a \in Admins, RetryPayout(a) PROVE CleanInv'
  <2>1. PICK s \in retrying[a] : PayByBank(s)
    BY <1>14 DEF RetryPayout
  <2>2. s \in SettlementIds /\ UNCHANGED <<payments, tasks, counted, marked, edits>>
    BY <1>14, TypeParts DEF RetryPayout, SurroundingsOK
  <2> QED
    BY <1>9, <2>1, <2>2, PayEffect
<1> QED
  BY <1>5, <1>6, <1>7, <1>8, <1>11, <1>12, <1>13, <1>14 DEF Next

(* What is known of undisturbed runs is so in every state. *)
LEMMA CleanInvariant == Spec => [](TypeInv /\ CleanInv)
<1>1. TypeInv /\ CleanInv /\ [Next]_vars => CleanInv'
  BY CleanStep
<1> QED
  BY <1>1, CleanInit, TypeInvariant, PTL DEF Spec

(* Two settlements whose runs nobody disturbed are never made of the same *)
(* payment, once they have marked what they paid.                         *)
THEOREM SettledOnceCorrect == Spec => []SettledOnce
<1>1. CleanInv => SettledOnce
  BY DEF CleanInv
<1> QED
  BY <1>1, CleanInvariant, PTL

(* When an undisturbed run marks payments, the settlement's payout and fee are *)
(* together what these payments are worth at that moment.                      *)
THEOREM MarkedIsPaidCorrect == Spec => MarkedIsPaid
<1> DEFINE Exact(s) == marked'[s] # marked[s] /\ settlements'[s].clean =>
                         settlements'[s].amount + settlements'[s].fees
                           = Total(marked'[s]) - TotalRefunded(marked'[s])
<1>1. TypeInv /\ CleanInv /\ [Next]_vars => [\A s \in SettlementIds : Exact(s)]_vars
  <2> SUFFICES ASSUME TypeInv, CleanInv, Next, NEW s \in SettlementIds,
                      marked'[s] # marked[s], settlements'[s].clean
               PROVE  settlements'[s].amount + settlements'[s].fees
                        = Total(marked'[s]) - TotalRefunded(marked'[s])
    OBVIOUS
  <2>1. PICK t \in Tasks : MarkPayments(t)
    BY DEF Next, Work, WorkerTakes, TakeMerchant, FinishRun, SumGross, SumRefunded, CreateSettlement,
           BankPayout, NotifyMerchant, SelectDue, StatementRaises, WorkerKilled, BeatFires, OperatorCalls,
           Send, Capture, Refund, Suspend, MarkOnHold, SetFailed, RetryPayout, LoadRetries
  <2>2. /\ s = tasks[t].settlement /\ marked'[s] = tasks[t].due /\ tasks[t].clean
        /\ settlements'[s].amount = settlements[s].amount /\ settlements'[s].fees = settlements[s].fees
    BY <2>1, MarkingEffect
  <2>3. tasks[t].at = "mark" /\ KnowsDue(t) /\ HoldsOwn(t)
    BY <2>1 DEF MarkPayments, CleanInv
  <2>4. /\ tasks[t].due = Due(tasks[t].merchant)
        /\ tasks[t].net = Total(Due(tasks[t].merchant)) - TotalRefunded(Due(tasks[t].merchant))
    BY <2>2, <2>3 DEF KnowsDue, Late, Holding
  <2>5. settlements[s].amount + settlements[s].fees = tasks[t].net
    BY <2>2, <2>3 DEF HoldsOwn, Holding
  <2> QED
    BY <2>2, <2>4, <2>5
<1> QED
  BY <1>1, CleanInvariant, PTL DEF MarkedIsPaid, Spec

=============================================================================
