----------------------------- MODULE Settlement -----------------------------
(***************************************************************************)
(* The daily settlement run.  For every live merchant it adds up the       *)
(* captured payments that are in no settlement, creates a Settlement, lets *)
(* the bank pay it and marks the payments.                                 *)
(*                                                                         *)
(* `payments` in process_daily_settlements is a lazy queryset: exists(),   *)
(* the two aggregate() calls and update() are queries of their own, over   *)
(* the payments that match at that moment, with captures and refunds       *)
(* running in between.  One action is one query; a loop iteration that     *)
(* raises is logged and the next merchant is taken.                        *)
(***************************************************************************)
EXTENDS Integers, FiniteSets, FiniteSetsExt

CONSTANTS
  Merchants,
  PaymentIds,
  Owner,          \* Owner[p]: the merchant of payment p
  Price,          \* Price[p]: its amount, in paise
  SettlementIds,  \* uuid4
  Tasks,          \* executions of the task; one Celery worker runs several at a time
  Admins,
  FeeNum, FeeDen, \* Merchant.fee_rate as a fraction, below 1
  MaxFaults,      \* bound: statements that raise, and killed workers
  MaxEdits,       \* bound: how often one settlement is set to failed by hand
  None

ASSUME SettlementAssumption ==
  /\ Owner \in [PaymentIds -> Merchants]
  /\ Price \in [PaymentIds -> Nat \ {0}]
  /\ FeeNum \in Nat /\ FeeDen \in Nat /\ FeeNum < FeeDen
  /\ MaxFaults \in Nat /\ MaxEdits \in Nat
  /\ None \notin Merchants \cup SettlementIds \cup Tasks

VARIABLES
  payments,     \* Payment rows: status, amount_refunded, in_settlement
  settlements,  \* Settlement rows
  live,         \* merchants that are active, live and approved
  queue,        \* task names waiting in Celery's queue
  tasks,        \* what each execution of the task is doing
  retrying,     \* the failed settlements each administrator's retry has loaded
  counted,      \* history: the payments a settlement's gross amount is made of
  marked,       \* history: the payments a settlement's run has marked for it
  payouts,      \* history: how often the bank paid each settlement
  faults,
  edits         \* how often each settlement was set to failed by hand

vars == <<payments, settlements, live, queue, tasks, retrying, counted, marked, payouts,
          faults, edits>>

-----------------------------------------------------------------------------
PaymentStatus == {"authorized", "captured", "partially_refunded", "refunded"}
SettlementStatus == {"none", "processing", "processed", "failed", "on_hold"}
Places == {"idle", "next", "gross", "refunds", "create", "payout", "notify", "select", "mark"}

(* The name of the task in Celery Beat's schedule and the one it has. *)
ScheduledName == "settlements.tasks.process_daily_settlements"
TaskName == "settlements.process_daily_settlements"

IdleTask == [at |-> "idle", left |-> {}, merchant |-> None, gross |-> 0, net |-> 0,
             fee |-> 0, settlement |-> None, counted |-> {}, due |-> {}, clean |-> TRUE]
NoSettlement == [status |-> "none", merchant |-> None, amount |-> 0, fees |-> 0, clean |-> TRUE]

TypeOK ==
  /\ payments \in [PaymentIds -> [status: PaymentStatus, refunded: Nat, settled: BOOLEAN]]
  /\ settlements \in [SettlementIds -> [status: SettlementStatus, merchant: Merchants \cup {None},
                                        amount: Nat, fees: Nat, clean: BOOLEAN]]
  /\ live \subseteq Merchants
  /\ queue \subseteq {ScheduledName, TaskName}
  /\ \A t \in Tasks : tasks[t].at \in Places /\ tasks[t].left \subseteq Merchants
  /\ retrying \in [Admins -> SUBSET SettlementIds]
  /\ counted \in [SettlementIds -> SUBSET PaymentIds]
  /\ marked \in [SettlementIds -> SUBSET PaymentIds]
  /\ payouts \in [SettlementIds -> Nat]
  /\ faults \in 0..MaxFaults
  /\ edits \in [SettlementIds -> 0..MaxEdits]

Init ==
  /\ payments = [p \in PaymentIds |-> [status |-> "authorized", refunded |-> 0, settled |-> FALSE]]
  /\ settlements = [s \in SettlementIds |-> NoSettlement]
  /\ live = Merchants
  /\ queue = {}
  /\ tasks = [t \in Tasks |-> IdleTask]
  /\ retrying = [a \in Admins |-> {}]
  /\ counted = [s \in SettlementIds |-> {}]
  /\ marked = [s \in SettlementIds |-> {}]
  /\ payouts = [s \in SettlementIds |-> 0]
  /\ faults = 0
  /\ edits = [s \in SettlementIds |-> 0]

-----------------------------------------------------------------------------
(* Mutant: settled payments again. *)
DueAgain(m) == {p \in PaymentIds : Owner[p] = m /\ payments[p].status = "captured"}

(* The rows the queryset stands for, whenever it is evaluated. *)
Due(m) ==
  {p \in PaymentIds : /\ Owner[p] = m
                      /\ payments[p].status = "captured"
                      /\ ~payments[p].settled}

Total(P) == MapThenSumSet(LAMBDA p : Price[p], P)
TotalRefunded(P) == MapThenSumSet(LAMBDA p : payments[p].refunded, P)

(* int(net_amount * float(fee_rate)): the product of two floats can fall just *)
(* short of a whole number, which int() then rounds down to the one below.    *)
Fees(net) ==
  LET fee == (net * FeeNum) \div FeeDen IN
  IF fee * FeeDen = net * FeeNum /\ fee > 0 THEN {fee - 1, fee} ELSE {fee}

(* History: the runs that are in the middle of merchant m, apart from t, are *)
(* no longer the only ones that touch the merchant's payments.               *)
Disturbed(m, except) ==
  [t \in Tasks |-> IF t # except /\ tasks[t].merchant = m
                   THEN [tasks[t] EXCEPT !.clean = FALSE] ELSE tasks[t]]

-----------------------------------------------------------------------------
(* What the payment core does meanwhile, see module Payments. *)

(* A capture, also one that comes late and overwrites a partial refund's status. *)
Capture(p) ==
  /\ payments[p].status \in {"authorized", "partially_refunded", "refunded"}
  /\ payments' = [payments EXCEPT ![p].status = "captured"]
  /\ tasks' = Disturbed(Owner[p], None)
  /\ UNCHANGED <<settlements, live, queue, retrying, counted, marked, payouts, faults, edits>>

Refund(p, a) ==
  /\ payments[p].status \in {"captured", "partially_refunded"}
  /\ payments[p].refunded + a <= Price[p]
  /\ payments' = [payments EXCEPT ![p].refunded = @ + a,
                    ![p].status = IF payments[p].refunded + a = Price[p]
                                  THEN "refunded" ELSE "partially_refunded"]
  /\ tasks' = Disturbed(Owner[p], None)
  /\ UNCHANGED <<settlements, live, queue, retrying, counted, marked, payouts, faults, edits>>

-----------------------------------------------------------------------------
(* Celery *)

(* Beat sends the name in its schedule, an operator sends the task itself. *)
Send(name) ==
  /\ name \notin queue
  /\ queue' = queue \cup {name}
  /\ UNCHANGED <<payments, settlements, live, tasks, retrying, counted, marked, payouts,
                 faults, edits>>
BeatFires == Send(ScheduledName)

(* Bounded by the settlement ids: each run may need one per merchant. *)
OperatorCalls ==
  /\ Cardinality({s \in SettlementIds : settlements[s].status = "none"})
       >= (1 + Cardinality({t \in Tasks : tasks[t].at # "idle"})) * Cardinality(Merchants)
  /\ Send(TaskName)

(* A worker takes a message: one for a name no task is registered under is *)
(* logged and discarded.  The task starts with the merchants of that moment. *)
WorkerTakes(t) ==
  /\ tasks[t].at = "idle"
  /\ \E name \in queue :
       /\ queue' = queue \ {name}
       /\ tasks' = IF name = TaskName
                   THEN [tasks EXCEPT ![t] = [IdleTask EXCEPT !.at = "next", !.left = live]]
                   ELSE tasks
  /\ UNCHANGED <<payments, settlements, live, retrying, counted, marked, payouts, faults, edits>>

-----------------------------------------------------------------------------
(* One merchant of one run *)

NextMerchant(t) == tasks' = [tasks EXCEPT ![t] = [IdleTask EXCEPT !.at = "next", !.left = tasks[t].left]]

(* if not payments.exists(): continue *)
TakeMerchant(t) ==
  /\ tasks[t].at = "next"
  /\ \E m \in tasks[t].left :
       tasks' = [tasks EXCEPT ![t] =
         [IdleTask EXCEPT !.left = tasks[t].left \ {m},
                          !.at = IF Due(m) = {} THEN "next" ELSE "gross",
                          !.merchant = IF Due(m) = {} THEN None ELSE m]]
  /\ UNCHANGED <<payments, settlements, live, queue, retrying, counted, marked, payouts, faults, edits>>

FinishRun(t) ==
  /\ tasks[t].at = "next"
  /\ tasks[t].left = {}
  /\ tasks' = [tasks EXCEPT ![t] = IdleTask]
  /\ UNCHANGED <<payments, settlements, live, queue, retrying, counted, marked, payouts, faults, edits>>

SumGross(t) ==
  LET due == Due(tasks[t].merchant) IN
  /\ tasks[t].at = "gross"
  /\ tasks' = [tasks EXCEPT ![t].at = "refunds", ![t].gross = Total(due), ![t].counted = due]
  /\ UNCHANGED <<payments, settlements, live, queue, retrying, counted, marked, payouts, faults, edits>>

(* Mutant: refunds are forgotten. *)
NetWithoutRefunds(gross, refunded) == gross
Net(gross, refunded) == gross - refunded
Payout(net, fee) == net - fee

(* Nothing left to pay out: the next merchant is taken. *)
SumRefunded(t) ==
  LET net == Net(tasks[t].gross, TotalRefunded(Due(tasks[t].merchant))) IN
  /\ tasks[t].at = "refunds"
  /\ \E fee \in Fees(net) :
       IF Payout(net, fee) <= 0
       THEN NextMerchant(t)
       ELSE tasks' = [tasks EXCEPT ![t].at = "create", ![t].net = net, ![t].fee = fee]
  /\ UNCHANGED <<payments, settlements, live, queue, retrying, counted, marked, payouts, faults, edits>>

CreateSettlement(t, s) ==
  /\ tasks[t].at = "create"
  /\ settlements[s].status = "none"
  /\ settlements' = [settlements EXCEPT ![s] =
       [status |-> "processing", merchant |-> tasks[t].merchant,
        amount |-> Payout(tasks[t].net, tasks[t].fee), fees |-> tasks[t].fee, clean |-> TRUE]]
  /\ counted' = [counted EXCEPT ![s] = tasks[t].counted]
  /\ tasks' = [tasks EXCEPT ![t].at = "payout", ![t].settlement = s]
  /\ UNCHANGED <<payments, live, queue, retrying, marked, payouts, faults, edits>>

(* _initiate_bank_payout, up to its UPDATE: by id alone. *)
PayByBank(s) ==
  /\ settlements' = [settlements EXCEPT ![s].status = "processed"]
  /\ payouts' = [payouts EXCEPT ![s] = @ + 1]

BankPayout(t) ==
  /\ tasks[t].at = "payout"
  /\ PayByBank(tasks[t].settlement)
  /\ tasks' = [tasks EXCEPT ![t].at = "notify"]
  /\ UNCHANGED <<payments, live, queue, retrying, counted, marked, faults, edits>>

(* dispatch_webhook_event.delay: needs the broker. *)
NotifyMerchant(t) ==
  /\ tasks[t].at = "notify"
  /\ tasks' = [tasks EXCEPT ![t].at = "select"]
  /\ UNCHANGED <<payments, settlements, live, queue, retrying, counted, marked, payouts, faults, edits>>

Mark(due) == [p \in PaymentIds |-> IF p \in due THEN [payments[p] EXCEPT !.settled = TRUE]
                                                ELSE payments[p]]

(* payments.update(in_settlement=True): the filter joins another table, so on *)
(* MySQL Django first selects the ids that are due now and then updates them.  *)
SelectDue(t) ==
  /\ tasks[t].at = "select"
  /\ tasks' = [tasks EXCEPT ![t].at = "mark", ![t].due = Due(tasks[t].merchant)]
  /\ UNCHANGED <<payments, settlements, live, queue, retrying, counted, marked, payouts, faults, edits>>

MarkPayments(t) ==
  LET m == tasks[t].merchant  s == tasks[t].settlement IN
  /\ tasks[t].at = "mark"
  /\ payments' = Mark(tasks[t].due)
  /\ marked' = [marked EXCEPT ![s] = tasks[t].due]
  /\ settlements' = [settlements EXCEPT ![s].clean = tasks[t].clean]
  /\ tasks' = [Disturbed(m, t) EXCEPT ![t] = [IdleTask EXCEPT !.at = "next", !.left = tasks[t].left]]
  /\ UNCHANGED <<live, queue, retrying, counted, payouts, faults, edits>>

(* The statement raises: the exception is logged, the next merchant is taken. *)
StatementRaises(t) ==
  /\ tasks[t].at \notin {"idle", "next"}
  /\ faults < MaxFaults
  /\ faults' = faults + 1
  /\ NextMerchant(t)
  /\ UNCHANGED <<payments, settlements, live, queue, retrying, counted, marked, payouts, edits>>

(* The worker is killed; Celery acknowledged the message when it took it. *)
WorkerKilled(t) ==
  /\ tasks[t].at # "idle"
  /\ faults < MaxFaults
  /\ faults' = faults + 1
  /\ tasks' = [tasks EXCEPT ![t] = IdleTask]
  /\ UNCHANGED <<payments, settlements, live, queue, retrying, counted, marked, payouts, edits>>

-----------------------------------------------------------------------------
(* The administrator *)

Suspend(m) ==
  /\ m \in live
  /\ live' = live \ {m}
  /\ UNCHANGED <<payments, settlements, queue, tasks, retrying, counted, marked, payouts, faults, edits>>

MarkOnHold(S) ==
  LET open == {s \in S : settlements[s].status = "processing"} IN
  /\ open # {}
  /\ settlements' = [s \in SettlementIds |-> IF s \in open THEN [settlements[s] EXCEPT !.status = "on_hold"]
                                                           ELSE settlements[s]]
  /\ UNCHANGED <<payments, live, queue, tasks, retrying, counted, marked, payouts, faults, edits>>

(* The change form: status is not among readonly_fields. *)
SetFailed(s) ==
  /\ settlements[s].status \in {"processed", "on_hold"}
  /\ edits[s] < MaxEdits
  /\ edits' = [edits EXCEPT ![s] = @ + 1]
  /\ settlements' = [settlements EXCEPT ![s].status = "failed"]
  /\ UNCHANGED <<payments, live, queue, tasks, retrying, counted, marked, payouts, faults>>

(* Mutant: the action retries whatever is selected. *)
RetryableAll(S) == {s \in S : settlements[s].status # "none"}
Retryable(S) == {s \in S : settlements[s].status = "failed"}

(* retry_failed_settlement: the filter is evaluated once, then each is paid. *)
LoadRetries(a, S) ==
  /\ retrying[a] = {}
  /\ Retryable(S) # {}
  /\ retrying' = [retrying EXCEPT ![a] = Retryable(S)]
  /\ UNCHANGED <<payments, settlements, live, queue, tasks, counted, marked, payouts, faults, edits>>

RetryPayout(a) ==
  /\ \E s \in retrying[a] :
       /\ PayByBank(s)
       /\ retrying' = [retrying EXCEPT ![a] = @ \ {s}]
  /\ UNCHANGED <<payments, live, queue, tasks, counted, marked, faults, edits>>

-----------------------------------------------------------------------------
Work(t) ==
  \/ WorkerTakes(t)
  \/ TakeMerchant(t)
  \/ FinishRun(t)
  \/ SumGross(t)
  \/ SumRefunded(t)
  \/ \E s \in SettlementIds : CreateSettlement(t, s)
  \/ BankPayout(t)
  \/ NotifyMerchant(t)
  \/ SelectDue(t)
  \/ MarkPayments(t)

Next ==
  \/ \E t \in Tasks : Work(t) \/ StatementRaises(t) \/ WorkerKilled(t)
  \/ BeatFires
  \/ OperatorCalls
  \/ \E p \in PaymentIds : Capture(p) \/ \E a \in 1..Price[p] : Refund(p, a)
  \/ \E m \in Merchants : Suspend(m)
  \/ \E S \in SUBSET SettlementIds : MarkOnHold(S)
  \/ \E s \in SettlementIds : SetFailed(s)
  \/ \E a \in Admins : RetryPayout(a) \/ \E S \in SUBSET SettlementIds : LoadRetries(a, S)

(* Beat keeps its schedule, and the worker works on what it has taken. *)
Fairness ==
  /\ WF_vars(BeatFires)
  /\ \A t \in Tasks : WF_vars(Work(t))

Spec == Init /\ [][Next]_vars /\ Fairness

-----------------------------------------------------------------------------
(* Safety *)

(* Nobody else touched the merchant's payments while the run was at work: then *)
(* the settlement's payout and fee are exactly what the payments it marked are *)
(* worth, captured minus refunded, when it marks them.                         *)
MarkedIsPaid ==
  [][\A s \in SettlementIds :
       marked'[s] # marked[s] /\ settlements'[s].clean =>
         settlements'[s].amount + settlements'[s].fees
           = Total(marked'[s]) - TotalRefunded(marked'[s])]_vars

(* Undisturbed runs that get as far as marking what they paid never pay a *)
(* payment twice, whatever happens to other runs.                         *)
SettledOnce ==
  \A r, s \in SettlementIds :
    r # s /\ settlements[r].clean /\ settlements[s].clean /\ marked[r] # {} /\ marked[s] # {}
      => counted[r] \cap counted[s] = {}

(* The bank pays a settlement once, and once more for each time it was set to *)
(* failed by hand, as long as one administrator at a time retries.            *)
PaidOncePerFailure ==
  /\ TypeOK
  /\ \A s \in SettlementIds : payouts[s] <= 1 + edits[s]

-----------------------------------------------------------------------------
(* What the documentation says and the code does not keep *)

(* "Get all captured payments not yet settled" (tasks.py): no payment is paid *)
(* out by two settlements.                                                    *)
NoDoublePayout ==
  \A r, s \in SettlementIds :
    r # s /\ payouts[r] > 0 /\ payouts[s] > 0 => counted[r] \cap counted[s] = {}

(* "SUM(captured) - SUM(refunds) - platform_fee = net_payout" (tasks.py): a     *)
(* payment marked as settled is part of what was paid out.                      *)
MarkedWasCounted == \A s \in SettlementIds : marked[s] \subseteq counted[s]

(* The same formula counts refunds against their payments: a run that marks a  *)
(* merchant's payments leaves none behind whose money is not all paid back.     *)
NothingLeftBehind ==
  [][\A s \in SettlementIds : marked'[s] # marked[s] =>
       \A p \in PaymentIds :
         /\ Owner[p] = settlements[s].merchant
         /\ payments[p].status \in {"captured", "partially_refunded"}
         => payments'[p].settled]_vars

(* 'Put settlements on hold' (admin.py): a settlement on hold is not paid. *)
HeldIsNotPaid ==
  [][\A s \in SettlementIds : settlements[s].status = "on_hold" => payouts'[s] = payouts[s]]_vars

(* "Runs at 11 PM daily via Celery Beat" (tasks.py). *)
RunsAgainAndAgain == []<>(\E t \in Tasks : tasks[t].at # "idle")

=============================================================================
