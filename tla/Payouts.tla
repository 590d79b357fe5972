------------------------------- MODULE Payouts -------------------------------
(***************************************************************************)
(* Payouts of one merchant: the create and bulk views, the two Celery      *)
(* tasks and payout_service.  The daily limit is a query, the insertion of *)
(* the payout another one; a web request hands its payout to a task, a     *)
(* bulk task works on the rows of its file one after another.              *)
(***************************************************************************)
EXTENDS Integers, FiniteSets, FiniteSetsExt

CONSTANTS
  Requests,        \* web requests served at the same time
  Workers,         \* Celery worker processes
  PayoutIds,       \* uuid4
  Amounts,         \* amounts asked for, in paise
  DailyLimit,      \* DAILY_PAYOUT_LIMIT
  Consumed,        \* the queues the workers are started with (-Q)
  MaxRows,         \* bound: rows of a bulk file; 0 for no bulk files
  MaxDays,         \* bound: midnights
  MaxRedeliveries, \* bound: messages the broker hands out a second time
  MaxFaults,       \* bound: statements that raise, and killed processes
  None

ASSUME PayoutAssumption ==
  /\ Amounts \subseteq 1..DailyLimit
  /\ IsFiniteSet(Requests) /\ IsFiniteSet(Workers) /\ IsFiniteSet(PayoutIds)
  /\ Requests \cap Workers = {}
  /\ DailyLimit \in Nat /\ MaxRows \in Nat /\ MaxDays \in Nat
  /\ MaxRedeliveries \in Nat /\ MaxFaults \in Nat
  /\ None \notin PayoutIds

VARIABLES
  payouts,     \* Payout rows; today: created since midnight
  jobs,        \* what each request and each worker is doing
  messages,    \* how many process_payout messages for each payout wait
  files,       \* the bulk messages that wait, each by its number of rows
  paid,        \* history: how often the bank paid each payout
  redelivered, \* how often each payout's message was handed out again
  days,
  faults

vars == <<payouts, jobs, messages, files, paid, redelivered, days, faults>>

-----------------------------------------------------------------------------
Actors == Requests \cup Workers
PayoutStatus == {"none", "queued", "processing", "processed", "failed", "reversed"}
Places == {"idle", "row", "insert", "enqueue", "start", "pay", "notify"}

(* No task is routed anywhere: every message is sent to Celery's default queue. *)
MessageQueue == "celery"

IdleJob == [at |-> "idle", rows |-> 0, payout |-> None, amount |-> 0]
NoPayout == [status |-> "none", amount |-> 0, today |-> FALSE]

TypeOK ==
  /\ payouts \in [PayoutIds -> [status: PayoutStatus, amount: Nat, today: BOOLEAN]]
  /\ jobs \in [Actors -> [at: Places, rows: 0..MaxRows, payout: PayoutIds \cup {None}, amount: Nat]]
  /\ messages \in [PayoutIds -> Nat]
  /\ files \subseteq 1..MaxRows
  /\ paid \in [PayoutIds -> Nat]
  /\ redelivered \in [PayoutIds -> Nat]
  /\ days \in 0..MaxDays
  /\ faults \in 0..MaxFaults

Init ==
  /\ payouts = [p \in PayoutIds |-> NoPayout]
  /\ jobs = [j \in Actors |-> IdleJob]
  /\ messages = [p \in PayoutIds |-> 0]
  /\ files = {}
  /\ paid = [p \in PayoutIds |-> 0]
  /\ redelivered = [p \in PayoutIds |-> 0]
  /\ days = 0
  /\ faults = 0

-----------------------------------------------------------------------------
(* Mutant: payouts the bank is working on do not count. *)
CountsWithoutProcessing(p) ==
  payouts[p].today /\ payouts[p].status \in {"queued", "processed"}

Counts(p) == payouts[p].today /\ payouts[p].status \in {"queued", "processing", "processed"}

TotalToday == MapThenSumSet(LAMBDA p : payouts[p].amount, {p \in PayoutIds : Counts(p)})

(* _check_daily_limit *)
WithinLimit(amount) == TotalToday + amount <= DailyLimit

(* A fresh id, as far as the bound allows. *)
Unused(p) == payouts[p].status = "none" /\ \A j \in Actors : jobs[j].payout # p

AskFor(j, p, amount) ==
  /\ Unused(p)
  /\ WithinLimit(amount)
  /\ jobs' = [jobs EXCEPT ![j].at = "insert", ![j].payout = p, ![j].amount = amount]

(* What follows a row, done or failed: the next one. *)
NextRow(w) == jobs' = [jobs EXCEPT ![w] = [IdleJob EXCEPT !.at = "row", !.rows = jobs[w].rows - 1]]

-----------------------------------------------------------------------------
(* Web requests *)

RequestPayout(r, p, amount) ==
  /\ jobs[r] = IdleJob
  /\ AskFor(r, p, amount)
  /\ UNCHANGED <<payouts, messages, files, paid, redelivered, days, faults>>

(* The beneficiary's account, IFSC or UPI id is missing or malformed. *)
RejectDetails(j) ==
  /\ jobs[j].at = "insert"
  /\ IF jobs[j].rows > 0 THEN NextRow(j) ELSE jobs' = [jobs EXCEPT ![j] = IdleJob]
  /\ UNCHANGED <<payouts, messages, files, paid, redelivered, days, faults>>

CreatePayout(j) ==
  LET job == jobs[j] IN
  /\ job.at = "insert"
  /\ payouts' = [payouts EXCEPT ![job.payout] =
                   [status |-> "queued", amount |-> job.amount, today |-> TRUE]]
  /\ jobs' = [jobs EXCEPT ![j].at = IF j \in Requests THEN "enqueue" ELSE "start"]
  /\ UNCHANGED <<messages, files, paid, redelivered, days, faults>>

(* process_payout_task.delay *)
Enqueue(r) ==
  /\ jobs[r].at = "enqueue"
  /\ messages' = [messages EXCEPT ![jobs[r].payout] = @ + 1]
  /\ jobs' = [jobs EXCEPT ![r] = IdleJob]
  /\ UNCHANGED <<payouts, files, paid, redelivered, days, faults>>

(* PayoutBulkView; a file with as many rows as a waiting one is not told apart. *)
SubmitFile(rows) ==
  /\ rows \notin files
  /\ files' = files \cup {rows}
  /\ UNCHANGED <<payouts, jobs, messages, paid, redelivered, days, faults>>

-----------------------------------------------------------------------------
(* Celery workers *)

TakeMessage(w, p) ==
  /\ jobs[w] = IdleJob
  /\ MessageQueue \in Consumed
  /\ messages[p] > 0
  /\ messages' = [messages EXCEPT ![p] = @ - 1]
  /\ jobs' = [jobs EXCEPT ![w].at = "start", ![w].payout = p]
  /\ UNCHANGED <<payouts, files, paid, redelivered, days, faults>>

TakeFile(w) ==
  /\ jobs[w] = IdleJob
  /\ MessageQueue \in Consumed
  /\ \E rows \in files :
       /\ files' = files \ {rows}
       /\ jobs' = [jobs EXCEPT ![w].at = "row", ![w].rows = rows]
  /\ UNCHANGED <<payouts, messages, paid, redelivered, days, faults>>

(* A row: create_payout, or the refusal that is logged.  The last disjunct is *)
(* the bound on payout ids, which stands for one more refusal.                *)
TakeRow(w) ==
  /\ jobs[w].at = "row"
  /\ jobs[w].rows > 0
  /\ \E amount \in Amounts :
       \/ \E p \in PayoutIds : AskFor(w, p, amount)
       \/ ~WithinLimit(amount) /\ NextRow(w)
       \/ (\A p \in PayoutIds : ~Unused(p)) /\ NextRow(w)
  /\ UNCHANGED <<payouts, messages, files, paid, redelivered, days, faults>>

FinishFile(w) ==
  /\ jobs[w].at = "row"
  /\ jobs[w].rows = 0
  /\ jobs' = [jobs EXCEPT ![w] = IdleJob]
  /\ UNCHANGED <<payouts, messages, files, paid, redelivered, days, faults>>

(* process_payout: by id, whatever the status. *)
StartProcessing(w) ==
  LET p == jobs[w].payout IN
  /\ jobs[w].at = "start"
  /\ payouts' = [payouts EXCEPT ![p].status = "processing"]
  /\ jobs' = [jobs EXCEPT ![w].at = "pay"]
  /\ UNCHANGED <<messages, files, paid, redelivered, days, faults>>

(* Mutant: the second UPDATE is missing. *)
AfterBankForgotten == "processing"
AfterBank == "processed"

(* The mock bank always succeeds. *)
PayByBank(w) ==
  LET p == jobs[w].payout IN
  /\ jobs[w].at = "pay"
  /\ payouts' = [payouts EXCEPT ![p].status = AfterBank]
  /\ paid' = [paid EXCEPT ![p] = @ + 1]
  /\ jobs' = [jobs EXCEPT ![w].at = "notify"]
  /\ UNCHANGED <<messages, files, redelivered, days, faults>>

FinishPayout(w) ==
  IF jobs[w].rows > 0 THEN NextRow(w) ELSE jobs' = [jobs EXCEPT ![w] = IdleJob]

(* dispatch_webhook_event.delay: nothing follows it, so its failure changes nothing. *)
Notify(w) ==
  /\ jobs[w].at = "notify"
  /\ FinishPayout(w)
  /\ UNCHANGED <<payouts, messages, files, paid, redelivered, days, faults>>

-----------------------------------------------------------------------------
(* Faults and time *)

(* A statement raises: a bulk row is logged, anything else ends there. *)
StatementRaises(j) ==
  /\ jobs[j].at \in {"insert", "enqueue", "start", "pay"}
  /\ faults < MaxFaults
  /\ faults' = faults + 1
  /\ FinishPayout(j)
  /\ UNCHANGED <<payouts, messages, files, paid, redelivered, days>>

(* Mutant: with task_acks_late the message comes back. *)
AckLate(j) ==
  messages' = IF j \in Workers /\ jobs[j].rows = 0 /\ jobs[j].payout # None
              THEN [messages EXCEPT ![jobs[j].payout] = @ + 1] ELSE messages

(* Celery's default: a message is acknowledged when it is taken. *)
AckEarly(j) == UNCHANGED messages

(* The process is killed. *)
Killed(j) ==
  /\ jobs[j] # IdleJob
  /\ faults < MaxFaults
  /\ faults' = faults + 1
  /\ jobs' = [jobs EXCEPT ![j] = IdleJob]
  /\ AckEarly(j)
  /\ UNCHANGED <<payouts, files, paid, redelivered, days>>

(* A message that waits at a worker beyond Redis' visibility timeout is *)
(* handed out a second time.                                            *)
Redeliver(p) ==
  /\ messages[p] > 0
  /\ redelivered[p] < MaxRedeliveries
  /\ messages' = [messages EXCEPT ![p] = @ + 1]
  /\ redelivered' = [redelivered EXCEPT ![p] = @ + 1]
  /\ UNCHANGED <<payouts, jobs, files, paid, days, faults>>

(* start_of_day is midnight, Indian time. *)
Midnight ==
  /\ days < MaxDays
  /\ days' = days + 1
  /\ payouts' = [p \in PayoutIds |-> [payouts[p] EXCEPT !.today = FALSE]]
  /\ UNCHANGED <<jobs, messages, files, paid, redelivered, faults>>

(* No request need come. *)
Quiescent == (\A j \in Actors : jobs[j] = IdleJob) /\ UNCHANGED vars

-----------------------------------------------------------------------------
Serve(r) == CreatePayout(r) \/ Enqueue(r)

Work(w) ==
  \/ \E p \in PayoutIds : TakeMessage(w, p)
  \/ TakeFile(w)
  \/ TakeRow(w)
  \/ FinishFile(w)
  \/ CreatePayout(w)
  \/ StartProcessing(w)
  \/ PayByBank(w)
  \/ Notify(w)

Next ==
  \/ \E r \in Requests : Serve(r) \/ \E p \in PayoutIds, a \in Amounts : RequestPayout(r, p, a)
  \/ \E rows \in 1..MaxRows : SubmitFile(rows)
  \/ \E w \in Workers : Work(w)
  \/ \E j \in Actors : RejectDetails(j) \/ StatementRaises(j) \/ Killed(j)
  \/ \E p \in PayoutIds : Redeliver(p)
  \/ Midnight
  \/ Quiescent

(* A request is served to its end and a worker works on what it has taken; *)
(* Redis' lists are first in, first out, so a worker that consumes         *)
(* MessageQueue passes no message over for ever in favour of later ones.   *)
(* The workers of the deployment do not consume it: for their queues       *)
(* TakeMessage is never enabled, and its fairness says nothing.            *)
Fairness ==
  /\ \A r \in Requests : WF_vars(Serve(r))
  /\ \A w \in Workers : WF_vars(Work(w)) /\ \A p \in PayoutIds : SF_vars(TakeMessage(w, p))

Spec == Init /\ [][Next]_vars /\ Fairness

-----------------------------------------------------------------------------
Largest(S) == CHOOSE x \in S : \A y \in S : y <= x

(* What is paid out today, whatever it is that _check_daily_limit adds up. *)
PaidOutToday ==
  MapThenSumSet(LAMBDA p : payouts[p].amount,
                {p \in PayoutIds : payouts[p].today /\ payouts[p].status # "none"})

(* The limit is overshot by what the other requests and bulk tasks can have *)
(* in flight, one payout each, and by nothing else: alone, a request keeps  *)
(* to it, over any midnight.                                                *)
OvershootBounded ==
  PaidOutToday <= DailyLimit + (Cardinality(Actors) - 1) * Largest(Amounts)

(* The bank pays a payout once, and once more for each redelivered message, *)
(* also when it was in a bulk file or its task was killed.                  *)
PaidOncePerDelivery == TypeOK /\ \A p \in PayoutIds : paid[p] <= 1 + redelivered[p]

(* The payout was accepted and is not processed, no message for it waits, and *)
(* nobody is going to send one or to pay it.                                  *)
Stranded(p) ==
  /\ payouts[p].status \in {"queued", "processing"}
  /\ messages[p] = 0
  /\ \A j \in Actors : jobs[j].payout = p => jobs[j].at \notin {"enqueue", "start", "pay"}

(* Each process that is killed and each statement that raises strands at most *)
(* one payout, and nothing else strands any: no redelivered message, no bulk  *)
(* row and no second worker takes a payout over and leaves it half done, and  *)
(* whatever queues are consumed, a message for it is kept (process_payout).   *)
StrandedByFault == Cardinality({p \in PayoutIds : Stranded(p)}) <= faults

(* "Mock: always succeeds" (payout_service.py): without faults, a payout that *)
(* was accepted is processed in the end.  It is not where no worker consumes  *)
(* MessageQueue (PayoutsDeployed.cfg).                                        *)
QueuedGetsProcessed ==
  \A p \in PayoutIds :
    payouts[p].status = "queued" ~> payouts[p].status = "processed" \/ faults > 0

(* "per merchant per day" (payout_service.py): the limit is one. *)
DailyLimitKept == PaidOutToday <= DailyLimit

=============================================================================
