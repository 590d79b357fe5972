# PayZap in TLA+

This directory specifies the payment gateway in `src/` (a Django/DRF web
application, a Celery worker, MySQL and Redis) in TLA+, checks small instances
of it with TLC and proves, for every value of the constants, all its safety
properties with TLAPS.

1. [The system](#1-the-system)
2. [Inventory](#2-inventory)
3. [Modules and plan](#3-modules-and-plan)
4. [How the modules correspond to the code](#4-how-the-modules-correspond-to-the-code)
5. [Runs](#5-runs)
6. [What the code does not keep](#6-what-the-code-does-not-keep)
7. [Proofs](#7-proofs)
8. [Not modelled](#8-not-modelled)

## 1. The system

Merchants call a REST API. gunicorn serves requests on several workers at once;
a Celery worker runs tasks; MySQL keeps the rows; Redis keeps the payment locks,
the rate counters, the cached responses and Celery's queues. Four facts about
the code shape every module.

* **A statement is a transaction.** `ATOMIC_REQUESTS` is not set, so every ORM
  statement commits by itself unless it stands inside `transaction.atomic`. A
  request is a sequence of committed statements that other requests run between
  and that a killed process cuts short.
* **Checks are made on loaded objects.** A view loads a row, a service tests
  the object in memory, and a later statement writes by primary key. By then
  the row may be something else.
* **Rows are rarely locked.** Inside a transaction, only the update of a
  payment after its authorization, the recording of a capture and the processing
  of a refund use `select_for_update`; no update uses `F()`. Django runs MySQL at
  READ COMMITTED: each query sees what is committed when it runs.
* **Celery acknowledges early.** A message is gone once a worker has taken it;
  a task that is killed does not come back. `task_acks_late` is not set.

So the unit of a step, in every module, is one committed statement, one
transaction, one Redis command or one call to a bank or a merchant's server.
Where a later statement uses what an earlier one read, the model keeps that
value in the record of the request (`jobs`, `reviews`, `requests`,
`tasks`, `calls`).

## 2. Inventory

`PROJECT.json` lists the components with their files. Here is what each one
keeps and does, whom it talks to, what is hard about it and what makes it
correct.

### Payment core (`payments/`)

*State*: `Order` (status, expires_at), `Payment` (status, amount_refunded,
captured_at, netbanking_url), `Refund` rows; the key `payment_lock:<id>` in
Redis with a TTL of 30 s; what the bank has captured.
*Operations*: create an order; create a payment over six channels (service,
card, UPI collect, UPI intent, net banking, wallet); authorize; capture; refund;
the net-banking callback; `mark_as_failed` in the admin; `expire_stale_orders`.
*Interactions*: the views hand loaded rows to the services; the services call the
gateway; a capture sends `dispatch_webhook_event`; the settlement run reads and
marks payments.
*Hard*: a capture tests the status before it takes the lock and never again; the
lock is deleted by name, whoever owns it; a bank call can succeed and its
recording fail; refunds race; a worker can be killed between any two steps.
*Correct if*: refunds stay within the amount and add up; statuses and money
agree; the lock is exclusive while its TTL suffices, comes free after every
outcome, and is never left behind but by a killed process.

### Settlement (`settlements/`)

*State*: `Settlement` rows, `Payment.in_settlement`.
*Operations*: the daily run (per merchant: is anything due, sum, sum of refunds,
create, pay, notify, mark), retry and hold in the admin, status edits by hand.
*Interactions*: reads payments while they are captured and refunded, pays by
bank, queues webhooks; Celery Beat starts it.
*Hard*: the queryset is lazy, so `exists`, the two sums and the update are
queries over whatever matches at each moment; the payments are marked last, after
the payout and after a call that needs the broker.
*Correct if*: a payment is paid out once, for exactly what it is worth.

### Virtual accounts and payment links (`payments/`)

*State*: `VirtualAccount` (status, amount_paid), `PaymentLink` (status,
use_count), and the orders and payments that credits and uses create.
*Operations*: create, credit/use, close/disable.
*Hard*: both add to a value read before the transaction and write it by id.
*Correct if*: what the row shows is backed by payments, and closed stays closed.

### Payouts (`payouts/`)

*State*: `Payout` rows, the messages in Celery's queue.
*Operations*: single and bulk creation, `process_payout`.
*Hard*: the daily limit is a read followed by an insertion; the message can be
lost before it is queued or handed out twice; the queues' names must agree.
*Correct if*: the limit binds, a payout is paid once, only a fault leaves one half done.

### Webhooks (`webhooks/`)

*State*: `WebhookEndpoint`, `WebhookEvent` (status, attempts, next_retry_at).
*Operations*: register and test an endpoint, `dispatch_event`, `_attempt_delivery`, `retry_pending`, the
admin's forced retry, dead-lettering and deactivation, the dispatch task.
*Hard*: an attempt reads the event, posts for up to ten seconds and writes the
whole object back; nothing claims an event.
*Correct if*: `attempts` never exceeds the posts, nobody gives up early or
retries too often, and no event is left behind by the request that created it.

### KYC and activation (`merchants/`)

*State*: the `Merchant` row (kyc_status, bank account, bank_verified, is_live,
is_active), `KYCDocument` rows, the live API key.
*Operations*: upload, bank details, submit, approve and reject (by the API or the
admin), generate a live key, suspend, edit a document's status in the admin.
*Hard*: every test is made on the merchant loaded at authentication; an approval
is four committed steps.
*Correct if*: the status moves along documented transitions, nobody is live
unapproved, an approval is finished.

### Rate limit, idempotency, duplicate orders (`merchants/middleware.py`, `payments/middleware.py`, `payments/views.py`)

*State*: the counter and its TTL, the response cache, `Order.idempotency_key`.
*Hard*: INCR and EXPIRE are two commands; the cache is read before the view and
written after it; the view looks for a duplicate before it inserts.
*Correct if*: no counter blocks a merchant for ever, a repeated key shows the
same order.

### Registration, login and test keys (`merchants/views.py`, `authentication.py`, `tasks.py`)

*State*: the Django user (active or not), the `Merchant` row, `APIKey` rows, the
mail tasks in Celery's queue, the verification link in the merchant's inbox.
*Operations*: register, verify, log in (API and dashboard), authenticate by key,
make a key, disable a key, suspend.
*Interactions*: registration queues the mail for a Celery worker; `KYCService`
queues mails too; every other component begins with the check of a key.
*Hard*: a registration is three INSERTs and a message, each committed by itself;
the address is checked before it is made lower case; the mail may fail, and
its message is gone once a worker has taken it; a suspension does not reach
requests that are under way.
*Correct if*: who is told that the account exists has all of it, losing a race
leaves nothing behind, who can log in has a merchant, no mail is lost but by a
fault or a mail server that fails longer than the task is retried.

### Fraud engine (`fraud/`)

*State*: in Redis a counter of failures and a block per BIN, a counter per
address, the BIN blacklist, each counter and block with a TTL; `FraudSignal` rows.
*Operations*: `evaluate`, `record_failed_attempt`, `record_signals`, the
blacklist's endpoints.
*Interactions*: none yet but the blacklist's views: no payment calls the engine.
*Hard*: an evaluation is up to five commands between which others count, block
and expire; INCR and EXPIRE are two commands; a Redis error fails open.
*Correct if*: a reason to block that stands during the whole evaluation blocks,
every counter ends, a block ends.

### Gateways (`payments/processors/`, `bin_lookup.py`)

*State*: none. *Operations*: which gateway a card is routed to, what it answers,
and which status the services write for the answer.
*Hard*: `CardPaymentService` may authorize at Razorpay, where an order is opened
whatever the card (the card that needs 3DS included), while captures always go
through the mock gateway.

### Notifications, dashboards, validators, deployment, load tests

Listed in `PROJECT.json` with what is modelled of them; see
[section 8](#8-not-modelled).

## 3. Modules and plan

| module | what it is | with |
|---|---|---|
| `Gateways` | routing of cards, answers of gateways, statuses written for them: pure operators | |
| `Payments` | the payment core | extends `Gateways` |
| `RefundLedger` | what refunding promises, abstractly | instantiated by `Payments` (`RefinesLedger`) |
| `FiniteSums` | theorems about sums over finite sets and about sets that grow | |
| `PaymentsProofs` | theorems about `Payments` | extends `Payments`, `FiniteSums` |
| `Settlement` | the daily run, with captures and refunds of the core as environment | |
| `SettlementProofs` | theorems about `Settlement` | extends `Settlement`, `FiniteSums` |
| `VirtualAccounts` | credits and closing | |
| `AccountLedger` | what a virtual account promises, abstractly | instantiated by `VirtualAccounts` (`FreshIsLedger`) |
| `PaymentLinks` | uses of a link | |
| `CollectionsProofs` | theorems about both | extends both |
| `Payouts` | requests, Celery queue, workers, daily limit | |
| `PayoutsProofs` | theorems about `Payouts` | extends `Payouts`, `FiniteSums` |
| `Webhooks` | endpoints, delivery, retry, dead letters, the dispatch task | |
| `WebhooksProofs` | theorems about `Webhooks` | extends `Webhooks` |
| `Onboarding` | KYC, activation, live keys | |
| `Accounts` | registration, verification mail, logins, test keys, suspension | |
| `MerchantsProofs` | theorems about both | extends both, `FiniteSums` |
| `Requests` | rate limiter, idempotency cache, order creation | |
| `Fraud` | velocity counters, blocks, blacklist, verdicts and signals | |
| `GuardsProofs` | theorems about both, what stands before a payment | extends both, `FiniteSums` |
| `MC...` | functions for constants, symmetry; `Payouts`, `Webhooks`, `Onboarding` and `Accounts` need neither and are run themselves | extends its module |

The order was by importance: money that merchants' customers pay (`Payments`),
money paid to merchants (`Settlement`), then the smaller services, then the
layers in front. Components share rows rather than messages, so where two of
them meet the reader's module carries the other as an environment action:
`Settlement!Capture` and `Settlement!Refund` are the effects of `Payments`'
`RecordCaptured` and `ProcessRefund` on the columns the run reads, including
the late capture that overwrites a refunded status.

The plan is carried out: each module was modelled, checked, and its safety
properties proved. What could follow, in this order:

1. A composition of `Payments` with `Settlement` in place of the environment
   actions, and of `Requests` with the payment views.
2. The webhook that `record_credit` posts before its transaction commits, as a
   composition of `VirtualAccounts` and `Webhooks`.

All modules are written for proof: constants with named assumptions, one action
per statement, invariants as conjunctions, no `RECURSIVE` operator.

## 4. How the modules correspond to the code

`PROJECT.json` maps every definition to the lines it stands for. What is not
obvious from there:

**Mutants.** An operator under a comment that begins with "Mutant" is a
deliberately wrong variant of a definition next to it: what a plausible bug
there would look like. Put in the place of the right one, it makes the property
paired with it under `mutants` fail. No specification uses one.

**`Payments`.** The six channels (`ProcessPayment`, `ProcessCardPayment` and so
on) are made of the same statements, each channel of those its service method
has. `jobs[w].at` is the place a request has reached; a request holds
only ids and the amount asked for, because what it tested is implied by its
place. `bank` is the bank's side of the truth: of each payment, how many captures
were accepted (`calls`) and how much they add up to (`total`). A fault between
`GatewayCapture` and `RecordCaptured` leaves it ahead of the rows. **The amount of
a capture is what the client sent** (`Amounts`, any set of integers): nobody
validates it (views.py:273, services.py:89), and the gateway refuses only more
than the payment's amount (mock_gateway.py:105), so a negative one is accepted
and the order is paid. The properties therefore say that a capture was accepted,
not that it was positive, which the code does not ensure; `PaymentsPartialCapture.cfg`
shows what follows. `LockFree`
is `cache.add`, `DropLock` `cache.delete`: a key without an owner.
`LeaseOverrun` says whether a step inside the lock can outlast `LOCK_TTL`; the
code bounds it nowhere, so runs use both values. `faults` counts killed processes and
exceptions apart: a killed process leaves the
key (`Crash`), an exception runs the `finally` clause (`CaptureRaises`), and so
does the exception of `process_payment`, which ends in `_fail_payment` and is
the outcome `failed` of `Authorize`. `amount=0` and no amount both mean the
full amount, since the code tests the truth of the number. `_process_refund`
is one step: it is one transaction under a row lock, and `processing` is never
committed by itself. The branch of `process_payment` for a gateway that answers
`captured` to an authorization is dead with every gateway in the repository.

**`Gateways`.** A card is what `lookup_bin` and the mock gateway tell apart: one of
the four numbers the mock knows, or a network. An answer is success, status and
error code. Which rows a payment can get is computed from the routing and both
gateways' answers (`ServiceRows`, `CardRows`, `UpiRows`, `WalletRow`); `Payments`
draws the outcome of `Authorize` from them, channel by channel.

**`Settlement`.** Each query is a step. `clean` marks a settlement during whose
run nothing else touched the merchant's payments; it is what lets the
correctness of the arithmetic (`MarkedIsPaid`, `SettledOnce`) be stated apart from the races.
`Fees` allows for the product of two floats falling just below a whole number.
`ScheduledName` and `TaskName` are the two names of the task, in Beat's schedule
and in its decorator.

**`VirtualAccounts`, `PaymentLinks`.** A call goes through `loaded` (the object
in memory) and `updated` (the transaction's own version of the row, which
nobody else sees; MySQL's row lock is `RowFree`) to `Commit` or `Rollback`; in
`PaymentLinks` these names begin with `Link`.

**`Payouts`.** `messages` is a bag, `files` the bulk messages. `MessageQueue` is
where messages go, since no route is configured; `Consumed` is the queues the
worker is started with. The only worker commands in the repository
(docker-compose-prod.yml:36, infra/k8s/base/deployment.yaml:80) consume other
queues: with theirs no message is ever taken (`PayoutsDeployed.cfg`,
`AccountsDeployed.cfg`). The runs of both modules, of safety only, have a worker that is
started without `-Q`, so that what tasks do is checked at all; `Accounts` has
both definitions, too.

**`Webhooks`.** The statements are modelled as autocommit. A post without an
answer may have been handled all the same. `pending` events left by a killed
process stay as they are: nothing looks for them; `PendingHasOwner` says that
this is the only way to such an event. Only the dispatch task takes `'*'` in an
endpoint's list for every event (`Wildcards`, `TaskTargets`). `Notify` is what `dispatch_event` and the
test view have in common.

**`Onboarding`.** A request remembers the whole merchant it loaded (`seen`).
The penny drop is a mock that always succeeds. `LoadForReview` is the API's
review, `SelectForReview` the two actions of the merchant admin. `EditDocument`
is the document's form in the admin, where its status can be chosen freely: the
only place that rejects a document. `StartReview` stands for the
admin's change form, the only place that can choose `under_review`.

**`Requests`.** The counter saturates at `RateLimit + 1`, above which it is
compared the same way. An order without a body key also stands for what any
other POST creates, since the serializer invents a key for it. An answer is
identified by its order: `Answered` is a 2xx answer. The window is fixed, as in
the code, so twice the limit may pass around its end; nothing says otherwise.

**`Accounts`.** An address stands for the merchant that registers with it, `by`
for the client whose password or details a row has. An address typed in capitals
passes the serializer's test whether or not it is taken (the collation decides)
and is made lower case afterwards, so only the unique columns are left to refuse
it. `mails` is the queue; `Registered` the tasks a worker knows: it imports the
modules named `tasks`, so the three mails of `kyc_tasks.py` are discarded
(`Discard`). The link is the token of 24 hours; that the route it points to is
served by a front end outside the repository is assumed. Superusers made on
the command line have no merchant and are left out.

**`Fraud`.** A counter is a number and a TTL in ticks, with 0 for no key and no TTL;
a number above the limit is compared as the limit is. The windows of 600, 300 and
3600 seconds are ticks that keep their order, the longest being the block. `why`
is a history of an evaluation: the reasons to block that have held since it began.
`StandingReasonBlocks` speaks of one and the same reason on purpose: when another
evaluation sets the block after this one has looked for it, and the counter
expires before this one reads it, some reason held at every moment and none is
seen.
The branches `step_up` and `block` of the last resort in `evaluate` are kept,
although no scores of the engine's rules reach them. The callers are external.

**History variables** (marked "history" where they are declared) record what the properties
are about; no guard reads them.

## 5. Runs

A module's `TypeOK` is a conjunct of the first invariant its run checks; the
properties beside it take several steps of several actors to break. All counts
are bounded by the constants named here; the bounds are chosen so that every
action occurs and the race in question can happen.

| run | checks | shows | bounds |
|---|---|---|---|
| `payments_core` | RefundWithinAmount, LedgerBalanced, RefundStatusExact, CaptureRecorded, KeyHasHolder | two requests with captures and refunds on two payments of one order, a fault, and keys that expire under their holder (`LeaseOverrun` is TRUE): refunds add up, what the bank captured is on record but for what the fault lost, and a key that stays has a holder | the price is 2: a refund can be full, partial or, twice, too much; captures ask for less than nothing, a part and the full price; two payments and one fault: it may lose one of them |
| `payments_channels` | SettledWasCaptured, PaidOrderWasCaptured, LockExclusive, LockComesFree, RefundDecided, RefinesLedger | all six channels, a bank callback, the administrator, a fault, and steps that end before the TTL (`LeaseOverrun` is FALSE): a key expires only when nobody is inside, any other must be deleted by its holder | one payment, so that liveness is affordable; two refunds; one fault, which may leave a key behind; amounts below nothing, none, a part, the full price and too much: accepted, refused, raised |
| `settlement_runs` | PaidOncePerFailure, SettledOnce, MarkedIsPaid | repeated runs with captures and refunds between any two queries, a fault, a hold, a failure set by hand and its retry | two payments of amounts 2 and 1, fee one quarter: rounded down, also to zero; two settlement ids: a second run |
| `virtual_account_races` | NeverOvercounts, ClosedStaysClosed, FreshIsLedger | two requests credit and close two accounts, and crash | one account expects 3, the other nothing; amounts 0 to 2 reach 3 exactly and pass it |
| `payment_link_races` | PaidWasUsed, UnusableStaysUnusable | three payments through one link that may be used twice | up to four orders: more than max_uses can happen |
| `payouts_runs` | OvershootBounded, PaidOncePerDelivery, StrandedByFault | a request and a bulk file of two rows, a midnight, a redelivery, two faults | three payouts, so that two faults may strand two and not a third; limit 1 and payouts of 1: a single one in flight overshoots |
| `webhooks_races` | AttemptsWerePosts, DeadLetterEarned, PendingHasOwner, RetriesWithinMax | endpoints that come and go, one dispatch or test event, two retry runs and a forced retry of one event, one crash | MaxAttempts 2 and four posts: the limit is reached and overlapped |
| `onboarding_races` | LiveWasApproved, ApprovedGoesLive | two requests of any kind with uploads, documents edited, bank changes, suspension, a crash | six changes: submit, reject, submit again |
| `requests_runs` | CounterWillExpire, SameKeySameOrder, DoubleProcessingBounded | two merchants' order requests with every mix of header and body key | limit 2, three orders, one fault |
| `fraud_runs` | StandingReasonBlocks, CountersWillExpire, SignalsKeepVerdict, BlockIsTemporary | two requests evaluate or record failures of one BIN and one address, with a changing blacklist, expiring keys and a fault | limits 2 and 1: reached by two requests; windows of one tick, a block of two |
| `accounts_runs` | AccountIsWhole, HalfAccountOnlyByFault, ActiveUserHasMerchant, LateKeysBounded, MailNotLost | two clients register one address, log in, make keys; suspension; a fault; a mail server that fails | four keys, room for one late key of each client; four failures of the mail server, one more than retries; one address (the theorems have any number) |
| `payments_double_capture` | CaptureOnlyAuthorized | a counterexample, see section 6 | the smallest that has it |

`RefinesLedger` says that the payment core implements `RefundLedger`, with
`limit` the captured amount, `returned` `amount_refunded` and `verdict` the
status of a refund: a claim is paid exactly if it still fits and refused exactly
if it does not. `FreshIsLedger` says that every step of the virtual accounts is
one of `AccountLedger` or the commit of a stale credit; those are thus the only
thing between the code and the ledger.

**Conditions in properties.** `RefundDecided`, `ApprovedGoesLive`,
`DoubleProcessingBounded`, `PendingHasOwner`, `CountersWillExpire`,
`BlockIsTemporary` and `HalfAccountOnlyByFault` speak of behaviours without a
fault: with one, the code loses what they promise, and the runs that allow
faults would show it. `CaptureRecorded`, `StrandedByFault` and `MailNotLost` say
how much each fault may lose instead. `KeyHasHolder` allows for killed
processes, not for exceptions. `LockExclusive` is conditional on
`~LeaseOverrun`: with an overrun it does not hold. `SettledOnce` needs no such
condition: that both runs were undisturbed and got as far as marking what they
paid is enough.

**Deadlock** is checked in every run. `Quiescent`, where a module has it, is the
idle server: no request need come, and a state with work in progress and no
step left would still be reported.

**Fairness.** A request that has begun is carried on (weak fairness of its
next step: gunicorn and Celery run their processes). Redis drops expired keys
(weak fairness of `LockExpires`). In `payments_channels` that action is enabled only
for a key without a holder, so `LockComesFree` rests on every holder deleting
its key, and on the TTL only for the keys of killed processes; where
`LeaseOverrun` is TRUE it would follow from the TTL alone and is not checked.
`Payouts` has strong fairness of `TakeMessage` for each message, because Redis'
lists are first in, first out and a message is not passed over for ever in
favour of later ones, and `Accounts` weak fairness of the worker taking each
mail (not of mails failing). Neither says anything of workers that do not
consume `MessageQueue`, as the deployed ones, and no passing run rests on them.
`Settlement` has weak fairness of Beat sending the name in its schedule, `Fraud`
of time passing. Nothing else is fair: nobody is obliged to send a request, an
administrator to click, or anyone to call `retry_pending`, which has no
caller; and `expire_stale_orders` never runs under Beat (its scheduled name,
`payments.tasks.expire_stale_orders`, is not the name it is registered under,
as with settlements).

**Symmetry** is used in safety runs only, over ids and workers that no constant
function tells apart.

## 6. What the code does not keep

One disagreement is among the regular runs and described under `findings` in
`PROJECT.json`:

* `payments_double_capture`: two captures that both loaded the authorized payment
  take the lock one after the other; the bank is asked to capture twice.

The others have a configuration each, kept for reference. TLC reports the
property violated when the configuration is run with the MC module of its
component, or the module itself where there is none.

| configuration | property | what happens |
|---|---|---|
| `SettlementDouble.cfg` | `NoDoublePayout` | the payments are marked only after the payout and the webhook call (tasks.py:63-65); when queueing the webhook raises, the exception is logged, the payments stay unmarked and the next run pays them again; tasks.py:29 says "Get all captured payments not yet settled". |
| `PaymentsExpiry.cfg` | `ExpiredWithoutPayment` | process_payment sets the order to attempted by id whatever it has become, so an order that was paid meanwhile is expired by expire_stale_orders; tasks.py:107 says "Expires orders that passed their expiry time without payment." |
| `PaymentsPartialCapture.cfg` | `RefundWithinCaptured` | initiate_refund bounds a refund by payment.amount - amount_refunded, and a capture's amount is stored nowhere (services.py:89-105), so more can be refunded than the bank captured, and something when it captured nothing or less; refund_service.py:17 says "Total refunded amount cannot exceed captured amount". |
| `PaymentLinksMaxUses.cfg` | `MaxUsesRespected` | use_count and is_usable are taken from the object fetched before the transaction, so concurrent payments exceed max_uses; payment_link_service.py:39 says "Creates an Order, increments use_count, marks paid if max_uses hit." |
| `PayoutsDeployed.cfg` | `QueuedGetsProcessed` | no task is routed to a queue, so all messages go to Celery's default queue 'celery', which the workers of infra/k8s/base/deployment.yaml:80 and docker-compose-prod.yml:36 ("-Q default,payments,webhooks") do not consume: a payout stays queued for ever, where payout_service.py:103 says "Mock: always succeeds". |
| `AccountsDeployed.cfg` | `VerificationArrives` | for the same reason the verification mail waits in the queue 'celery' for ever, without any fault; merchants/views.py:20 says "Creates merchant account + Django user + sends verification email." |
| `OnboardingTransitions.cfg` | `KycTransitions` | the status is tested on the object loaded at authentication and written by id, so an approval in between is overwritten with 'submitted'; kyc_service.py:69 says "Transitions: pending/rejected → submitted". |
| `OnboardingBank.cfg` | `VerifiedIsCurrent` | bank_verified=True is written for whatever account the row holds by then, not the one the penny drop read; kyc_views.py:172 says "Reset verification on change". |
| `OnboardingResubmit.cfg` | `ResubmittedIsFresh` | reject_kyc sets every document to 'uploaded', which is what submit_kyc asks for, so nothing has to be uploaded again; kyc_service.py:160 says "Merchant must re-upload documents and resubmit." |
| `OnboardingCrash.cfg` | `ApprovalIsFinished` | the status is committed before the penny drop and the activation; if the process stops in between, line 118 refuses a second approval; kyc_service.py:116 says "Triggers penny drop verification then activates merchant." |
| `RequestsDouble.cfg` | `ZeroDoubleProcessing` | the cache is read before and written after the view, so overlapping requests with one key are all processed; middleware.py:10 says "zero double processing". |
| `SettlementHeld.cfg` | `HeldIsNotPaid` | _initiate_bank_payout updates by id whatever the status, so a settlement put on hold meanwhile is paid; settlements/admin.py:42 says "Put settlements on hold". |
| `SettlementBeat.cfg` | `RunsAgainAndAgain` | Beat schedules 'settlements.tasks.process_daily_settlements' but the task is registered as 'settlements.process_daily_settlements', so every message is discarded; settlements/tasks.py:13 says "Runs at 11 PM daily via Celery Beat." |
| `VirtualAccountsLost.cfg` | `AmountPaidIsSum` | amount_paid is set to the value read before the transaction plus the amount, without F() or a row lock, so one of two concurrent credits is lost; payments/tests_payment_link.py:475 test_two_credits_accumulate_amount_paid says both count ("self.assertEqual(va.amount_paid, 100000)", line 483). |
| `VirtualAccountsClosed.cfg` | `ClosedNotCredited` | the status is that of the object the view loaded, so an account closed since is credited; line 43 says 'Virtual account is closed.' and payments/tests_payment_link.py:501 test_record_credit_on_closed_va_raises expects the refusal. |
| `WebhooksBeat.cfg` | `DueIsRetried` | no entry of the Beat schedule (payzap_core/celery.py:14-22) and no task calls retry_pending; webhook_service.py:125 says "Called by Celery Beat — picks up all failed events due for retry." |
| `WebhooksTask.cfg` | `TaskRecordsEvents` | WebhookEvent has the field endpoint and no field webhook, so create(webhook=...) raises TypeError and no payment, settlement or payout event is ever recorded; tasks.py:106 says "Finds all active webhook endpoints for a merchant that subscribe to this event type, creates WebhookEvent records, and queues delivery." |

Seven more are stated in their modules and have no configuration; TLC refutes each
when it takes the place of the properties of the component's own configuration.

| property | what happens |
|---|---|
| `Payments!RefundedIsTerminal` | capture_payment sets status='captured' on the locked row without looking at its current status, so a refunded payment becomes captured again; tasks.py:67-68 treats refunded as "already in terminal state". |
| `Settlement!MarkedWasCounted` | payments.update re-evaluates the queryset, so a payment captured after the sums were taken is marked as settled without being part of any payout; tasks.py:14 says "SUM(captured) - SUM(refunds) - platform_fee = net_payout". |
| `Settlement!NothingLeftBehind` | only status='captured' is settled, and a partial refund changes the status, so the rest of a partially refunded payment is never paid out; tasks.py:14 says "SUM(captured) - SUM(refunds) - platform_fee = net_payout". |
| `Payouts!DailyLimitKept` | the sum and the insertion are two statements without a lock, so two requests that check the limit before either inserts exceed it; payout_service.py:11 says "₹1,00,000 in paise per merchant per day". |
| `Webhooks!AtMostMaxAttempts` | attempts is the number read before the post plus one, and nothing claims an event, so two retry runs post the same event and count one attempt: it is posted more than MAX_ATTEMPTS (webhook_service.py:17) times, where webhooks/tests.py:120 says test_dead_letter_after_max_attempts. |
| `Accounts!AddressNotStranded` | a process killed after the first INSERT of a registration leaves a user without a merchant; every later registration of that address passes the serializer, which looks at merchants only, and ends in the unhandled IntegrityError of the user name. |
| `Onboarding!CanSubmitIsKept` | `get_kyc_status` counts documents of any status, `submit_kyc` only uploaded ones: a merchant whose document was rejected or verified in the admin is told `can_submit` and refused for a missing document. |

## 7. Proofs

Every invariant and action property of the passing runs, and both refinements, are
theorems; liveness is left to TLC. Each component was proved by itself. Three modules
of proofs extend two components that stand next to each other in the code and share
no state. The second of each two has names of its own for what every module has:
`PaymentLinks` says `LinkSpec`, `LinkTypeOK`, `LinkCommit`, `Onboarding` `KycSpec`,
`KycBegin`, `Requests` `RequestSpec`, `RequestKilled`; its null is `Null` and its
requests are served by `Callers` or `Handlers`, where the first has `None` and `Workers`.

`PaymentsProofs` proves, for any sets of workers, orders, payments and refunds,
any prices and any bounds, from `PriceAssumption` (prices are positive),
`ChannelAssumption`, `NoneAssumption` and `BoundAssumption` (lemma `GatewayRows`
binds the statuses of `Gateways` to those a payment can have):

* **`TypeCorrect`**: `Spec => [](TypeOK /\ JobsOK /\ RowsOK)`. `TypeOK` alone is
  not inductive: that a refund adds a natural number to a natural number needs
  the payment to exist and to have an order with a price. `RowsOK` says that an
  existing payment belongs to an order and a missing one is blank; `JobsOK` says
  what a request at each place carries, hence that no later statement of the code
  dereferences something that is not there.
* **`RefundsCorrect`**: `Spec => [](RefundWithinAmount /\ RefundStatusExact)`.
  Given `TypeInv` the conjunction is inductive, and needs both halves: the status
  can only be exact if the total is in range. Lemma `PlainStatus` covers every
  write of a status that is not a refund status, `NewRow` the insertions,
  `RefundFits` the transaction of `_process_refund`, where the argument is: the
  re-validation under the row lock and the write are one step.
* **`LockSafe`**: `Spec => []LockExclusive`. The invariant `LockInv` adds that
  whoever is inside is covered by a key in Redis. The cases are lemmas: a step
  that lets nobody in (`NobodyEnters`, `NobodyMoves`), the one that sets the key
  (`OneEnters`), and the one that deletes it (`OneLeaves`): deletion by name is
  safe because, while TTLs suffice, the deleter is the only one inside.
* **`KeyHeld`**: `Spec => []KeyHasHolder`, whether or not TTLs suffice: a key is set
  by who enters (`SetterHolds`), whoever is inside goes on to the deletion
  (`HolderGoesOn`), and what a deletion by name takes away needs no holder.
* **`MoneyCorrect`**: `Spec => [](SettledWasCaptured /\ PaidOrderWasCaptured /\
  CaptureRecorded)`, for captures of any integer amount. Statuses are written long after the bank call and by id, so
  `MoneyInv` says what a request knows at its place (`JobMoney`): a payment about
  to be recorded as captured has been accepted by the bank, one being refunded has
  been captured, and nobody else works on a payment that is not inserted yet. That
  faults lose at most one payment each (`CaptureRecorded`) is a count: `Unrecorded`
  grows by one payment in a step that is a fault (`UnrecordedCounted`), and in no
  other.
  `NoMoney` is what all the other steps may do to the rows.
* **`LedgerCorrect`**: `Spec => []LedgerBalanced`. `LedgerInv` adds that the refund a
  request works on is its own, fits the amount and is undecided (`RefundHeld`),
  and that a payment has finitely many processed refunds, whatever the set of ids
  (`Balanced`).
* **`LedgerImplemented`**: `Spec => RefinesLedger`. From all the invariants above,
  every step maps to a claim, a capture, a decision or a stutter of `RefundLedger`
  (`LedgerSimulates`).

`FiniteSums` proves what these need of sums: nothing adds up to 0 (`SumOfNothing`),
numbers to a number (`SumIsNatural`), any element can be split off (`SumSplits`),
only the values in the set matter (`SumDependsOn`), and a bound of the values times
the size bounds the sum (`SumIsBounded`); and of what faults have lost, that a step
that adds at most one element to a set makes it larger by at most one (`GrowsByOne`). The induction theorems of the library take
an operator as a parameter, which no installed prover instantiates; the proofs go
by a smallest counterexample instead, from well-foundedness of `<` (`Least`,
`Smallest`). Lemmas such as `AmountsSum`, `PricesSum` and `OutSum` equate a module's
`MapThenSumSet` with `SumOver`.

`SettlementProofs` proves, for any merchants, payments, prices, settlements, runs
at once and fee rate, from `SettlementAssumption`:

* **`PaidOncePerFailureCorrect`**: `OneRetrier` implies `Spec => []PaidOncePerFailure`.
  `OneRetrier` says that there is one administrator: two who have both loaded a
  failed settlement both send it to the bank, which is why the property is stated for
  one. `PaidOK` counts what is still to come: the payouts there were, plus one
  if a run is about to pay, plus one if the settlement is to be retried, stay within
  one plus the failures set by hand; and no two runs pay one settlement
  (`OnePayer`).
* **`SettledOnceCorrect`**: `Spec => []SettledOnce`. `KnowsDue` says that what an
  undisturbed run has counted is, at every later place, still exactly what is due;
  `HoldsOwn` that its settlement is made of that, disturbed or not; `CleanlyMarked`
  that what was marked is settled, so that it is never due again.
* **`MarkedIsPaidCorrect`**: `Spec => MarkedIsPaid`, from the same invariant: the
  payments marked are those of the two sums, and net plus fee is what the sums gave.

The payments that are not merely authorized are finitely many in every state
(`FinitelyCaptured`, part of the type invariant), so the set of ids need not be.

`PayoutsProofs` proves, for any requests, workers, payouts and amounts within the
limit, from `PayoutAssumption`:

* **`PaidOncePerDeliveryCorrect`**: `Spec => []PaidOncePerDelivery`. `DeliveryInv`:
  the messages for a payout, the processes that hold it (`Holders`) and the times
  it was paid are together at most one more than its redeliveries. A worker that
  takes a message, a task that is killed and a bulk row each move a unit from one
  count to the next or drop it.
* **`OvershootBoundedCorrect`**: `Spec => []OvershootBounded`, if there are amounts at all
  (`Amounts # {}`: without one the bound has no meaning). The bound is not inductive: a
  request that has passed the check is not yet in the sum. `OvershootInv` bounds what is
  spent plus what is claimed by those about to insert: a check adds its claim when
  the others' claims are at most one largest amount each (`ClaimsBounded`), an
  insertion moves a claim to what is spent, midnight forgets what was spent. `Steps`
  sorts all actions into ten kinds for both proofs.

* **`StrandedByFaultCorrect`**: `Spec => []StrandedByFault`. Every step but a fault leaves
  the stranded payouts as they are or fewer, a fault adds the one its process held.

`WebhooksProofs` proves, for any endpoints, events, deliveries at once and limit on
attempts, from `WebhookAssumption`:

* **`AttemptsWerePostsCorrect`**, **`DeadLetterEarnedCorrect`**: `Spec => []AttemptsWerePosts`
  and `Spec => []DeadLetterEarned`. An outcome is written from a number read before the
  post, so `Inv` says of every number that is held, in a query's rows, by a delivery
  about to post and by one about to store, that it is backed by posts (`Backed`).
* **`RetriesWithinMaxCorrect`**: `Spec => RetriesWithinMax`. A failed event that has a
  retry time has attempts left (`EventInv`), therefore so has what a retry run has
  loaded, however old it is (`Within`). A forced retry clears the retry time, which is
  what keeps the first of these inductive.
* **`PendingHasOwnerCorrect`**: `Spec => []PendingHasOwner`, from the effects of each
  action (`CreateEffect` to `MoveEffect`): only a creation makes an event pending, and
  the creator leaves it only by storing an outcome, which is never `pending`.

`CollectionsProofs` proves of `VirtualAccounts`, for any accounts, requests, amounts and
expectations, from `AccountAssumption`:

* **`BalanceSafe`**: `Spec => [](NeverOvercounts /\ ClosedWhenFull)`. Neither is
  inductive: what a commit writes was computed earlier. `Inv` says of a request
  in the meantime that what it loaded is backed by credits (`LoadsBacked`), that
  its uncommitted row is, up to its own amount, and carries the committed status
  unless it is full (`UpdatesBacked`), and that two transactions never hold one
  row (`RowsHeldOnce`), which is the row lock.
* **`ClosedForGood`**: `Spec => ClosedStaysClosed`, from the same invariant.
* **`ImplementsLedger`**: `Spec => FreshIsLedger`: initial states map to the
  ledger's, every step to one of its steps, a stutter, or a stale commit.

and of `PaymentLinks`, for any links, any `MaxUses` and any number of payments at
once, from `LinkAssumption` (what both proofs call `LoadsBacked` and so on is
`LinkLoadsBacked` here, `Inv` is `LinkInv`):

* **`PaidLinksUsed`**: `LinkSpec => []PaidWasUsed`. What a commit writes was computed
  from a count loaded before the transaction, so `Inv` says of the meantime that
  a loaded count is not ahead of the orders (`LoadsBacked`), that an uncommitted
  row is ahead by at most the order it inserts and is closed exactly if it or the
  committed row is (`UpdatesBacked`), that the row lock is exclusive
  (`RowsHeldOnce`), and that an active link has uses left (`ActiveHasUses`).
* **`UnusableForGood`**: `LinkSpec => UnusableStaysUnusable`. By `ActiveHasUses` a link
  that is active and unusable has expired, and nothing takes that back; any other
  is closed, and by `UpdatesBacked` no commit reopens it although it may write a
  lower count.

`MerchantsProofs` proves of `Accounts`, for any addresses, clients, workers and any
bounds, from `AccountAssumption` (with `MaxKeys > 0`: a merchant may have a key):

* **`AccountIsWholeCorrect`**: `Spec => []AccountIsWhole`. A client is told of its account
  three INSERTs and a message after the first of them, so `Placed` says of a registration at each
  place which rows are there and that they are its own. It stays true because no row
  is ever deleted and none changes its client (`Rows`, `RowsAreKept`), and because the
  INSERT of a row somebody else has made ends the request (`CreateUserPlaced`,
  `CreateMerchantPlaced`).
* **`ActiveUserHasMerchantCorrect`**: `Spec => []ActiveUserHasMerchant`, faults or not.
  `Invited` follows the way to an active user: a verification mail, the retries of
  its task included, a link, a click. Each of them is there for complete accounts only, and
  complete accounts stay complete (`CompleteStays`).
* **`HalfAccountOnlyByFaultCorrect`**: `Spec => []HalfAccountOnlyByFault`. Without a fault a
  registration between two INSERTs moves only by the second of them (`GoesOn`), or finds
  the row there already.
* **`LateKeysBoundedCorrect`**: `Spec => []LateKeysBounded`. What is inductive is that the late
  keys and the requests that are past their authentication (`Inside`) are together at
  most the workers: a key is made by a request that leaves `Inside`, after a suspension
  nobody enters, and lifting it starts the count anew.

* **`MailNotLostCorrect`**: `Spec => []MailNotLost`. `MailInv` says that no mail has been
  retried more often than the mail server has failed, so that none is given up within
  `MaxRetries` failures, and that the accounts without their mail (`Unmailed`) are
  finitely many, whatever the set of addresses. Until then an account joins them only
  when the broker is down or a worker is killed (`UnmailedByFault`), one at a time.

and of `Onboarding`, for any documents, accounts and number of requests,
from `OnboardingAssumption`:

* **`LiveOnlyApproved`**: `KycSpec => []LiveWasApproved`. The activation and the key
  are statements long after the test, so `KycInv` adds what a request has tested at
  each place (`TestedFirst`): whoever is about to verify, activate or make a key
  follows an approval.
* **`TransitionsDocumented`**: `KycSpec => FreshKycTransitions`, from `TestedFirst`:
  the status a request tested allows what it writes, if it is still the
  merchant's. No run checks this one; `OnboardingTransitions.cfg` shows that
  without the condition it fails.

`GuardsProofs` proves of `Fraud`, for any cards, addresses, limits, windows and
evaluations at once, from `FraudAssumption`:

* **`StandingReasonBlocksCorrect`**: `Spec => []StandingReasonBlocks`. The rules are checked one
  command after the other while others count, block and expire. `Standing` says that
  the reasons an evaluation still has hold in Redis at this moment, `Caught` that a check that is past
  has triggered its rule if its reason stood all along: after `SISMEMBER` the
  blacklist's, after `EXISTS` the block is no longer among the reasons, after `GET`
  all of them. No step of anybody adds a reason to `why` (`OthersRight`), and a rule that triggered
  is never taken back, so the score reaches the threshold of a block
  (`ScoreValues`).
* **`CountersWillExpireCorrect`**: `Spec => []CountersWillExpire`. Only an INCR that finds no key
  makes a counter without a TTL (`CounterSteps`), and the request that sent it is then at the
  EXPIRE, which only a fault keeps it from (`CardsExpiryKept`, `IpsExpiryKept`).
* **`SignalsKeepVerdictCorrect`**: `Spec => []SignalsKeepVerdict`. `StrictestFirst` says that the
  first signal that is written is of a rule that blocks, unless the only rule that triggered is
  the address's; `Severities` gives the maximum of both kinds of sets.

and of `Requests`, for any calls, merchants, limit, handlers and orders, from
`RequestAssumption` (the calls have the parts a call has; `Null` is no order and no
key):

* **`CounterWillExpireCorrect`**: `RequestSpec => []CounterWillExpire`, as for `Fraud`
  (`WillExpire`).
* **`SameKeySameOrderCorrect`**: `RequestSpec => []SameKeySameOrder`. `UniqueKeys` is the unique
  column, over all merchants; `AllServed` says that what is about to be stored, is cached
  or was answered for a call is an order under that call's key (`Serves`). That a
  cached answer serves a call with the same header is where the assumption comes
  in that a client repeats the body with the header.
* **`DoubleProcessingCorrect`**: `RequestSpec => []DoubleProcessingBounded`. The bound alone is not
  inductive. `PlacedOnce` adds the requests that have missed the cache and may still insert, and
  says that, until the answer is cached, each order that was made is held
  by a request about to store it (`Storing`): they are as many as the orders, which closes
  the count for a request that looks into the cache now (`HeldByDistinct`).

Each proof of a step (`StepTyped`, `RefundStep`, `LockStep`) has one case per
action of the next-state relation, or per kind of action where a lemma `Steps` sorts
them; `CollectionsProofs` has a lemma per action (`LoadStep`, `UpdateStep`, `CommitStep`
and so on) that `Step` puts together.

Every inductive invariant was checked with TLC on an instance of its module before
it was proved. Assumptions on constants are the modules' own, which TLC evaluates in
every run; the two theorems with a hypothesis more name it.

Only model-checked: liveness under fairness (`LockComesFree`, `RefundDecided`,
`ApprovedGoesLive`, `BlockIsTemporary`), which is outside what TLAPS proves here, and the counterexamples of section 6, which are
TLC's. The operators that no theorem is about (`Gateways` but for the statuses) are
checked only through the runs that use them.

## 8. Not modelled

* `poll_payment_status` has no caller and raises at its `select_for_update`
  outside a transaction. `retry_capture` in the payment admin always raises and
  swallows the exception. Neither changes state.
* Edits in Django admin's change forms, except a settlement set to failed, a KYC
  set under review, a document's status and an API key switched on or off; an
  administrator can write any value.
* Amounts that are not integers. For a capture, a string raises `TypeError` in the
  gateway's comparison, inside the lock, which is `CaptureRaises` at the capture;
  integers of any sign are modelled. For a refund, a payout and a payment link,
  amounts of zero and below are refused before anything changes. For a credit of a
  virtual account they reach the INSERT of an order whose amount is a
  `PositiveIntegerField`, which MySQL refuses under `STRICT_TRANS_TABLES`
  (settings.py:99): the transaction is rolled back.
* `deliver_webhook`, the retrying Celery task: only `dispatch_webhook_event` queues
  it, which raises `TypeError` first (`WebhooksTask.cfg`).
* Requests without an API key in `Requests`: neither layer scopes them by merchant
  and the view refuses them. Redis failing in the payment lock raises before or
  after the command and is `Crash` there.
* Of the fraud engine: `FraudRule` rows (activity, threshold and score are read
  nowhere) and the review of a signal in the admin, which changes that signal's
  status and nothing else, whatever "allow payment" and "block payment" say there.
* Of accounts: passwords, JWTs and hashes of keys. Who presents them is their owner.
* The payment confirmation mail, dashboards but for their login and landing page,
  metrics, validators but for the BIN tables, templates, load tests: no state of
  their own that the properties could be about. The admin
  panel can also set a merchant's fee rate; `Settlement` takes the rate as a
  constant.
* Of the Razorpay client: `capture`, `refund` and `check_status`, which nothing calls.
