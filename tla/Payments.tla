------------------------------ MODULE Payments ------------------------------
(***************************************************************************)
(* The payment core of PayZap: orders, payments, refunds, the Redis        *)
(* payment lock and the requests that work on them.                        *)
(*                                                                         *)
(* Several gunicorn workers serve requests at the same time.  A view loads *)
(* a row outside any transaction, checks its status in memory and hands it *)
(* to a service; every ORM statement outside transaction.atomic commits by *)
(* itself.  One action is therefore one committed statement, one           *)
(* transaction, one Redis command or one bank call, and what a request     *)
(* learned when it loaded its row is only remembered as the place (at) it  *)
(* has reached: by the next step the row may be something else.            *)
(***************************************************************************)
EXTENDS Integers, FiniteSets, FiniteSetsExt, Gateways

CONSTANTS
  Workers,       \* gunicorn threads; each serves one request at a time
  Orders,        \* order ids
  PaymentIds,    \* payment ids: uuid4, so fresh ones never collide
  RefundIds,     \* refund ids
  Price,         \* Price[o]: the amount of order o, in paise
  Channels,      \* the payment channels requests may use, see AllChannels
  LeaseOverrun,  \* TRUE: a step inside the lock may outlast LOCK_TTL
  Amounts,       \* the amounts clients ask for, in paise, as they send them
  MaxFaults,     \* bound: worker crashes and failed capture calls
  MaxCallbacks,  \* bound: netbanking callbacks (no URL routes to them yet)
  None           \* absent reference

(* The entry points PaymentCreateView dispatches to. *)
AllChannels == {"service", "card", "collect", "intent", "netbanking", "wallet"}

(* Order amounts are positive (serializers.py validate_amount). *)
ASSUME PriceAssumption == Price \in [Orders -> Nat \ {0}]
(* Nobody validates the amount of a capture: it may be zero or below. *)
ASSUME AmountAssumption == Amounts \subseteq Int
ASSUME ChannelAssumption == Channels \subseteq AllChannels
ASSUME NoneAssumption == None \notin Orders \cup PaymentIds \cup RefundIds \cup Channels
ASSUME BoundAssumption ==
  /\ LeaseOverrun \in BOOLEAN
  /\ MaxFaults \in Nat
  /\ MaxCallbacks \in Nat

VARIABLES
  orders,     \* Order rows: status, and whether expires_at has passed
  payments,   \* Payment rows; captured: captured_at is set; redirect: netbanking_url is set
  refunds,    \* Refund rows
  locks,      \* the payments whose key payment_lock:<id> is in Redis
  jobs,       \* what each worker is doing
  bank,       \* what the bank has captured of each payment: in how many calls, and how much
  faults,     \* processes that were killed, capture calls that raised
  callbacks

vars == <<orders, payments, refunds, locks, jobs, bank, faults, callbacks>>

-----------------------------------------------------------------------------
(* Types *)

OrderStatus == {"none", "created", "attempted", "paid", "failed", "expired"}
PaymentStatus == {"none", "created", "processing", "authorized", "captured",
                  "failed", "refunded", "partially_refunded"}
RefundStatus == {"none", "initiated", "processing", "processed", "failed"}

CreatePlaces == {"create", "mark", "redirect", "lock", "authorize"}
CapturePlaces == {"capture_lock", "capture", "record_captured", "record_failed"}
RefundPlaces == {"refund_create", "refund_process"}
Places == {"idle", "unlock"} \cup CreatePlaces \cup CapturePlaces \cup RefundPlaces

Order == [status: OrderStatus, overdue: BOOLEAN]
Payment == [status: PaymentStatus, order: Orders \cup {None}, refunded: Nat,
            captured: BOOLEAN, redirect: BOOLEAN]
Refund == [status: RefundStatus, payment: PaymentIds \cup {None}, amount: Nat]
Job == [at: Places, channel: Channels \cup {None}, order: Orders \cup {None},
        payment: PaymentIds \cup {None}, refund: RefundIds \cup {None}, amount: Int]
Captured == [calls: Nat, total: Int]

NoPayment == [status |-> "none", order |-> None, refunded |-> 0,
              captured |-> FALSE, redirect |-> FALSE]
NoRefund == [status |-> "none", payment |-> None, amount |-> 0]
IdleJob == [at |-> "idle", channel |-> None, order |-> None,
            payment |-> None, refund |-> None, amount |-> 0]
NoCapture == [calls |-> 0, total |-> 0]
NoFaults == [killed |-> 0, raised |-> 0]

TypeOK ==
  /\ orders \in [Orders -> Order]
  /\ payments \in [PaymentIds -> Payment]
  /\ refunds \in [RefundIds -> Refund]
  /\ locks \subseteq PaymentIds
  /\ jobs \in [Workers -> Job]
  /\ bank \in [PaymentIds -> Captured]
  /\ faults \in [killed: 0..MaxFaults, raised: 0..MaxFaults]
  /\ callbacks \in 0..MaxCallbacks

Init ==
  /\ orders = [o \in Orders |-> [status |-> "none", overdue |-> FALSE]]
  /\ payments = [p \in PaymentIds |-> NoPayment]
  /\ refunds = [r \in RefundIds |-> NoRefund]
  /\ locks = {}
  /\ jobs = [w \in Workers |-> IdleJob]
  /\ bank = [p \in PaymentIds |-> NoCapture]
  /\ faults = NoFaults
  /\ callbacks = 0

-----------------------------------------------------------------------------
(* Helpers *)

Exists(p) == payments[p].status # "none"
Amount(p) == Price[payments[p].order]
Refundable(p) == Amount(p) - payments[p].refunded

FreshPayments == {p \in PaymentIds : ~Exists(p) /\ \A w \in Workers : jobs[w].payment # p}
FreshRefunds == {r \in RefundIds : /\ refunds[r].status = "none"
                                   /\ \A w \in Workers : jobs[w].refund # r}

Goto(w, place) == jobs' = [jobs EXCEPT ![w].at = place]
Answer(w) == jobs' = [jobs EXCEPT ![w] = IdleJob]
MayFail == faults.killed + faults.raised < MaxFaults
SetStatus(p, s) == payments' = [payments EXCEPT ![p].status = s]
SetOrder(o, s) == orders' = [orders EXCEPT ![o].status = s]

(* The worker holds, or believes it holds, the lock of payment p. *)
Inside(w, p) ==
  /\ jobs[w].payment = p
  /\ \/ jobs[w].at \in {"capture", "record_captured", "record_failed", "unlock"}
     \/ jobs[w].at = "authorize" /\ jobs[w].channel = "service"

-----------------------------------------------------------------------------
(* Orders *)

(* OrderCreateView: the INSERT of an order, due in 30 minutes. *)
CreateOrder(o) ==
  /\ orders[o].status = "none"
  /\ SetOrder(o, "created")
  /\ UNCHANGED <<payments, refunds, locks, jobs, bank, faults, callbacks>>

(* The clock passes the order's expires_at. *)
ExpiryPasses(o) ==
  /\ orders[o].status # "none"
  /\ ~orders[o].overdue
  /\ orders' = [orders EXCEPT ![o].overdue = TRUE]
  /\ UNCHANGED <<payments, refunds, locks, jobs, bank, faults, callbacks>>

Stale(o) == orders[o].status \in {"created", "attempted"} /\ orders[o].overdue

(* expire_stale_orders: one UPDATE over every stale order. *)
ExpireStaleOrders ==
  /\ \E o \in Orders : Stale(o)
  /\ orders' = [o \in Orders |-> IF Stale(o) THEN [orders[o] EXCEPT !.status = "expired"]
                                             ELSE orders[o]]
  /\ UNCHANGED <<payments, refunds, locks, jobs, bank, faults, callbacks>>

-----------------------------------------------------------------------------
(* Creating a payment *)

(* The view loads the order and rejects one that is not payable; the service *)
(* checks the same in-memory status again.                                   *)
Payable(o) == orders[o].status \in {"created", "attempted"}

LoadOrder(w, o, c, p) ==
  /\ jobs[w].at = "idle"
  /\ Payable(o)
  /\ p \in FreshPayments
  /\ jobs' = [jobs EXCEPT ![w] = [IdleJob EXCEPT !.at = "create", !.channel = c,
                                                 !.order = o, !.payment = p]]
  /\ UNCHANGED <<orders, payments, refunds, locks, bank, faults, callbacks>>

(* The service refuses the customer's data: the payment is inserted as failed. *)
RejectPayment(w) ==
  /\ jobs[w].at = "create"
  /\ payments' = [payments EXCEPT ![jobs[w].payment] =
                    [NoPayment EXCEPT !.status = "failed", !.order = jobs[w].order]]
  /\ Answer(w)
  /\ UNCHANGED <<orders, refunds, locks, bank, faults, callbacks>>

(* PaymentService and CardPaymentService leave the model's default status. *)
InitialStatus(c) == IF c \in {"service", "card"} THEN "created" ELSE "processing"

InsertPayment(w) ==
  /\ jobs[w].at = "create"
  /\ payments' = [payments EXCEPT ![jobs[w].payment] =
                    [NoPayment EXCEPT !.status = InitialStatus(jobs[w].channel),
                                      !.order = jobs[w].order]]
  /\ Goto(w, "mark")
  /\ UNCHANGED <<orders, refunds, locks, bank, faults, callbacks>>

(* Order.objects.filter(id=order.id).update(status='attempted'): by id alone, *)
(* whatever the order has become.  UPI intent ends here; net banking stores   *)
(* the signed redirect URL next.                                              *)
MarkAttempted(w) ==
  /\ jobs[w].at = "mark"
  /\ SetOrder(jobs[w].order, "attempted")
  /\ CASE jobs[w].channel = "service"    -> Goto(w, "lock")
       [] jobs[w].channel = "intent"     -> Answer(w)
       [] jobs[w].channel = "netbanking" -> Goto(w, "redirect")
       [] OTHER                          -> Goto(w, "authorize")
  /\ UNCHANGED <<payments, refunds, locks, bank, faults, callbacks>>

(* Mutant: cache.set instead of cache.add. *)
LockFreeIgnored(p) == TRUE

(* cache.add: sets the key only if it is absent. *)
LockFree(p) == p \notin locks

(* process_payment takes the lock, or fails the payment with LOCK_FAILED. *)
LockNewPayment(w) ==
  LET p == jobs[w].payment IN
  /\ jobs[w].at = "lock"
  /\ \/ /\ LockFree(p)
        /\ locks' = locks \cup {p}
        /\ Goto(w, "authorize")
        /\ UNCHANGED payments
     \/ /\ ~LockFree(p)
        /\ SetStatus(p, "failed")
        /\ Answer(w)
        /\ UNCHANGED locks
  /\ UNCHANGED <<orders, refunds, bank, faults, callbacks>>

(* The gateway answers and the payment row is overwritten with its outcome. *)
Authorize(w, s) ==
  /\ jobs[w].at = "authorize"
  /\ SetStatus(jobs[w].payment, s)
  /\ IF jobs[w].channel = "service" THEN Goto(w, "unlock") ELSE Answer(w)
  /\ UNCHANGED <<orders, refunds, locks, bank, faults, callbacks>>

(* Net banking instead stores the redirect URL and waits for the bank. *)
StoreRedirect(w) ==
  /\ jobs[w].at = "redirect"
  /\ payments' = [payments EXCEPT ![jobs[w].payment].redirect = TRUE]
  /\ Answer(w)
  /\ UNCHANGED <<orders, refunds, locks, bank, faults, callbacks>>

(* NetBankingService.handle_callback: a correct signature exists once the *)
(* redirect URL does; the status is overwritten whatever it was.          *)
NetbankingCallback(p, s) ==
  /\ callbacks < MaxCallbacks
  /\ payments[p].redirect
  /\ s \in {"authorized", "failed"}
  /\ SetStatus(p, s)
  /\ callbacks' = callbacks + 1
  /\ UNCHANGED <<orders, refunds, locks, jobs, bank, faults>>

(* finally: cache.delete(lock_key) -- the key carries no owner. *)
DropLock(p) == locks' = locks \ {p}

ReleaseLock(w) ==
  /\ jobs[w].at = "unlock"
  /\ DropLock(jobs[w].payment)
  /\ Answer(w)
  /\ UNCHANGED <<orders, payments, refunds, bank, faults, callbacks>>

(* The six channels, each a service method made of these statements. *)

(* PaymentService: the only one that takes the lock.  An exception of the *)
(* gateway ends in _fail_payment.                                         *)
ProcessPayment(w) ==
  /\ jobs[w].channel = "service"
  /\ \/ InsertPayment(w)
     \/ MarkAttempted(w)
     \/ LockNewPayment(w)
     \/ \E card \in Cards : \E s \in ServiceRows(card) : Authorize(w, s)
     \/ Authorize(w, "failed")

(* A card of a sanctioned BIN is rejected, any other goes to the gateway of *)
(* its network.                                                             *)
ProcessCardPayment(w) ==
  /\ jobs[w].channel = "card"
  /\ \/ RejectPayment(w)
     \/ InsertPayment(w)
     \/ MarkAttempted(w)
     \/ \E card \in {c \in Cards : ~IsSanctioned(c)} : \E s \in CardRows(card) : Authorize(w, s)

(* A malformed VPA is rejected; the mock gateway authorizes every collect. *)
ProcessUpiCollect(w) ==
  /\ jobs[w].channel = "collect"
  /\ \/ RejectPayment(w)
     \/ InsertPayment(w)
     \/ MarkAttempted(w)
     \/ \E s \in UpiRows : Authorize(w, s)

(* The payment stays in processing: nobody is called. *)
ProcessUpiIntent(w) ==
  /\ jobs[w].channel = "intent"
  /\ InsertPayment(w) \/ MarkAttempted(w)

(* An unknown bank is rejected; the outcome comes with the callback. *)
ProcessNetbanking(w) ==
  /\ jobs[w].channel = "netbanking"
  /\ RejectPayment(w) \/ InsertPayment(w) \/ MarkAttempted(w) \/ StoreRedirect(w)

(* An unsupported wallet or too low an amount is rejected. *)
ProcessWalletPayment(w) ==
  /\ jobs[w].channel = "wallet"
  /\ \/ RejectPayment(w)
     \/ InsertPayment(w)
     \/ MarkAttempted(w)
     \/ \E wallet \in Wallets : Authorize(w, WalletRow(wallet))

-----------------------------------------------------------------------------
(* Capturing *)

Capturable(p) == payments[p].status = "authorized"

(* PaymentCaptureView loads the payment, capture_payment checks the loaded *)
(* status; an amount of 0 or none stands for the full amount, any other is *)
(* passed on unlooked at.                                                  *)
LoadForCapture(w, p, a) ==
  /\ jobs[w].at = "idle"
  /\ Capturable(p)
  /\ jobs' = [jobs EXCEPT ![w] = [IdleJob EXCEPT !.at = "capture_lock", !.payment = p,
                                                 !.amount = IF a = 0 THEN Amount(p) ELSE a]]
  /\ UNCHANGED <<orders, payments, refunds, locks, bank, faults, callbacks>>

(* The second of two concurrent captures is turned away with an error. *)
LockForCapture(w) ==
  LET p == jobs[w].payment IN
  /\ jobs[w].at = "capture_lock"
  /\ \/ LockFree(p) /\ locks' = locks \cup {p} /\ Goto(w, "capture")
     \/ ~LockFree(p) /\ Answer(w) /\ UNCHANGED locks
  /\ UNCHANGED <<orders, payments, refunds, bank, faults, callbacks>>

(* MockBankGateway.capture looks at the status the request loaded, which was *)
(* authorized, and refuses more than the payment's amount, but not less than *)
(* nothing: views and services pass a negative amount on as they got it.     *)
BankAccepts(p, a) == MockCaptures("authorized", a, Amount(p))

GatewayCapture(w) ==
  LET p == jobs[w].payment  a == jobs[w].amount IN
  /\ jobs[w].at = "capture"
  /\ \/ /\ BankAccepts(p, a)
        /\ bank' = [bank EXCEPT ![p] = [calls |-> @.calls + 1, total |-> @.total + a]]
        /\ Goto(w, "record_captured")
     \/ /\ ~BankAccepts(p, a)
        /\ Goto(w, "record_failed")
        /\ UNCHANGED bank
  /\ UNCHANGED <<orders, payments, refunds, locks, faults, callbacks>>

(* Mutant: captured_at is forgotten. *)
StampCapturedForgets(p) == payments' = [payments EXCEPT ![p].status = "captured"]
StampCaptured(p) ==
  payments' = [payments EXCEPT ![p].status = "captured", ![p].captured = TRUE]

(* The transaction after the call: the row is locked but its status is not  *)
(* looked at again; the captured amount itself is stored nowhere.            *)
RecordCaptured(w) ==
  LET p == jobs[w].payment IN
  /\ jobs[w].at = "record_captured"
  /\ StampCaptured(p)
  /\ SetOrder(payments[p].order, "paid")
  /\ Goto(w, "unlock")
  /\ UNCHANGED <<refunds, locks, bank, faults, callbacks>>

(* Mutant: the order's UPDATE stands outside "if result.success". *)
RecordFailedPaysOrder(w) ==
  /\ jobs[w].at = "record_failed"
  /\ SetStatus(jobs[w].payment, "failed")
  /\ SetOrder(payments[jobs[w].payment].order, "paid")
  /\ Goto(w, "unlock")
  /\ UNCHANGED <<refunds, locks, bank, faults, callbacks>>

RecordFailed(w) ==
  /\ jobs[w].at = "record_failed"
  /\ SetStatus(jobs[w].payment, "failed")
  /\ Goto(w, "unlock")
  /\ UNCHANGED <<orders, refunds, locks, bank, faults, callbacks>>

(* Mutant: without the finally clause. *)
CaptureRaisesKeepsKey(w) ==
  /\ jobs[w].at \in {"capture", "record_captured", "record_failed"}
  /\ MayFail
  /\ faults' = [faults EXCEPT !.raised = @ + 1]
  /\ Answer(w)
  /\ UNCHANGED <<orders, payments, refunds, locks, bank, callbacks>>

(* A capture call or its transaction raises (an amount that is a string does *)
(* it, too): the finally clause still runs.                                  *)
CaptureRaises(w) ==
  /\ jobs[w].at \in {"capture", "record_captured", "record_failed"}
  /\ MayFail
  /\ faults' = [faults EXCEPT !.raised = @ + 1]
  /\ Goto(w, "unlock")
  /\ UNCHANGED <<orders, payments, refunds, locks, bank, callbacks>>

-----------------------------------------------------------------------------
(* Refunding *)

(* Mutant: the statuses the docstring of RefundService names. *)
RefundableDocumented(p) ==
  payments[p].status \in {"captured", "authorized", "partially_refunded"}

(* RefundCreateView loads the payment, initiate_refund validates the loaded *)
(* status and amount.                                                       *)
RefundableStatus(p) == payments[p].status \in {"captured", "partially_refunded"}

LoadForRefund(w, p, a, r) ==
  /\ jobs[w].at = "idle"
  /\ RefundableStatus(p)
  /\ a > 0 /\ a <= Refundable(p)
  /\ r \in FreshRefunds
  /\ jobs' = [jobs EXCEPT ![w] = [IdleJob EXCEPT !.at = "refund_create", !.payment = p,
                                                 !.amount = a, !.refund = r]]
  /\ UNCHANGED <<orders, payments, refunds, locks, bank, faults, callbacks>>

InsertRefund(w) ==
  /\ jobs[w].at = "refund_create"
  /\ refunds' = [refunds EXCEPT ![jobs[w].refund] =
                   [status |-> "initiated", payment |-> jobs[w].payment,
                    amount |-> jobs[w].amount]]
  /\ Goto(w, "refund_process")
  /\ UNCHANGED <<orders, payments, locks, bank, faults, callbacks>>

(* Mutants: no re-validation under the row lock, and one that is off by one. *)
StillFitsUnchecked(p, a) == TRUE
StillFitsStrictly(p, a) == a < Refundable(p)

(* The re-validation under the row lock looks at the amount only. *)
StillFits(p, a) == a <= Refundable(p)

(* Mutant: the new refund overwrites the total. *)
TotalOverwritten(p, a) == a
TotalAfter(p, a) == payments[p].refunded + a

(* Mutant: > for >=. *)
StatusStrict(p, total) == IF total > Amount(p) THEN "refunded" ELSE "partially_refunded"
StatusAfter(p, total) == IF total >= Amount(p) THEN "refunded" ELSE "partially_refunded"

(* Mutant: returns without marking the refund failed. *)
RefuseSilently(r) == UNCHANGED refunds
RefuseRefund(r) == refunds' = [refunds EXCEPT ![r].status = "failed"]

(* _process_refund: one transaction under SELECT ... FOR UPDATE.  Its *)
(* intermediate status 'processing' is never committed by itself.     *)
ProcessRefund(w) ==
  LET p == jobs[w].payment  r == jobs[w].refund  a == jobs[w].amount IN
  /\ jobs[w].at = "refund_process"
  /\ \/ /\ StillFits(p, a)
        /\ payments' = [payments EXCEPT ![p].refunded = TotalAfter(p, a),
                                        ![p].status = StatusAfter(p, TotalAfter(p, a))]
        /\ refunds' = [refunds EXCEPT ![r].status = "processed"]
     \/ /\ ~StillFits(p, a)
        /\ RefuseRefund(r)
        /\ UNCHANGED payments
  /\ Answer(w)
  /\ UNCHANGED <<orders, locks, bank, faults, callbacks>>

-----------------------------------------------------------------------------
(* The administrator, the clock and faults *)

(* PaymentAdmin.mark_as_failed: one UPDATE over the selected payments that *)
(* are still created or processing.                                        *)
MarkAsFailed(S) ==
  LET open == {p \in S : payments[p].status \in {"created", "processing"}} IN
  /\ open # {}
  /\ payments' = [p \in PaymentIds |-> IF p \in open THEN [payments[p] EXCEPT !.status = "failed"]
                                                     ELSE payments[p]]
  /\ UNCHANGED <<orders, refunds, locks, jobs, bank, faults, callbacks>>

(* The key's TTL runs out: always for an orphan, and, when a step can take *)
(* longer than LOCK_TTL, for a key somebody still relies on.               *)
Orphan(p) == \A w \in Workers : ~Inside(w, p)

(* Mutant: the key is set without a TTL. *)
LockStays(p) == FALSE

LockExpires(p) ==
  /\ p \in locks
  /\ LeaseOverrun \/ Orphan(p)
  /\ locks' = locks \ {p}
  /\ UNCHANGED <<orders, payments, refunds, jobs, bank, faults, callbacks>>

(* A worker is killed between two steps; open transactions roll back and *)
(* Redis keys stay.                                                      *)
Crash(w) ==
  /\ jobs[w].at # "idle"
  /\ MayFail
  /\ faults' = [faults EXCEPT !.killed = @ + 1]
  /\ Answer(w)
  /\ UNCHANGED <<orders, payments, refunds, locks, bank, callbacks>>

-----------------------------------------------------------------------------
Begin(w) ==
  \/ \E o \in Orders, c \in Channels, p \in PaymentIds : LoadOrder(w, o, c, p)
  \/ \E p \in PaymentIds, a \in Amounts : LoadForCapture(w, p, a)
  \/ \E p \in PaymentIds, a \in Amounts, r \in RefundIds : LoadForRefund(w, p, a, r)

(* The next step of a request that has begun. *)
Continue(w) ==
  \/ ProcessPayment(w)
  \/ ProcessCardPayment(w)
  \/ ProcessUpiCollect(w)
  \/ ProcessUpiIntent(w)
  \/ ProcessNetbanking(w)
  \/ ProcessWalletPayment(w)
  \/ ReleaseLock(w)
  \/ LockForCapture(w)
  \/ GatewayCapture(w)
  \/ RecordCaptured(w)
  \/ RecordFailed(w)
  \/ InsertRefund(w)
  \/ ProcessRefund(w)

(* A server with no request in progress stays as it is: TLC's deadlock check *)
(* then looks for requests that are stuck.                                   *)
Quiescent ==
  /\ \A w \in Workers : jobs[w].at = "idle"
  /\ UNCHANGED vars

Next ==
  \/ \E w \in Workers : Begin(w) \/ Continue(w) \/ CaptureRaises(w) \/ Crash(w)
  \/ \E o \in Orders : CreateOrder(o) \/ ExpiryPasses(o)
  \/ ExpireStaleOrders
  \/ \E S \in SUBSET PaymentIds : MarkAsFailed(S)
  \/ \E p \in PaymentIds : LockExpires(p)
  \/ \E p \in PaymentIds, s \in PaymentStatus : NetbankingCallback(p, s)
  \/ Quiescent

(* A request that has begun is carried on, and Redis drops expired keys.  *)
(* Nobody is obliged to send a request, and Beat never reaches the expiry *)
(* task (see README), so nothing else is fair.                            *)
Fairness ==
  /\ \A w \in Workers : WF_vars(Continue(w))
  /\ \A p \in PaymentIds : WF_vars(LockExpires(p))

Spec == Init /\ [][Next]_vars /\ Fairness

-----------------------------------------------------------------------------
(* Safety *)

(* Refunds of one payment, however many requests race for it and whatever    *)
(* each of them read first, never exceed its amount (RefundService).         *)
RefundWithinAmount ==
  \A p \in PaymentIds : Exists(p) => payments[p].refunded <= Amount(p)

(* amount_refunded is exactly the sum of the payment's processed refunds: no  *)
(* refund is lost or counted twice (_process_refund writes the two rows).     *)
LedgerBalanced ==
  \A p \in PaymentIds :
    payments[p].refunded =
      MapThenSumSet(LAMBDA r : refunds[r].amount,
                    {r \in RefundIds : /\ refunds[r].status = "processed"
                                       /\ refunds[r].payment = p})

(* A payment called refunded has been paid back in full, one called partially *)
(* refunded in part: later captures, callbacks and refunds keep it that way.  *)
RefundStatusExact ==
  \A p \in PaymentIds :
    /\ payments[p].status = "refunded" => payments[p].refunded = Amount(p)
    /\ payments[p].status = "partially_refunded" => payments[p].refunded \in 1..(Amount(p) - 1)

(* An order is paid only if the bank has accepted a capture of a payment of  *)
(* that order, in whatever amount, and the payment says so (capture_payment  *)
(* sets both rows, long after the bank call).                                *)
PaidOrderWasCaptured ==
  \A o \in Orders : orders[o].status = "paid" =>
    \E p \in PaymentIds : payments[p].order = o /\ payments[p].captured /\ bank[p].calls > 0

(* Nothing is refunded, and no payment counts as captured or refunded, unless *)
(* the bank has accepted a capture of it, in whatever amount the client asked *)
(* for, a negative one included (capture_payment, initiate_refund).           *)
SettledWasCaptured ==
  /\ TypeOK
  /\ \A p \in PaymentIds :
       \/ payments[p].status \in {"captured", "refunded", "partially_refunded"}
       \/ payments[p].refunded > 0
       => payments[p].captured /\ bank[p].calls > 0

(* The bank has accepted a capture that no row records and no worker is about *)
(* to record: capture_payment calls the bank outside of its transaction.      *)
Unrecorded ==
  {p \in PaymentIds :
     /\ bank[p].calls > 0
     /\ ~payments[p].captured
     /\ \A w \in Workers : jobs[w].payment = p => jobs[w].at # "record_captured"}

(* Every process that is killed and every exception loses sight of at most   *)
(* one payment the bank has captured, and nothing else ever does: races for   *)
(* the lock, late answers and orphaned keys lose none (capture_payment).      *)
CaptureRecorded == Cardinality(Unrecorded) <= faults.killed + faults.raised

(* While every step inside the lock ends before LOCK_TTL, no two workers are  *)
(* inside for the same payment, crashes and deletes by key alone included.    *)
LockExclusive ==
  ~LeaseOverrun =>
    \A v, w \in Workers, p \in PaymentIds : Inside(v, p) /\ Inside(w, p) => v = w

(* A key that nobody is going to delete is left only by a process that was    *)
(* killed: an exception never leaves one, although requests that outlast the  *)
(* TTL delete each other's keys (the finally clauses of PaymentService).      *)
KeyHasHolder ==
  faults.killed = 0 => \A p \in locks : \E w \in Workers : Inside(w, p)

-----------------------------------------------------------------------------
(* Liveness *)

(* Every key is gone at some later time: its holder deletes it, after an      *)
(* exception too, and the TTL frees the key of a holder that crashed, so that *)
(* the payment can be worked on again (cache.add with LOCK_TTL).              *)
LockComesFree == \A p \in PaymentIds : p \in locks ~> p \notin locks

(* If nobody crashes, every refund that is initiated is decided, also one     *)
(* that lost the race for the rest of the amount (_process_refund).           *)
RefundDecided ==
  \A r \in RefundIds :
    faults = NoFaults /\ refunds[r].status = "initiated"
      ~> faults # NoFaults \/ refunds[r].status \in {"processed", "failed"}

-----------------------------------------------------------------------------
(* What the refund ledger of the payments promises, see RefundLedger. *)
Ledger == INSTANCE RefundLedger WITH
  Sales <- PaymentIds,
  Claims <- RefundIds,
  limit <- [p \in PaymentIds |-> IF payments[p].captured THEN Amount(p) ELSE 0],
  returned <- [p \in PaymentIds |-> payments[p].refunded],
  verdict <- [r \in RefundIds |-> CASE refunds[r].status = "processed" -> "paid"
                                    [] refunds[r].status = "failed" -> "refused"
                                    [] OTHER -> "open"]

(* Every behaviour of the payment core is one of the refund ledger. *)
RefinesLedger == Ledger!Spec

-----------------------------------------------------------------------------
(* What the documentation says and the code does not keep *)

(* "Total refunded amount cannot exceed captured amount" (refund_service.py). *)
RefundWithinCaptured == \A p \in PaymentIds : payments[p].refunded <= bank[p].total

(* "Can only capture authorized payments" (mock_gateway.py). *)
CaptureOnlyAuthorized ==
  [][\A p \in PaymentIds : bank'[p] # bank[p] => payments[p].status = "authorized"]_vars

(* "Expires orders that passed their expiry time without payment" (tasks.py). *)
ExpiredWithoutPayment ==
  \A o \in Orders : orders[o].status = "expired" =>
    \A p \in PaymentIds : payments[p].order = o => ~payments[p].captured

(* A refunded payment is "already in terminal state" (tasks.py). *)
RefundedIsTerminal ==
  [][\A p \in PaymentIds : payments[p].status = "refunded" => payments'[p].status = "refunded"]_vars

=============================================================================
