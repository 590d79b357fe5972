--------------------------- MODULE PaymentsProofs ---------------------------
(***************************************************************************)
(* Theorems about the payment core, for any number of workers, orders,     *)
(* payments and refunds, any prices and any bounds.                        *)
(***************************************************************************)
EXTENDS Payments, FiniteSums

(* What a request carries with it at the place it has reached. *)
JobsOK ==
  \A w \in Workers :
    /\ jobs[w].at \in {"create", "mark"} => jobs[w].order \in Orders
    /\ jobs[w].at # "idle" => jobs[w].payment \in PaymentIds
    /\ jobs[w].at \notin {"idle", "create"} => Exists(jobs[w].payment)
    /\ jobs[w].at \in RefundPlaces => jobs[w].refund \in RefundIds /\ jobs[w].amount > 0

(* A row that exists belongs to an order; one that does not is blank. *)
RowsOK ==
  \A p \in PaymentIds :
    /\ Exists(p) => payments[p].order \in Orders
    /\ ~Exists(p) => payments[p].refunded = 0 /\ ~payments[p].captured /\ ~payments[p].redirect

TypeInv == TypeOK /\ JobsOK /\ RowsOK

-----------------------------------------------------------------------------
(* Whatever gateway a card is routed to and whatever it answers, the row gets *)
(* one of three statuses; only a card payment can stay in processing.         *)
LEMMA GatewayRows ==
  ASSUME NEW card \in Cards
  PROVE  /\ ServiceRows(card) \subseteq {"authorized", "failed"}
         /\ CardRows(card) \subseteq Outcomes
<1> DEFINE Answers == {Success, Failure, Needs3DS}
<1>1. MockAuthorize(card) \subseteq Answers
  BY DEF MockAuthorize
<1>2. \A g \in GatewaysOf(card) : AuthorizeAt(g, card) \subseteq Answers
  BY <1>1 DEF AuthorizeAt, RazorpayAuthorize
<1>3. \A result \in Answers : RowFor(result) \in {"authorized", "failed"}
                               /\ CardRowFor(result) \in Outcomes
  BY DEF Success, Failure, Needs3DS, RowFor, CardRowFor, Outcomes
<1> QED
  BY <1>1, <1>2, <1>3 DEF ServiceRows, CardRows

(* Every channel is made of the same few statements. *)
LEMMA ContinueCases ==
  ASSUME NEW w \in Workers, Continue(w)
  PROVE  \/ RejectPayment(w) \/ InsertPayment(w) \/ MarkAttempted(w) \/ LockNewPayment(w)
         \/ \E s \in Outcomes : Authorize(w, s)
         \/ StoreRedirect(w) \/ ReleaseLock(w) \/ LockForCapture(w) \/ GatewayCapture(w)
         \/ RecordCaptured(w) \/ RecordFailed(w) \/ InsertRefund(w) \/ ProcessRefund(w)
<1>1. \A card \in Cards : ServiceRows(card) \subseteq Outcomes /\ CardRows(card) \subseteq Outcomes
  BY GatewayRows DEF Outcomes
<1>2. UpiRows \subseteq Outcomes /\ "failed" \in Outcomes
      /\ \A wallet \in Wallets : WalletRow(wallet) \in Outcomes
  BY DEF UpiRows, MockAuthorizeUpi, Success, RowFor, WalletRow, Outcomes
<1> QED
  BY <1>1, <1>2 DEF Continue, ProcessPayment, ProcessCardPayment, ProcessUpiCollect, ProcessUpiIntent,
              ProcessNetbanking, ProcessWalletPayment

(* Moving on changes the worker's place and nothing else. *)
LEMMA GotoEffect ==
  ASSUME jobs \in [Workers -> Job], NEW w \in Workers, NEW place \in Places, Goto(w, place)
  PROVE  /\ jobs' \in [Workers -> Job]
         /\ jobs'[w].at = place
         /\ \A v \in Workers : v # w => jobs'[v] = jobs[v]
         /\ \A v \in Workers : /\ jobs'[v].channel = jobs[v].channel
                               /\ jobs'[v].order = jobs[v].order
                               /\ jobs'[v].payment = jobs[v].payment
                               /\ jobs'[v].refund = jobs[v].refund
                               /\ jobs'[v].amount = jobs[v].amount
<1>1. jobs[w] \in Job
  OBVIOUS
<1>2. jobs' = [jobs EXCEPT ![w] = [jobs[w] EXCEPT !.at = place]]
  BY DEF Goto
<1> DEFINE j == [jobs[w] EXCEPT !.at = place]
<1>3. j \in Job /\ j.at = place /\ j.channel = jobs[w].channel /\ j.order = jobs[w].order
      /\ j.payment = jobs[w].payment /\ j.refund = jobs[w].refund /\ j.amount = jobs[w].amount
  BY <1>1 DEF Job
<1> HIDE DEF j
<1>4. jobs' = [jobs EXCEPT ![w] = j]
  BY <1>2 DEF j
<1> QED
  BY <1>3, <1>4

(* Answering a request leaves its worker idle. *)
LEMMA AnswerEffect ==
  ASSUME jobs \in [Workers -> Job], NEW w \in Workers, Answer(w)
  PROVE  /\ jobs' \in [Workers -> Job]
         /\ jobs'[w] = IdleJob
         /\ \A v \in Workers : v # w => jobs'[v] = jobs[v]
<1>1. IdleJob \in Job
  BY DEF IdleJob, Job, Places
<1> QED
  BY <1>1 DEF Answer

(* A status UPDATE changes one row's status and nothing else. *)
LEMMA SetStatusEffect ==
  ASSUME payments \in [PaymentIds -> Payment], NEW p \in PaymentIds,
         NEW s \in PaymentStatus, SetStatus(p, s)
  PROVE  /\ payments' \in [PaymentIds -> Payment]
         /\ payments'[p].status = s
         /\ \A q \in PaymentIds : q # p => payments'[q] = payments[q]
         /\ \A q \in PaymentIds : /\ payments'[q].order = payments[q].order
                                  /\ payments'[q].refunded = payments[q].refunded
                                  /\ payments'[q].captured = payments[q].captured
                                  /\ payments'[q].redirect = payments[q].redirect
<1>1. payments[p] \in Payment
  OBVIOUS
<1> DEFINE row == [payments[p] EXCEPT !.status = s]
<1>2. row \in Payment /\ row.status = s /\ row.order = payments[p].order
      /\ row.refunded = payments[p].refunded /\ row.captured = payments[p].captured
      /\ row.redirect = payments[p].redirect
  BY <1>1 DEF Payment
<1>3. payments' = [payments EXCEPT ![p] = row]
  BY DEF SetStatus
<1> HIDE DEF row
<1> QED
  BY <1>2, <1>3

(* An order's UPDATE changes one row's status and nothing else. *)
LEMMA SetOrderEffect ==
  ASSUME orders \in [Orders -> Order], NEW o, NEW s \in OrderStatus, SetOrder(o, s)
  PROVE  /\ orders' \in [Orders -> Order]
         /\ o \in Orders => orders'[o].status = s
         /\ \A q \in Orders : q # o => orders'[q] = orders[q]
<1>1. CASE o \in Orders
  <2>1. orders[o] \in Order
    BY <1>1
  <2> DEFINE row == [orders[o] EXCEPT !.status = s]
  <2>2. row \in Order /\ row.status = s
    BY <2>1 DEF Order
  <2>3. orders' = [orders EXCEPT ![o] = row]
    BY DEF SetOrder
  <2> HIDE DEF row
  <2> QED
    BY <1>1, <2>2, <2>3
<1>2. CASE o \notin Orders
  <2>1. orders' = orders
    BY <1>2 DEF SetOrder
  <2> QED
    BY <1>2, <2>1
<1> QED
  BY <1>1, <1>2

(* The fields of well-typed rows and jobs. *)
LEMMA FieldTypes ==
  ASSUME TypeOK
  PROVE  /\ \A w \in Workers :
              /\ jobs[w].at \in Places /\ jobs[w].channel \in Channels \cup {None}
              /\ jobs[w].order \in Orders \cup {None} /\ jobs[w].payment \in PaymentIds \cup {None}
              /\ jobs[w].refund \in RefundIds \cup {None} /\ jobs[w].amount \in Int
         /\ \A p \in PaymentIds :
              /\ payments[p].status \in PaymentStatus /\ payments[p].order \in Orders \cup {None}
              /\ payments[p].refunded \in Nat /\ payments[p].captured \in BOOLEAN
              /\ payments[p].redirect \in BOOLEAN
         /\ \A o \in Orders : orders[o].status \in OrderStatus /\ orders[o].overdue \in BOOLEAN
         /\ \A r \in RefundIds :
              /\ refunds[r].status \in RefundStatus /\ refunds[r].payment \in PaymentIds \cup {None}
              /\ refunds[r].amount \in Nat
<1>1. \A w \in Workers : jobs[w] \in Job
  BY DEF TypeOK
<1>2. \A p \in PaymentIds : payments[p] \in Payment
  BY DEF TypeOK
<1>3. \A o \in Orders : orders[o] \in Order
  BY DEF TypeOK
<1>4. \A r \in RefundIds : refunds[r] \in Refund
  BY DEF TypeOK
<1>5. \A w \in Workers :
        /\ jobs[w].at \in Places /\ jobs[w].channel \in Channels \cup {None}
        /\ jobs[w].order \in Orders \cup {None} /\ jobs[w].payment \in PaymentIds \cup {None}
        /\ jobs[w].refund \in RefundIds \cup {None} /\ jobs[w].amount \in Int
  BY <1>1 DEF Job
<1>6. \A p \in PaymentIds :
        /\ payments[p].status \in PaymentStatus /\ payments[p].order \in Orders \cup {None}
        /\ payments[p].refunded \in Nat /\ payments[p].captured \in BOOLEAN
        /\ payments[p].redirect \in BOOLEAN
  BY <1>2 DEF Payment
<1>7. \A o \in Orders : orders[o].status \in OrderStatus /\ orders[o].overdue \in BOOLEAN
  BY <1>3 DEF Order
<1>8. \A r \in RefundIds :
        /\ refunds[r].status \in RefundStatus /\ refunds[r].payment \in PaymentIds \cup {None}
        /\ refunds[r].amount \in Nat
  BY <1>4 DEF Refund
<1> QED
  BY <1>5, <1>6, <1>7, <1>8

(* The start is well typed. *)
LEMMA InitTyped == Init => TypeInv
<1> SUFFICES ASSUME Init PROVE TypeInv
  OBVIOUS
<1> USE BoundAssumption
<1>1. TypeOK
  BY DEF Init, TypeOK, Order, Payment, Refund, Job, NoPayment, NoRefund, IdleJob,
         OrderStatus, PaymentStatus, RefundStatus, Places, Captured, NoCapture, NoFaults
<1>2. JobsOK
  BY DEF Init, JobsOK, IdleJob, RefundPlaces
<1>3. RowsOK
  BY DEF Init, RowsOK, Exists, NoPayment
<1> QED
  BY <1>1, <1>2, <1>3 DEF TypeInv


-----------------------------------------------------------------------------
(* No row is ever deleted. *)
RowsKept == \A p \in PaymentIds : Exists(p) => Exists(p)'

(* A request that moves on still carries what its place needs. *)
LEMMA GotoKeeps ==
  ASSUME TypeInv, RowsKept, NEW w \in Workers,
         NEW place \in Places \ {"idle", "create", "mark", "refund_create"},
         Goto(w, place), jobs[w].at \notin {"idle", "create"},
         place = "refund_process" => jobs[w].at = "refund_create"
  PROVE  jobs' \in [Workers -> Job] /\ JobsOK'
<1>1. jobs \in [Workers -> Job]
  BY DEF TypeInv, TypeOK
<1>2. /\ jobs' \in [Workers -> Job]
      /\ jobs'[w].at = place
      /\ \A v \in Workers : v # w => jobs'[v] = jobs[v]
      /\ \A v \in Workers : /\ jobs'[v].order = jobs[v].order
                            /\ jobs'[v].payment = jobs[v].payment
                            /\ jobs'[v].refund = jobs[v].refund
                            /\ jobs'[v].amount = jobs[v].amount
  BY <1>1, GotoEffect
<1> QED
  BY <1>2 DEF TypeInv, JobsOK, RowsKept, RefundPlaces, Exists

(* A request that is answered leaves the others as they were. *)
LEMMA AnswerKeeps ==
  ASSUME TypeInv, RowsKept, NEW w \in Workers, Answer(w)
  PROVE  jobs' \in [Workers -> Job] /\ JobsOK'
<1>1. jobs \in [Workers -> Job]
  BY DEF TypeInv, TypeOK
<1>2. /\ jobs' \in [Workers -> Job]
      /\ jobs'[w] = IdleJob
      /\ \A v \in Workers : v # w => jobs'[v] = jobs[v]
  BY <1>1, AnswerEffect
<1> QED
  BY <1>2 DEF TypeInv, JobsOK, RowsKept, RefundPlaces, IdleJob, Exists

(* A new status keeps every row in order. *)
LEMMA StatusKeeps ==
  ASSUME TypeInv, NEW p \in PaymentIds, Exists(p), NEW s \in PaymentStatus \ {"none"},
         SetStatus(p, s)
  PROVE  payments' \in [PaymentIds -> Payment] /\ RowsOK' /\ RowsKept
<1>1. payments \in [PaymentIds -> Payment]
  BY DEF TypeInv, TypeOK
<1>2. /\ payments' \in [PaymentIds -> Payment]
      /\ payments'[p].status = s
      /\ \A q \in PaymentIds : q # p => payments'[q] = payments[q]
      /\ \A q \in PaymentIds : /\ payments'[q].order = payments[q].order
                               /\ payments'[q].refunded = payments[q].refunded
                               /\ payments'[q].captured = payments[q].captured
  BY <1>1, SetStatusEffect
<1> QED
  BY <1>2 DEF TypeInv, RowsOK, RowsKept, Exists

(* So does leaving the rows alone. *)
LEMMA UntouchedKeeps ==
  ASSUME TypeInv, UNCHANGED payments
  PROVE  payments' \in [PaymentIds -> Payment] /\ RowsOK' /\ RowsKept
BY DEF TypeInv, TypeOK, RowsOK, RowsKept, Exists

(* Requests that do not move keep what they carry. *)
LEMMA WaitingKeeps ==
  ASSUME TypeInv, RowsKept, UNCHANGED jobs
  PROVE  jobs' \in [Workers -> Job] /\ JobsOK'
BY DEF TypeInv, TypeOK, JobsOK, RowsKept, Exists

-----------------------------------------------------------------------------
(* What the requests that begin carry is well typed. *)
LEMMA BeginTyped ==
  ASSUME NEW p \in PaymentIds
  PROVE  /\ \A o \in Orders, c \in Channels :
              [IdleJob EXCEPT !.at = "create", !.channel = c, !.order = o, !.payment = p] \in Job
         /\ \A a \in Int :
              [IdleJob EXCEPT !.at = "capture_lock", !.payment = p, !.amount = a] \in Job
         /\ \A a \in Int, r \in RefundIds :
              [IdleJob EXCEPT !.at = "refund_create", !.payment = p, !.amount = a,
                              !.refund = r] \in Job
<1>1. IdleJob \in Job
  BY DEF IdleJob, Job, Places
<1>2. {"create", "capture_lock", "refund_create"} \subseteq Places
  BY DEF Places, CreatePlaces, CapturePlaces, RefundPlaces
<1> QED
  BY <1>1, <1>2 DEF Job

(* Every step keeps the types: one step of the proof per action. *)
LEMMA StepTyped == TypeInv /\ [Next]_vars => TypeInv'
<1> SUFFICES ASSUME TypeInv, [Next]_vars PROVE TypeInv'
  OBVIOUS
<1> USE FieldTypes, PriceAssumption, ChannelAssumption, BoundAssumption
<1> USE DEF TypeInv, TypeOK, JobsOK, RowsOK, Exists
<1>1. CASE UNCHANGED vars
  BY <1>1 DEF vars
<1>2. ASSUME NEW w \in Workers, NEW o \in Orders, NEW c \in Channels, NEW p \in PaymentIds,
             LoadOrder(w, o, c, p)
      PROVE  TypeInv'
  <2> DEFINE job == [IdleJob EXCEPT !.at = "create", !.channel = c, !.order = o, !.payment = p]
  <2>1. job \in Job /\ job.at = "create" /\ job.order = o /\ job.payment = p
    BY BeginTyped DEF IdleJob
  <2>2. jobs' = [jobs EXCEPT ![w] = job]
    BY <1>2 DEF LoadOrder
  <2>3. UNCHANGED <<orders, payments, refunds, locks, bank, faults, callbacks>>
    BY <1>2 DEF LoadOrder
  <2> HIDE DEF job
  <2> QED
    BY <2>1, <2>2, <2>3 DEF RefundPlaces
<1>3. ASSUME NEW w \in Workers, NEW p \in PaymentIds, NEW a \in Amounts, LoadForCapture(w, p, a)
      PROVE  TypeInv'
  <2> DEFINE amt == IF a = 0 THEN Amount(p) ELSE a
             job == [IdleJob EXCEPT !.at = "capture_lock", !.payment = p, !.amount = amt]
  <2>1. Exists(p)
    BY <1>3 DEF LoadForCapture, Capturable
  <2>2. amt \in Int
    BY <2>1, AmountAssumption DEF Amount
  <2> HIDE DEF amt
  <2>3. job \in Job /\ job.at = "capture_lock" /\ job.payment = p
    BY <2>2, BeginTyped DEF IdleJob
  <2>4. jobs' = [jobs EXCEPT ![w] = job]
    BY <1>3 DEF LoadForCapture, amt
  <2>5. UNCHANGED <<orders, payments, refunds, locks, bank, faults, callbacks>>
    BY <1>3 DEF LoadForCapture
  <2> HIDE DEF job
  <2> QED
    BY <2>1, <2>3, <2>4, <2>5 DEF RefundPlaces
<1>4. ASSUME NEW w \in Workers, NEW p \in PaymentIds, NEW a \in Amounts, NEW r \in RefundIds,
             LoadForRefund(w, p, a, r)
      PROVE  TypeInv'
  <2> DEFINE job == [IdleJob EXCEPT !.at = "refund_create", !.payment = p, !.amount = a,
                                    !.refund = r]
  <2>1. Exists(p) /\ a \in Int /\ a > 0
    BY <1>4, AmountAssumption DEF LoadForRefund, RefundableStatus
  <2>2. job \in Job
    BY <2>1, BeginTyped, Zenon
  <2>3. job.at = "refund_create" /\ job.payment = p /\ job.refund = r /\ job.amount = a
    BY DEF IdleJob
  <2>4. jobs' = [jobs EXCEPT ![w] = job]
    BY <1>4 DEF LoadForRefund
  <2>5. UNCHANGED <<orders, payments, refunds, locks, bank, faults, callbacks>>
    BY <1>4 DEF LoadForRefund
  <2> HIDE DEF job
  <2> QED
    BY <2>1, <2>2, <2>3, <2>4, <2>5 DEF RefundPlaces
<1>5. ASSUME NEW w \in Workers, RejectPayment(w) PROVE TypeInv'
  <2> DEFINE row == [NoPayment EXCEPT !.status = "failed", !.order = jobs[w].order]
  <2>1. jobs[w].payment \in PaymentIds /\ jobs[w].order \in Orders
    BY <1>5 DEF RejectPayment
  <2>2. row \in Payment /\ row.status = "failed" /\ row.order = jobs[w].order
    BY <2>1 DEF NoPayment, Payment, PaymentStatus
  <2>3. payments' = [payments EXCEPT ![jobs[w].payment] = row]
    BY <1>5 DEF RejectPayment
  <2>4. Answer(w) /\ UNCHANGED <<orders, refunds, locks, bank, faults, callbacks>>
    BY <1>5 DEF RejectPayment
  <2>5. jobs' \in [Workers -> Job] /\ jobs'[w] = IdleJob /\ \A v \in Workers : v # w => jobs'[v] = jobs[v]
    BY <2>4, AnswerEffect
  <2> HIDE DEF row
  <2> QED
    BY <2>1, <2>2, <2>3, <2>4, <2>5 DEF IdleJob, RefundPlaces
<1>6. ASSUME NEW w \in Workers, InsertPayment(w) PROVE TypeInv'
  <2> DEFINE row == [NoPayment EXCEPT !.status = InitialStatus(jobs[w].channel), !.order = jobs[w].order]
  <2>1. jobs[w].payment \in PaymentIds /\ jobs[w].order \in Orders
    BY <1>6 DEF InsertPayment
  <2>2. InitialStatus(jobs[w].channel) \in {"created", "processing"}
    BY DEF InitialStatus
  <2>3. row \in Payment /\ row.status # "none" /\ row.order = jobs[w].order
    BY <2>1, <2>2 DEF NoPayment, Payment, PaymentStatus
  <2>4. payments' = [payments EXCEPT ![jobs[w].payment] = row]
    BY <1>6 DEF InsertPayment
  <2>5. Goto(w, "mark") /\ UNCHANGED <<orders, refunds, locks, bank, faults, callbacks>>
    BY <1>6 DEF InsertPayment
  <2> HIDE DEF row
  <2> QED
    BY <2>1, <2>3, <2>4, <2>5, GotoEffect DEF InsertPayment, Places, CreatePlaces, RefundPlaces
<1>7. ASSUME NEW w \in Workers, MarkAttempted(w) PROVE TypeInv'
  <2>1. /\ jobs[w].at = "mark" /\ SetOrder(jobs[w].order, "attempted")
        /\ UNCHANGED <<payments, refunds, locks, bank, faults, callbacks>>
    BY <1>7 DEF MarkAttempted
  <2>2. Answer(w) \/ Goto(w, "lock") \/ Goto(w, "redirect") \/ Goto(w, "authorize")
    BY <1>7 DEF MarkAttempted
  <2>3. jobs' \in [Workers -> Job] /\ JobsOK'
    BY <2>1, <2>2, UntouchedKeeps, AnswerKeeps, GotoKeeps DEF Places, CreatePlaces
  <2>4. orders' \in [Orders -> Order]
    BY <2>1, SetOrderEffect DEF OrderStatus
  <2> QED
    BY <2>1, <2>3, <2>4, UntouchedKeeps
<1>8. ASSUME NEW w \in Workers, LockNewPayment(w) PROVE TypeInv'
  <2>1. /\ jobs[w].at = "lock" /\ jobs[w].payment \in PaymentIds /\ Exists(jobs[w].payment)
        /\ UNCHANGED <<orders, refunds, bank, faults, callbacks>>
    BY <1>8 DEF LockNewPayment
  <2>2. CASE locks' = locks \cup {jobs[w].payment} /\ Goto(w, "authorize") /\ UNCHANGED payments
    BY <2>1, <2>2, UntouchedKeeps, GotoKeeps DEF Places, CreatePlaces
  <2>3. CASE SetStatus(jobs[w].payment, "failed") /\ Answer(w) /\ UNCHANGED locks
    BY <2>1, <2>3, StatusKeeps, AnswerKeeps DEF PaymentStatus
  <2> QED
    BY <1>8, <2>2, <2>3 DEF LockNewPayment
<1>9. ASSUME NEW w \in Workers, NEW s \in Outcomes, Authorize(w, s) PROVE TypeInv'
  <2>1. /\ jobs[w].at = "authorize" /\ jobs[w].payment \in PaymentIds /\ Exists(jobs[w].payment)
        /\ s \in PaymentStatus /\ s # "none" /\ SetStatus(jobs[w].payment, s)
        /\ UNCHANGED <<orders, refunds, locks, bank, faults, callbacks>>
    BY <1>9 DEF Authorize, Outcomes, PaymentStatus
  <2>2. Goto(w, "unlock") \/ Answer(w)
    BY <1>9 DEF Authorize
  <2> QED
    BY <2>1, <2>2, StatusKeeps, AnswerKeeps, GotoKeeps DEF Places
<1>10. ASSUME NEW w \in Workers, StoreRedirect(w) PROVE TypeInv'
  <2> DEFINE p == jobs[w].payment
             row == [payments[p] EXCEPT !.redirect = TRUE]
  <2>1. /\ p \in PaymentIds /\ Exists(p) /\ Answer(w)
        /\ UNCHANGED <<orders, refunds, locks, bank, faults, callbacks>>
    BY <1>10 DEF StoreRedirect
  <2>2. payments[p] \in Payment
    BY <2>1
  <2>3. row \in Payment /\ row.status = payments[p].status /\ row.order = payments[p].order
        /\ row.refunded = payments[p].refunded /\ row.captured = payments[p].captured
    BY <2>2 DEF Payment
  <2>4. payments' = [payments EXCEPT ![p] = row]
    BY <1>10 DEF StoreRedirect
  <2> HIDE DEF row
  <2>5. payments' \in [PaymentIds -> Payment] /\ RowsOK' /\ RowsKept
    BY <2>1, <2>3, <2>4 DEF RowsKept
  <2> QED
    BY <2>1, <2>5, AnswerKeeps
<1>11. ASSUME NEW w \in Workers, ReleaseLock(w) PROVE TypeInv'
  BY <1>11, UntouchedKeeps, AnswerKeeps DEF ReleaseLock, DropLock
<1>12. ASSUME NEW w \in Workers, LockForCapture(w) PROVE TypeInv'
  <2>1. /\ jobs[w].at = "capture_lock" /\ jobs[w].payment \in PaymentIds
        /\ UNCHANGED <<orders, payments, refunds, bank, faults, callbacks>>
    BY <1>12 DEF LockForCapture
  <2>2. CASE locks' = locks \cup {jobs[w].payment} /\ Goto(w, "capture")
    BY <2>1, <2>2, UntouchedKeeps, GotoKeeps DEF Places, CapturePlaces
  <2>3. CASE Answer(w) /\ UNCHANGED locks
    BY <2>1, <2>3, UntouchedKeeps, AnswerKeeps
  <2> QED
    BY <1>12, <2>2, <2>3 DEF LockForCapture
<1>13. ASSUME NEW w \in Workers, GatewayCapture(w) PROVE TypeInv'
  <2>1. /\ jobs[w].at = "capture" /\ jobs[w].payment \in PaymentIds
        /\ UNCHANGED <<orders, payments, refunds, locks, faults, callbacks>>
    BY <1>13 DEF GatewayCapture
  <2>2. Goto(w, "record_captured") \/ Goto(w, "record_failed")
    BY <1>13 DEF GatewayCapture
  <2>3. bank' \in [PaymentIds -> Captured]
    <3>1. \A p \in PaymentIds : bank[p] \in Captured
      OBVIOUS
    <3>2. \A p \in PaymentIds, a \in Int :
            [calls |-> bank[p].calls + 1, total |-> bank[p].total + a] \in Captured
      BY <3>1 DEF Captured
    <3> QED
      BY <1>13, <2>1, <3>2 DEF GatewayCapture
  <2> QED
    BY <2>1, <2>2, <2>3, UntouchedKeeps, GotoKeeps DEF Places, CapturePlaces
<1>14. ASSUME NEW w \in Workers, RecordCaptured(w) PROVE TypeInv'
  <2> DEFINE p == jobs[w].payment
             row == [payments[p] EXCEPT !.status = "captured", !.captured = TRUE]
  <2>1. /\ p \in PaymentIds /\ jobs[w].at = "record_captured" /\ Exists(p) /\ Goto(w, "unlock")
        /\ UNCHANGED <<refunds, locks, bank, faults, callbacks>>
    BY <1>14 DEF RecordCaptured
  <2>2. payments[p] \in Payment
    BY <2>1
  <2>3. row \in Payment /\ row.status = "captured" /\ row.order = payments[p].order
    BY <2>2 DEF Payment, PaymentStatus
  <2>4. payments' = [payments EXCEPT ![p] = row]
    BY <1>14, <2>1 DEF RecordCaptured, StampCaptured
  <2> HIDE DEF row
  <2>5. payments' \in [PaymentIds -> Payment] /\ RowsOK' /\ RowsKept
    BY <2>1, <2>3, <2>4 DEF RowsKept
  <2>6. SetOrder(payments[p].order, "paid")
    BY <1>14 DEF RecordCaptured
  <2>7. orders' \in [Orders -> Order]
    BY <2>6, SetOrderEffect DEF OrderStatus
  <2>8. jobs' \in [Workers -> Job] /\ JobsOK'
    BY <2>1, <2>5, GotoKeeps DEF Places
  <2> QED
    BY <2>1, <2>5, <2>7, <2>8
<1>15. ASSUME NEW w \in Workers, RecordFailed(w) PROVE TypeInv'
  <2>1. /\ jobs[w].at = "record_failed" /\ jobs[w].payment \in PaymentIds /\ Exists(jobs[w].payment)
        /\ SetStatus(jobs[w].payment, "failed") /\ Goto(w, "unlock")
        /\ UNCHANGED <<orders, refunds, locks, bank, faults, callbacks>>
    BY <1>15 DEF RecordFailed
  <2> QED
    BY <2>1, StatusKeeps, GotoKeeps DEF Places, PaymentStatus
<1>16. ASSUME NEW w \in Workers, InsertRefund(w) PROVE TypeInv'
  <2> DEFINE row == [status |-> "initiated", payment |-> jobs[w].payment, amount |-> jobs[w].amount]
  <2>1. /\ jobs[w].at = "refund_create" /\ jobs[w].payment \in PaymentIds /\ Goto(w, "refund_process")
        /\ UNCHANGED <<orders, payments, locks, bank, faults, callbacks>>
    BY <1>16 DEF InsertRefund
  <2>2. row \in Refund
    BY <2>1 DEF Refund, RefundStatus, RefundPlaces
  <2>3. refunds' = [refunds EXCEPT ![jobs[w].refund] = row]
    BY <1>16 DEF InsertRefund
  <2> HIDE DEF row
  <2>4. refunds' \in [RefundIds -> Refund]
    BY <2>2, <2>3
  <2>5. jobs' \in [Workers -> Job] /\ JobsOK'
    BY <2>1, UntouchedKeeps, GotoKeeps DEF Places, RefundPlaces
  <2> QED
    BY <2>1, <2>4, <2>5, UntouchedKeeps
<1>17. ASSUME NEW w \in Workers, ProcessRefund(w) PROVE TypeInv'
  <2> DEFINE p == jobs[w].payment
             r == jobs[w].refund
             a == jobs[w].amount
             total == TotalAfter(p, a)
             row == [payments[p] EXCEPT !.refunded = total, !.status = StatusAfter(p, total)]
  <2>1. /\ p \in PaymentIds /\ r \in RefundIds /\ Exists(p) /\ Answer(w)
        /\ a \in Int /\ a > 0
        /\ UNCHANGED <<orders, locks, bank, faults, callbacks>>
    BY <1>17 DEF ProcessRefund, RefundPlaces
  <2>2. CASE /\ payments' = [payments EXCEPT ![p].refunded = total, ![p].status = StatusAfter(p, total)]
             /\ refunds' = [refunds EXCEPT ![r].status = "processed"]
    <3>1. payments[p] \in Payment
      BY <2>1
    <3>2. total \in Nat /\ StatusAfter(p, total) \in {"refunded", "partially_refunded"}
      <4>1. payments[p].refunded \in Nat
        BY <2>1
      <4> QED
        BY <2>1, <4>1 DEF TotalAfter, StatusAfter
    <3> HIDE DEF total
    <3>3. row \in Payment /\ row.status # "none" /\ row.order = payments[p].order
      BY <3>1, <3>2 DEF Payment, PaymentStatus
    <3>4. payments' = [payments EXCEPT ![p] = row]
      BY <2>1, <2>2
    <3> HIDE DEF row
    <3>5. payments' \in [PaymentIds -> Payment] /\ RowsOK' /\ RowsKept
      BY <2>1, <3>3, <3>4 DEF RowsKept
    <3>6. refunds' \in [RefundIds -> Refund]
      BY <2>1, <2>2 DEF Refund, RefundStatus
    <3> QED
      BY <2>1, <3>5, <3>6, AnswerKeeps
  <2>3. CASE UNCHANGED payments /\ RefuseRefund(r)
    <3>1. refunds' \in [RefundIds -> Refund]
      BY <2>1, <2>3 DEF RefuseRefund, Refund, RefundStatus
    <3> QED
      BY <2>1, <2>3, <3>1, UntouchedKeeps, AnswerKeeps
  <2> QED
    BY <1>17, <2>2, <2>3 DEF ProcessRefund
<1>18. ASSUME NEW w \in Workers, CaptureRaises(w) PROVE TypeInv'
  <2>1. Goto(w, "unlock") /\ jobs[w].at \notin {"idle", "create"}
        /\ UNCHANGED <<orders, payments, refunds, locks, bank, callbacks>>
    BY <1>18 DEF CaptureRaises
  <2>2. MayFail /\ faults' = [faults EXCEPT !.raised = @ + 1]
    BY <1>18 DEF CaptureRaises
  <2>3. faults' \in [killed: 0..MaxFaults, raised: 0..MaxFaults]
    BY <2>2 DEF MayFail
  <2> QED
    BY <2>1, <2>3, UntouchedKeeps, GotoKeeps DEF Places
<1>19. ASSUME NEW w \in Workers, Crash(w) PROVE TypeInv'
  <2>1. Answer(w) /\ UNCHANGED <<orders, payments, refunds, locks, bank, callbacks>>
    BY <1>19 DEF Crash
  <2>2. MayFail /\ faults' = [faults EXCEPT !.killed = @ + 1]
    BY <1>19 DEF Crash
  <2>3. faults' \in [killed: 0..MaxFaults, raised: 0..MaxFaults]
    BY <2>2 DEF MayFail
  <2> QED
    BY <2>1, <2>3, UntouchedKeeps, AnswerKeeps
<1>20. ASSUME NEW o \in Orders, CreateOrder(o) PROVE TypeInv'
  <2>1. SetOrder(o, "created") /\ UNCHANGED <<payments, refunds, locks, jobs, bank, faults, callbacks>>
    BY <1>20 DEF CreateOrder
  <2>2. orders' \in [Orders -> Order]
    BY <2>1, SetOrderEffect DEF OrderStatus
  <2> QED
    BY <2>1, <2>2, UntouchedKeeps, WaitingKeeps
<1>21. ASSUME NEW o \in Orders, ExpiryPasses(o) PROVE TypeInv'
  <2>1. UNCHANGED <<payments, refunds, locks, jobs, bank, faults, callbacks>>
    BY <1>21 DEF ExpiryPasses
  <2>2. orders[o] \in Order /\ orders' = [orders EXCEPT ![o] = [orders[o] EXCEPT !.overdue = TRUE]]
    BY <1>21 DEF ExpiryPasses
  <2>3. [orders[o] EXCEPT !.overdue = TRUE] \in Order
    BY <2>2 DEF Order
  <2>4. orders' \in [Orders -> Order]
    BY <2>2, <2>3
  <2> QED
    BY <2>1, <2>4, UntouchedKeeps, WaitingKeeps
<1>22. CASE ExpireStaleOrders
  <2>1. UNCHANGED <<payments, refunds, locks, jobs, bank, faults, callbacks>>
    BY <1>22 DEF ExpireStaleOrders
  <2>2. \A o \in Orders : orders[o] \in Order /\ [orders[o] EXCEPT !.status = "expired"] \in Order
    BY DEF Order, OrderStatus
  <2>3. orders' \in [Orders -> Order]
    BY <1>22, <2>2 DEF ExpireStaleOrders
  <2> QED
    BY <2>1, <2>3, UntouchedKeeps, WaitingKeeps
<1>23. ASSUME NEW S \in SUBSET PaymentIds, MarkAsFailed(S) PROVE TypeInv'
  <2> DEFINE open == {p \in S : payments[p].status \in {"created", "processing"}}
             row(p) == [payments[p] EXCEPT !.status = "failed"]
  <2>1. /\ payments' = [p \in PaymentIds |-> IF p \in open THEN row(p) ELSE payments[p]]
        /\ UNCHANGED <<orders, refunds, locks, jobs, bank, faults, callbacks>>
    BY <1>23 DEF MarkAsFailed
  <2>2. \A p \in PaymentIds : payments[p] \in Payment
    OBVIOUS
  <2>3. \A p \in PaymentIds : /\ row(p) \in Payment /\ row(p).status = "failed"
                              /\ row(p).order = payments[p].order
    BY <2>2 DEF Payment, PaymentStatus
  <2>4. \A p \in open : Exists(p)
    OBVIOUS
  <2> HIDE DEF open, row
  <2>5. payments' \in [PaymentIds -> Payment] /\ RowsOK' /\ RowsKept
    BY <2>1, <2>2, <2>3, <2>4 DEF RowsKept
  <2> QED
    BY <2>1, <2>5, WaitingKeeps
<1>24. ASSUME NEW p \in PaymentIds, LockExpires(p) PROVE TypeInv'
  BY <1>24, UntouchedKeeps, WaitingKeeps DEF LockExpires
<1>25. ASSUME NEW p \in PaymentIds, NEW s \in PaymentStatus, NetbankingCallback(p, s)
       PROVE  TypeInv'
  <2>1. /\ payments[p].redirect /\ s \in {"authorized", "failed"} /\ SetStatus(p, s)
        /\ callbacks < MaxCallbacks /\ callbacks' = callbacks + 1
        /\ UNCHANGED <<orders, refunds, locks, jobs, bank, faults>>
    BY <1>25 DEF NetbankingCallback
  <2>2. Exists(p)
    BY <2>1
  <2> QED
    BY <2>1, <2>2, StatusKeeps, WaitingKeeps
<1>26. CASE Quiescent
  BY <1>26, <1>1 DEF Quiescent
<1> QED
  BY <1>1, <1>2, <1>3, <1>4, <1>5, <1>6, <1>7, <1>8, <1>9, <1>10, <1>11, <1>12, <1>13,
     <1>14, <1>15, <1>16, <1>17, <1>18, <1>19, <1>20, <1>21, <1>22, <1>23, <1>24, <1>25, <1>26, ContinueCases
  DEF Next, Begin

(* The types hold in every state. *)
LEMMA TypeInvariant == Spec => []TypeInv
<1>1. Init => TypeInv
  BY InitTyped
<1>2. TypeInv /\ [Next]_vars => TypeInv'
  BY StepTyped
<1> QED
  BY <1>1, <1>2, PTL DEF Spec

(* The state always has its type, and a request at a given place always *)
(* carries the references the next statement of the code dereferences.  *)
THEOREM TypeCorrect == Spec => [](TypeOK /\ JobsOK /\ RowsOK)
<1>1. TypeInv => TypeOK /\ JobsOK /\ RowsOK
  BY DEF TypeInv
<1> QED
  BY <1>1, TypeInvariant, PTL

-----------------------------------------------------------------------------
(* Refunds *)

RefundInv == RefundWithinAmount /\ RefundStatusExact

(* Only a refund writes a refund status; any other status keeps the totals. *)
LEMMA PlainStatus ==
  ASSUME TypeInv, RefundInv, NEW p \in PaymentIds, Exists(p),
         NEW s \in PaymentStatus \ {"none", "refunded", "partially_refunded"}, SetStatus(p, s)
  PROVE  RefundInv'
<1>1. payments \in [PaymentIds -> Payment]
  BY DEF TypeInv, TypeOK
<1>2. /\ payments'[p].status = s
      /\ \A q \in PaymentIds : q # p => payments'[q] = payments[q]
      /\ \A q \in PaymentIds : /\ payments'[q].order = payments[q].order
                               /\ payments'[q].refunded = payments[q].refunded
  BY <1>1, SetStatusEffect
<1>3. \A q \in PaymentIds : Amount(q)' = Amount(q)
  BY <1>2 DEF Amount
<1> QED
  BY <1>2, <1>3 DEF RefundInv, RefundWithinAmount, RefundStatusExact, Exists

(* A new row has nothing refunded. *)
LEMMA NewRow ==
  ASSUME TypeInv, RefundInv, NEW p \in PaymentIds, NEW row \in Payment,
         row.refunded = 0, row.order \in Orders,
         row.status \in {"created", "processing", "failed"},
         payments' = [payments EXCEPT ![p] = row]
  PROVE  RefundInv'
<1>1. payments \in [PaymentIds -> Payment]
  BY DEF TypeInv, TypeOK
<1>2. payments'[p] = row /\ \A q \in PaymentIds : q # p => payments'[q] = payments[q]
  BY <1>1
<1>3. Amount(p)' \in Nat /\ \A q \in PaymentIds : q # p => Amount(q)' = Amount(q)
  BY <1>2, PriceAssumption DEF Amount
<1> QED
  BY <1>2, <1>3 DEF RefundInv, RefundWithinAmount, RefundStatusExact, Exists

(* One processed refund stays within the amount, and the status tells whether *)
(* anything is left: StillFits is evaluated under the row lock.               *)
LEMMA RefundFits ==
  ASSUME TypeInv, RefundInv, NEW p \in PaymentIds, Exists(p), NEW a \in Nat, a > 0, StillFits(p, a),
         payments' = [payments EXCEPT ![p].refunded = TotalAfter(p, a),
                                      ![p].status = StatusAfter(p, TotalAfter(p, a))]
  PROVE  RefundInv'
<1> DEFINE total == payments[p].refunded + a
           row == [payments[p] EXCEPT !.refunded = total, !.status = StatusAfter(p, total)]
<1>1. payments \in [PaymentIds -> Payment] /\ payments[p] \in Payment
  BY DEF TypeInv, TypeOK
<1>2. payments[p].refunded \in Nat /\ payments[p].order \in Orders
  BY FieldTypes DEF TypeInv, RowsOK
<1>3. Amount(p) \in Nat
  BY <1>2, PriceAssumption DEF Amount
<1>4. total \in Nat /\ total > 0 /\ total <= Amount(p)
  BY <1>2, <1>3 DEF StillFits, Refundable
<1> HIDE DEF total
<1>5. row.refunded = total /\ row.status = StatusAfter(p, total) /\ row.order = payments[p].order
  BY <1>1 DEF Payment
<1>6. payments' = [payments EXCEPT ![p] = row]
  BY DEF total, TotalAfter
<1> HIDE DEF row
<1>7. payments'[p] = row /\ \A q \in PaymentIds : q # p => payments'[q] = payments[q]
  BY <1>1, <1>6
<1>8. \A q \in PaymentIds : Amount(q)' = Amount(q)
  BY <1>5, <1>7 DEF Amount
<1>9. \/ total = Amount(p) /\ row.status = "refunded"
      \/ total < Amount(p) /\ row.status = "partially_refunded"
  BY <1>3, <1>4, <1>5 DEF StatusAfter
<1>10. /\ payments'[p].refunded = total
       /\ \/ total = Amount(p) /\ payments'[p].status = "refunded"
          \/ total < Amount(p) /\ payments'[p].status = "partially_refunded"
  BY <1>5, <1>7, <1>9
<1>11. RefundWithinAmount'
  BY <1>3, <1>4, <1>7, <1>8, <1>10 DEF RefundInv, RefundWithinAmount, Exists
<1>12. RefundStatusExact'
  <2> DEFINE Exact(q) ==
        /\ payments[q].status = "refunded" => payments[q].refunded = Amount(q)
        /\ payments[q].status = "partially_refunded" => payments[q].refunded \in 1..(Amount(q) - 1)
  <2>1. \A q \in PaymentIds : Exact(q)
    BY DEF RefundInv, RefundStatusExact
  <2>2. ASSUME NEW q \in PaymentIds, q # p PROVE Exact(q)'
    <3>1. Exact(q) /\ Amount(q)' = Amount(q) /\ payments'[q] = payments[q]
      BY <1>7, <1>8, <2>1, <2>2
    <3> QED
      BY <3>1, Zenon
  <2>3. Exact(p)'
    <3>1. Amount(p)' = Amount(p)
      BY <1>8
    <3> QED
      BY <1>3, <1>4, <1>10, <3>1
  <2> QED
    BY <2>2, <2>3 DEF RefundStatusExact
<1> QED
  BY <1>11, <1>12 DEF RefundInv

(* Every step keeps the refund counters true. *)
LEMMA RefundStep == TypeInv /\ RefundInv /\ [Next]_vars => RefundInv'
<1> SUFFICES ASSUME TypeInv, RefundInv, [Next]_vars PROVE RefundInv'
  OBVIOUS
<1> USE FieldTypes
<1>0. JobsOK /\ RowsOK /\ TypeOK
  BY DEF TypeInv
<1>1. CASE UNCHANGED payments
  BY <1>1 DEF RefundInv, RefundWithinAmount, RefundStatusExact, Exists, Amount
<1>2. ASSUME NEW w \in Workers, RejectPayment(w) PROVE RefundInv'
  <2> DEFINE row == [NoPayment EXCEPT !.status = "failed", !.order = jobs[w].order]
  <2>1. jobs[w].payment \in PaymentIds /\ jobs[w].order \in Orders
    BY <1>0, <1>2 DEF RejectPayment, JobsOK
  <2>2. row \in Payment /\ row.status = "failed" /\ row.order = jobs[w].order /\ row.refunded = 0
    BY <2>1 DEF NoPayment, Payment, PaymentStatus
  <2>3. payments' = [payments EXCEPT ![jobs[w].payment] = row]
    BY <1>2 DEF RejectPayment
  <2> HIDE DEF row
  <2> QED
    BY <2>1, <2>2, <2>3, NewRow
<1>3. ASSUME NEW w \in Workers, InsertPayment(w) PROVE RefundInv'
  <2> DEFINE row == [NoPayment EXCEPT !.status = InitialStatus(jobs[w].channel), !.order = jobs[w].order]
  <2>1. jobs[w].payment \in PaymentIds /\ jobs[w].order \in Orders
    BY <1>0, <1>3 DEF InsertPayment, JobsOK
  <2>2. InitialStatus(jobs[w].channel) \in {"created", "processing"}
    BY DEF InitialStatus
  <2>3. /\ row \in Payment /\ row.status \in {"created", "processing"}
        /\ row.order = jobs[w].order /\ row.refunded = 0
    BY <2>1, <2>2 DEF NoPayment, Payment, PaymentStatus
  <2>4. payments' = [payments EXCEPT ![jobs[w].payment] = row]
    BY <1>3 DEF InsertPayment
  <2> HIDE DEF row
  <2> QED
    BY <2>1, <2>3, <2>4, NewRow
<1>4. ASSUME NEW w \in Workers, LockNewPayment(w) PROVE RefundInv'
  <2>1. jobs[w].payment \in PaymentIds /\ Exists(jobs[w].payment)
    BY <1>0, <1>4 DEF LockNewPayment, JobsOK
  <2>2. CASE SetStatus(jobs[w].payment, "failed")
    BY <2>1, <2>2, PlainStatus DEF PaymentStatus
  <2> QED
    BY <1>1, <1>4, <2>2 DEF LockNewPayment
<1>5. ASSUME NEW w \in Workers, NEW s \in Outcomes, Authorize(w, s) PROVE RefundInv'
  <2>1. jobs[w].payment \in PaymentIds /\ Exists(jobs[w].payment)
    BY <1>0, <1>5 DEF Authorize, JobsOK
  <2>2. s \in {"authorized", "failed", "processing"} /\ SetStatus(jobs[w].payment, s)
    BY <1>5 DEF Authorize, Outcomes
  <2> QED
    BY <2>1, <2>2, PlainStatus DEF PaymentStatus
<1>6. ASSUME NEW w \in Workers, StoreRedirect(w) PROVE RefundInv'
  <2> DEFINE p == jobs[w].payment
             row == [payments[p] EXCEPT !.redirect = TRUE]
  <2>1. p \in PaymentIds /\ payments[p] \in Payment
    BY <1>0, <1>6 DEF StoreRedirect, JobsOK, TypeOK
  <2>2. row.status = payments[p].status /\ row.order = payments[p].order /\ row.refunded = payments[p].refunded
    BY <2>1 DEF Payment
  <2>3. payments' = [payments EXCEPT ![p] = row]
    BY <1>6 DEF StoreRedirect
  <2> HIDE DEF row
  <2>4. \A q \in PaymentIds : /\ payments'[q].status = payments[q].status
                              /\ payments'[q].order = payments[q].order
                              /\ payments'[q].refunded = payments[q].refunded
    BY <1>0, <2>1, <2>2, <2>3 DEF TypeOK
  <2> QED
    BY <2>4 DEF RefundInv, RefundWithinAmount, RefundStatusExact, Exists, Amount
<1>7. ASSUME NEW w \in Workers, RecordCaptured(w) PROVE RefundInv'
  <2> DEFINE p == jobs[w].payment
             row == [payments[p] EXCEPT !.status = "captured", !.captured = TRUE]
  <2>1. p \in PaymentIds /\ Exists(p) /\ payments[p] \in Payment
    BY <1>0, <1>7 DEF RecordCaptured, JobsOK, TypeOK
  <2>2. row.status = "captured" /\ row.order = payments[p].order /\ row.refunded = payments[p].refunded
    BY <2>1 DEF Payment
  <2>3. payments' = [payments EXCEPT ![p] = row]
    BY <1>7, <2>1 DEF RecordCaptured, StampCaptured
  <2> HIDE DEF row
  <2>4. /\ payments'[p].status = "captured"
        /\ \A q \in PaymentIds : q # p => payments'[q] = payments[q]
        /\ \A q \in PaymentIds : /\ payments'[q].order = payments[q].order
                                 /\ payments'[q].refunded = payments[q].refunded
    BY <1>0, <2>1, <2>2, <2>3 DEF TypeOK
  <2> QED
    BY <2>1, <2>4 DEF RefundInv, RefundWithinAmount, RefundStatusExact, Exists, Amount
<1>8. ASSUME NEW w \in Workers, RecordFailed(w) PROVE RefundInv'
  <2>1. jobs[w].payment \in PaymentIds /\ Exists(jobs[w].payment) /\ SetStatus(jobs[w].payment, "failed")
    BY <1>0, <1>8 DEF RecordFailed, JobsOK
  <2> QED
    BY <2>1, PlainStatus DEF PaymentStatus
<1>9. ASSUME NEW w \in Workers, ProcessRefund(w) PROVE RefundInv'
  <2>1. /\ jobs[w].payment \in PaymentIds /\ Exists(jobs[w].payment)
        /\ jobs[w].amount \in Nat /\ jobs[w].amount > 0
    BY <1>0, <1>9 DEF ProcessRefund, JobsOK, RefundPlaces
  <2>2. CASE UNCHANGED payments
    BY <1>1, <2>2
  <2> QED
    BY <1>9, <2>1, <2>2, RefundFits DEF ProcessRefund
<1>10. ASSUME NEW S \in SUBSET PaymentIds, MarkAsFailed(S) PROVE RefundInv'
  <2> DEFINE open == {p \in S : payments[p].status \in {"created", "processing"}}
             row(p) == [payments[p] EXCEPT !.status = "failed"]
  <2>1. payments' = [p \in PaymentIds |-> IF p \in open THEN row(p) ELSE payments[p]]
    BY <1>10 DEF MarkAsFailed
  <2>2. \A p \in PaymentIds : payments[p] \in Payment
    BY <1>0 DEF TypeOK
  <2>3. \A p \in PaymentIds : /\ row(p).status = "failed" /\ row(p).order = payments[p].order
                              /\ row(p).refunded = payments[p].refunded
    BY <2>2 DEF Payment
  <2>4. \A p \in open : Exists(p)
    BY DEF Exists
  <2> HIDE DEF open, row
  <2>5. \A q \in PaymentIds : /\ payments'[q].status \in {"failed", payments[q].status}
                              /\ Exists(q)' => Exists(q)
                              /\ payments'[q].order = payments[q].order
                              /\ payments'[q].refunded = payments[q].refunded
    BY <2>1, <2>3, <2>4 DEF Exists
  <2> QED
    BY <2>5 DEF RefundInv, RefundWithinAmount, RefundStatusExact, Amount
<1>11. ASSUME NEW p \in PaymentIds, NEW s \in PaymentStatus, NetbankingCallback(p, s) PROVE RefundInv'
  <2>1. payments[p].redirect /\ s \in {"authorized", "failed"} /\ SetStatus(p, s)
    BY <1>11 DEF NetbankingCallback
  <2>2. Exists(p)
    BY <1>0, <2>1 DEF RowsOK
  <2> QED
    BY <2>1, <2>2, PlainStatus
<1>12. \/ UNCHANGED payments
       \/ \E w \in Workers : \/ RejectPayment(w) \/ InsertPayment(w) \/ LockNewPayment(w)
                             \/ StoreRedirect(w) \/ RecordCaptured(w) \/ RecordFailed(w)
                             \/ ProcessRefund(w)
                             \/ \E s \in Outcomes : Authorize(w, s)
       \/ \E S \in SUBSET PaymentIds : MarkAsFailed(S)
       \/ \E p \in PaymentIds, s \in PaymentStatus : NetbankingCallback(p, s)
  BY ContinueCases
  DEF Next, Begin, vars, LoadOrder, LoadForCapture, LoadForRefund, MarkAttempted,
         ReleaseLock, LockForCapture, GatewayCapture, InsertRefund, CaptureRaises, Crash,
         CreateOrder, ExpiryPasses, ExpireStaleOrders, LockExpires, Quiescent
<1> QED
  BY <1>1, <1>2, <1>3, <1>4, <1>5, <1>6, <1>7, <1>8, <1>9, <1>10, <1>11, <1>12

(* The refund counters are true in every state. *)
LEMMA RefundInvariant == Spec => []RefundInv
<1>1. Init => RefundInv
  BY DEF Init, RefundInv, RefundWithinAmount, RefundStatusExact, Exists, NoPayment
<1>2. TypeInv /\ RefundInv /\ [Next]_vars => RefundInv'
  BY RefundStep
<1> QED
  BY <1>1, <1>2, TypeInvariant, PTL DEF Spec

(* However many refunds race for a payment, the total stays within its amount, *)
(* and the status says exactly whether all or part of it has been paid back.   *)
THEOREM RefundsCorrect == Spec => [](RefundWithinAmount /\ RefundStatusExact)
<1>1. RefundInv => RefundWithinAmount /\ RefundStatusExact
  BY DEF RefundInv
<1> QED
  BY <1>1, RefundInvariant, PTL

-----------------------------------------------------------------------------
(* The payment lock *)

(* Whoever is inside is covered by a key, and is alone. *)
LockInv ==
  ~LeaseOverrun =>
    \A p \in PaymentIds :
      /\ \A w \in Workers : Inside(w, p) => p \in locks
      /\ \A v, w \in Workers : Inside(v, p) /\ Inside(w, p) => v = w

(* A step that lets its worker into nothing new and deletes no key. *)
LEMMA NobodyEnters ==
  ASSUME LockInv, locks \subseteq locks', NEW w \in Workers,
         \A v \in Workers : v # w => jobs'[v] = jobs[v],
         \A p \in PaymentIds : Inside(w, p)' => Inside(w, p)
  PROVE  LockInv'
<1>1. ASSUME NEW v \in Workers, NEW p \in PaymentIds, Inside(v, p)' PROVE Inside(v, p)
  <2>1. CASE v = w
    BY <1>1, <2>1
  <2>2. CASE v # w
    BY <1>1, <2>2 DEF Inside
  <2> QED
    BY <2>1, <2>2
<1> QED
  BY <1>1 DEF LockInv

(* A step in which no process moves leaves the lock as it is. *)
LEMMA NobodyMoves ==
  ASSUME LockInv, locks \subseteq locks', UNCHANGED jobs
  PROVE  LockInv'
BY DEF LockInv, Inside

(* The key was absent, so nobody was inside; now its setter is, alone. *)
LEMMA OneEnters ==
  ASSUME LockInv, jobs \in [Workers -> Job], NEW w \in Workers, NEW p \in PaymentIds,
         LockFree(p), locks' = locks \cup {p}, jobs[w].payment = p,
         NEW place \in Places, Goto(w, place)
  PROVE  LockInv'
<1>1. /\ \A v \in Workers : v # w => jobs'[v] = jobs[v]
      /\ jobs'[w].payment = p
  BY GotoEffect
<1>2. ASSUME NEW v \in Workers, NEW q \in PaymentIds, Inside(v, q)', v # w PROVE Inside(v, q)
  BY <1>1, <1>2 DEF Inside
<1>3. ASSUME NEW q \in PaymentIds, Inside(w, q)' PROVE q = p
  BY <1>1, <1>3 DEF Inside
<1>4. ~LeaseOverrun => \A v \in Workers : ~Inside(v, p)
  BY DEF LockInv, LockFree
<1> QED
  BY <1>2, <1>3, <1>4 DEF LockInv

(* The key goes when the only worker inside leaves. *)
LEMMA OneLeaves ==
  ASSUME LockInv, jobs \in [Workers -> Job], NEW w \in Workers, NEW p \in PaymentIds,
         Inside(w, p), DropLock(p), Answer(w)
  PROVE  LockInv'
<1>1. jobs'[w] = IdleJob /\ \A v \in Workers : v # w => jobs'[v] = jobs[v]
  BY AnswerEffect
<1>2. \A q \in PaymentIds : ~Inside(w, q)'
  BY <1>1 DEF Inside, IdleJob
<1>3. ASSUME NEW v \in Workers, NEW q \in PaymentIds, Inside(v, q)' PROVE v # w /\ Inside(v, q)
  BY <1>1, <1>2, <1>3 DEF Inside
<1>4. ASSUME ~LeaseOverrun, NEW v \in Workers, NEW q \in PaymentIds, Inside(v, q)' PROVE q \in locks'
  <2>1. v # w /\ Inside(v, q)
    BY <1>3, <1>4
  <2>2. q # p /\ q \in locks
    BY <1>4, <2>1 DEF LockInv
  <2> QED
    BY <2>2 DEF DropLock
<1> QED
  BY <1>3, <1>4 DEF LockInv

(* Moving on to a place that is not inside, or from one that is to another. *)
InsidePlaces == {"capture", "record_captured", "record_failed", "unlock"}
(* A process that goes on in its work keeps the lock it has. *)
LEMMA MoveKeepsLock ==
  ASSUME LockInv, jobs \in [Workers -> Job], NEW w \in Workers, NEW place \in Places, Goto(w, place),
         locks \subseteq locks',
         place \in InsidePlaces => \/ jobs[w].at \in InsidePlaces
                                   \/ jobs[w].at = "authorize" /\ jobs[w].channel = "service",
         place = "authorize" => jobs[w].channel # "service"
  PROVE  LockInv'
<1>1. /\ jobs'[w].at = place /\ jobs'[w].payment = jobs[w].payment
      /\ jobs'[w].channel = jobs[w].channel
      /\ \A v \in Workers : v # w => jobs'[v] = jobs[v]
  BY GotoEffect
<1>2. \A p \in PaymentIds : Inside(w, p)' => Inside(w, p)
  BY <1>1 DEF Inside, InsidePlaces
<1> QED
  BY <1>1, <1>2, NobodyEnters

(* A process that answers its request is done and leaves the lock to others. *)
LEMMA AnswerKeepsLock ==
  ASSUME LockInv, jobs \in [Workers -> Job], NEW w \in Workers, Answer(w), locks \subseteq locks'
  PROVE  LockInv'
<1>1. jobs'[w] = IdleJob /\ \A v \in Workers : v # w => jobs'[v] = jobs[v]
  BY AnswerEffect
<1>2. \A p \in PaymentIds : ~Inside(w, p)'
  BY <1>1 DEF Inside, IdleJob
<1> QED
  BY <1>1, <1>2, NobodyEnters

(* Every step keeps the lock exclusive. *)
LEMMA LockStep == TypeInv /\ LockInv /\ [Next]_vars => LockInv'
<1> SUFFICES ASSUME TypeInv, LockInv, [Next]_vars PROVE LockInv'
  OBVIOUS
<1>0. jobs \in [Workers -> Job] /\ JobsOK
  BY DEF TypeInv, TypeOK
<1>1. CASE UNCHANGED <<jobs, locks>>
  BY <1>1, NobodyMoves
<1>2. ASSUME NEW w \in Workers, Begin(w) PROVE LockInv'
  <2> DEFINE Loaded(j) == /\ jobs' = [jobs EXCEPT ![w] = j]
                          /\ j.at \in {"create", "capture_lock", "refund_create"}
  <2>1. UNCHANGED locks /\ \E j : Loaded(j)
    <3>1. CASE \E o \in Orders, c \in Channels, p \in PaymentIds : LoadOrder(w, o, c, p)
      <4>1. PICK o \in Orders, c \in Channels, p \in PaymentIds : LoadOrder(w, o, c, p)
        BY <3>1
      <4> DEFINE k == [IdleJob EXCEPT !.at = "create", !.channel = c, !.order = o, !.payment = p]
      <4>2. jobs' = [jobs EXCEPT ![w] = k] /\ UNCHANGED locks
        BY <4>1 DEF LoadOrder
      <4>3. k.at = "create"
        BY DEF IdleJob
      <4> QED
        BY <4>2, <4>3
    <3>2. CASE \E p \in PaymentIds, a \in Amounts : LoadForCapture(w, p, a)
      <4>1. PICK p \in PaymentIds, a \in Amounts : LoadForCapture(w, p, a)
        BY <3>2
      <4> DEFINE k == [IdleJob EXCEPT !.at = "capture_lock", !.payment = p,
                                      !.amount = IF a = 0 THEN Amount(p) ELSE a]
      <4>2. jobs' = [jobs EXCEPT ![w] = k] /\ UNCHANGED locks
        BY <4>1 DEF LoadForCapture
      <4>3. k.at = "capture_lock"
        BY DEF IdleJob
      <4> QED
        BY <4>2, <4>3
    <3>3. CASE \E p \in PaymentIds, a \in Amounts, r \in RefundIds : LoadForRefund(w, p, a, r)
      <4>1. PICK p \in PaymentIds, a \in Amounts, r \in RefundIds : LoadForRefund(w, p, a, r)
        BY <3>3
      <4> DEFINE k == [IdleJob EXCEPT !.at = "refund_create", !.payment = p, !.amount = a, !.refund = r]
      <4>2. jobs' = [jobs EXCEPT ![w] = k] /\ UNCHANGED locks
        BY <4>1 DEF LoadForRefund
      <4>3. k.at = "refund_create"
        BY DEF IdleJob
      <4> QED
        BY <4>2, <4>3
    <3> QED
      BY <1>2, <3>1, <3>2, <3>3 DEF Begin
  <2>2. PICK j : Loaded(j)
    BY <2>1
  <2>3. jobs'[w] = j /\ \A v \in Workers : v # w => jobs'[v] = jobs[v]
    BY <1>0, <2>2
  <2>4. \A p \in PaymentIds : ~Inside(w, p)'
    BY <2>2, <2>3 DEF Inside
  <2> QED
    BY <2>1, <2>3, <2>4, NobodyEnters
<1>3. ASSUME NEW w \in Workers, RejectPayment(w) PROVE LockInv'
  BY <1>0, <1>3, AnswerKeepsLock DEF RejectPayment
<1>4. ASSUME NEW w \in Workers, InsertPayment(w) PROVE LockInv'
  BY <1>0, <1>4, MoveKeepsLock DEF InsertPayment, Places, CreatePlaces, InsidePlaces
<1>5. ASSUME NEW w \in Workers, MarkAttempted(w) PROVE LockInv'
  <2>1. UNCHANGED locks /\ \/ Goto(w, "lock") \/ Answer(w) \/ Goto(w, "redirect")
                           \/ jobs[w].channel # "service" /\ Goto(w, "authorize")
    BY <1>5 DEF MarkAttempted
  <2> QED
    BY <1>0, <2>1, MoveKeepsLock, AnswerKeepsLock DEF Places, CreatePlaces, InsidePlaces
<1>6. ASSUME NEW w \in Workers, LockNewPayment(w) PROVE LockInv'
  <2>1. jobs[w].payment \in PaymentIds
    BY <1>0, <1>6 DEF LockNewPayment, JobsOK
  <2>2. CASE LockFree(jobs[w].payment) /\ locks' = locks \cup {jobs[w].payment} /\ Goto(w, "authorize")
    BY <1>0, <2>1, <2>2, OneEnters DEF Places, CreatePlaces
  <2>3. CASE Answer(w) /\ UNCHANGED locks
    BY <1>0, <2>3, AnswerKeepsLock
  <2> QED
    BY <1>6, <2>2, <2>3 DEF LockNewPayment
<1>7. ASSUME NEW w \in Workers, NEW s \in Outcomes, Authorize(w, s) PROVE LockInv'
  <2>1. UNCHANGED locks /\ jobs[w].at = "authorize"
        /\ \/ Answer(w)
           \/ jobs[w].channel = "service" /\ Goto(w, "unlock")
    BY <1>7 DEF Authorize
  <2> QED
    BY <1>0, <2>1, MoveKeepsLock, AnswerKeepsLock DEF Places, InsidePlaces
<1>8. ASSUME NEW w \in Workers, StoreRedirect(w) PROVE LockInv'
  BY <1>0, <1>8, AnswerKeepsLock DEF StoreRedirect
<1>9. ASSUME NEW w \in Workers, ReleaseLock(w) PROVE LockInv'
  <2>1. jobs[w].payment \in PaymentIds /\ Inside(w, jobs[w].payment)
    BY <1>0, <1>9 DEF ReleaseLock, JobsOK, Inside
  <2> QED
    BY <1>0, <1>9, <2>1, OneLeaves DEF ReleaseLock
<1>10. ASSUME NEW w \in Workers, LockForCapture(w) PROVE LockInv'
  <2>1. jobs[w].payment \in PaymentIds
    BY <1>0, <1>10 DEF LockForCapture, JobsOK
  <2>2. CASE LockFree(jobs[w].payment) /\ locks' = locks \cup {jobs[w].payment} /\ Goto(w, "capture")
    BY <1>0, <2>1, <2>2, OneEnters DEF Places, CapturePlaces
  <2>3. CASE Answer(w) /\ UNCHANGED locks
    BY <1>0, <2>3, AnswerKeepsLock
  <2> QED
    BY <1>10, <2>2, <2>3 DEF LockForCapture
<1>11. ASSUME NEW w \in Workers,
              GatewayCapture(w) \/ RecordCaptured(w) \/ RecordFailed(w) \/ CaptureRaises(w)
       PROVE  LockInv'
  <2>1. /\ UNCHANGED locks /\ jobs[w].at \in InsidePlaces
        /\ (Goto(w, "record_captured") \/ Goto(w, "record_failed") \/ Goto(w, "unlock"))
    BY <1>11 DEF GatewayCapture, RecordCaptured, RecordFailed, CaptureRaises, InsidePlaces
  <2> QED
    BY <1>0, <2>1, MoveKeepsLock DEF Places, CapturePlaces, InsidePlaces
<1>12. ASSUME NEW w \in Workers, InsertRefund(w) PROVE LockInv'
  BY <1>0, <1>12, MoveKeepsLock DEF InsertRefund, Places, RefundPlaces, InsidePlaces
<1>13. ASSUME NEW w \in Workers, ProcessRefund(w) \/ Crash(w) PROVE LockInv'
  BY <1>0, <1>13, AnswerKeepsLock DEF ProcessRefund, Crash
<1>14. ASSUME NEW p \in PaymentIds, LockExpires(p) PROVE LockInv'
  <2>1. /\ LeaseOverrun \/ Orphan(p)
        /\ locks' = locks \ {p} /\ UNCHANGED jobs
    BY <1>14 DEF LockExpires
  <2>2. \A w \in Workers, q \in PaymentIds : Inside(w, q)' = Inside(w, q)
    BY <2>1 DEF Inside
  <2> QED
    BY <2>1, <2>2 DEF LockInv, Orphan
<1>15. \/ UNCHANGED <<jobs, locks>>
       \/ \E w \in Workers : Begin(w) \/ Continue(w) \/ CaptureRaises(w) \/ Crash(w)
       \/ \E p \in PaymentIds : LockExpires(p)
  BY DEF Next, vars, CreateOrder, ExpiryPasses, ExpireStaleOrders, MarkAsFailed,
         NetbankingCallback, Quiescent
<1> QED
  BY <1>1, <1>2, <1>3, <1>4, <1>5, <1>6, <1>7, <1>8, <1>9, <1>10, <1>11, <1>12, <1>13,
     <1>14, <1>15, ContinueCases

(* The lock is exclusive for any number of workers, crashes and orphaned keys *)
(* included, as long as every step inside ends before LOCK_TTL.               *)
THEOREM LockSafe == Spec => []LockExclusive
<1>1. Init => LockInv
  BY DEF Init, LockInv, Inside, IdleJob
<1>2. TypeInv /\ LockInv /\ [Next]_vars => LockInv'
  BY LockStep
<1>3. LockInv => LockExclusive
  BY DEF LockInv, LockExclusive
<1> QED
  BY <1>1, <1>2, <1>3, TypeInvariant, PTL DEF Spec

(* A step of one worker that neither abandons a key nor adds one without going *)
(* inside leaves every key with a holder.                                       *)
LEMMA HoldersStay ==
  ASSUME KeyHasHolder, faults'.killed = faults.killed, NEW w \in Workers,
         \A v \in Workers : v # w => jobs'[v] = jobs[v],
         \A p \in locks' : p \in locks \/ Inside(w, p)',
         \A p \in locks' : Inside(w, p) => Inside(w, p)'
  PROVE  KeyHasHolder'
<1>1. ASSUME NEW p \in locks', faults.killed = 0 PROVE \E v \in Workers : Inside(v, p)'
  <2>1. CASE Inside(w, p)'
    BY <2>1
  <2>2. CASE ~Inside(w, p)'
    <3>1. PICK v \in Workers : Inside(v, p)
      BY <1>1, <2>2 DEF KeyHasHolder
    <3>2. v # w /\ jobs'[v] = jobs[v]
      BY <1>1, <2>2, <3>1
    <3> QED
      BY <3>1, <3>2 DEF Inside
  <2> QED
    BY <2>1, <2>2
<1> QED
  BY <1>1 DEF KeyHasHolder

(* A worker that goes on, inside if it was inside, and touches no key. *)
LEMMA HolderGoesOn ==
  ASSUME KeyHasHolder, jobs \in [Workers -> Job], NEW w \in Workers, UNCHANGED locks,
         faults'.killed = faults.killed, NEW place \in Places, Goto(w, place),
         \/ \A p \in locks : ~Inside(w, p)
         \/ place \in InsidePlaces
  PROVE  KeyHasHolder'
<1>1. /\ jobs'[w].at = place /\ jobs'[w].payment = jobs[w].payment
      /\ \A v \in Workers : v # w => jobs'[v] = jobs[v]
  BY GotoEffect
<1>2. \A p \in locks : Inside(w, p) => Inside(w, p)'
  BY <1>1 DEF Inside, InsidePlaces
<1> QED
  BY <1>1, <1>2, HoldersStay

(* A worker that answers outside of the lock leaves no key behind. *)
LEMMA OutsiderAnswers ==
  ASSUME KeyHasHolder, jobs \in [Workers -> Job], NEW w \in Workers, UNCHANGED locks,
         faults'.killed = faults.killed, Answer(w), \A p \in locks : ~Inside(w, p)
  PROVE  KeyHasHolder'
<1>1. \A v \in Workers : v # w => jobs'[v] = jobs[v]
  BY AnswerEffect
<1> QED
  BY <1>1, HoldersStay

(* A worker that sets the key is inside. *)
LEMMA SetterHolds ==
  ASSUME KeyHasHolder, jobs \in [Workers -> Job], NEW w \in Workers,
         faults'.killed = faults.killed, locks' = locks \cup {jobs[w].payment},
         \/ Goto(w, "capture")
         \/ jobs[w].channel = "service" /\ Goto(w, "authorize"),
         \A p \in locks : ~Inside(w, p)
  PROVE  KeyHasHolder'
<1>1. /\ jobs'[w].payment = jobs[w].payment /\ jobs'[w].channel = jobs[w].channel
      /\ \/ jobs'[w].at = "capture"
         \/ jobs'[w].at = "authorize" /\ jobs[w].channel = "service"
      /\ \A v \in Workers : v # w => jobs'[v] = jobs[v]
  BY GotoEffect DEF Places, CreatePlaces, CapturePlaces
<1>2. \A p : p = jobs[w].payment => Inside(w, p)'
  BY <1>1 DEF Inside
<1>3. \A p \in locks' : Inside(w, p) => Inside(w, p)'
  BY <1>2
<1> QED
  BY <1>1, <1>2, <1>3, HoldersStay

(* Only process_payment takes the lock of a payment it creates. *)
LEMMA LockTaker ==
  ASSUME NEW w \in Workers, Continue(w), jobs[w].at = "lock"
  PROVE  jobs[w].channel = "service"
BY DEF Continue, ProcessPayment, ProcessCardPayment, ProcessUpiCollect, ProcessUpiIntent,
       ProcessNetbanking, ProcessWalletPayment, RejectPayment, InsertPayment, MarkAttempted,
       Authorize, StoreRedirect, ReleaseLock, LockForCapture, GatewayCapture, RecordCaptured,
       RecordFailed, InsertRefund, ProcessRefund

(* Every step leaves each key with a worker that is going to delete it. *)
LEMMA HolderStep == TypeInv /\ KeyHasHolder /\ [Next]_vars => KeyHasHolder'
<1> SUFFICES ASSUME TypeInv, KeyHasHolder, [Next]_vars PROVE KeyHasHolder'
  OBVIOUS
<1>0. jobs \in [Workers -> Job] /\ faults \in [killed: 0..MaxFaults, raised: 0..MaxFaults]
  BY DEF TypeInv, TypeOK
<1>1. CASE UNCHANGED <<jobs, faults>> /\ locks' \subseteq locks
  BY <1>1 DEF KeyHasHolder, Inside
<1>2. ASSUME NEW w \in Workers, Begin(w) PROVE KeyHasHolder'
  <2>1. jobs[w].at = "idle" /\ UNCHANGED <<locks, faults>>
    BY <1>2 DEF Begin, LoadOrder, LoadForCapture, LoadForRefund
  <2>2. \A v \in Workers : v # w => jobs'[v] = jobs[v]
    BY <1>0, <1>2 DEF Begin, LoadOrder, LoadForCapture, LoadForRefund
  <2>3. \A p \in locks : ~Inside(w, p)
    BY <2>1 DEF Inside
  <2> QED
    BY <2>1, <2>2, <2>3, HoldersStay
<1>3. ASSUME NEW w \in Workers, RejectPayment(w) \/ StoreRedirect(w) \/ ProcessRefund(w)
      PROVE  KeyHasHolder'
  <2>1. /\ jobs[w].at \in {"create", "redirect", "refund_process"}
        /\ Answer(w) /\ UNCHANGED <<locks, faults>>
    BY <1>3 DEF RejectPayment, StoreRedirect, ProcessRefund
  <2>2. \A p \in locks : ~Inside(w, p)
    BY <2>1 DEF Inside
  <2> QED
    BY <1>0, <2>1, <2>2, OutsiderAnswers
<1>4. ASSUME NEW w \in Workers, InsertPayment(w) \/ MarkAttempted(w) \/ InsertRefund(w)
      PROVE  KeyHasHolder'
  <2>1. /\ jobs[w].at \in {"create", "mark", "refund_create"} /\ UNCHANGED <<locks, faults>>
        /\ \/ Answer(w)
           \/ \E place \in {"mark", "lock", "redirect", "authorize", "refund_process"} :
                Goto(w, place)
    BY <1>4 DEF InsertPayment, MarkAttempted, InsertRefund
  <2>2. \A p \in locks : ~Inside(w, p)
    BY <2>1 DEF Inside
  <2>3. {"mark", "lock", "redirect", "authorize", "refund_process"} \subseteq Places
    BY DEF Places, CreatePlaces, RefundPlaces
  <2> QED
    BY <1>0, <2>1, <2>2, <2>3, OutsiderAnswers, HolderGoesOn
<1>5. ASSUME NEW w \in Workers, jobs[w].at = "lock" => jobs[w].channel = "service",
             LockNewPayment(w) \/ LockForCapture(w)
      PROVE  KeyHasHolder'
  <2>1. /\ jobs[w].at \in {"lock", "capture_lock"} /\ UNCHANGED faults
        /\ \/ Answer(w) /\ UNCHANGED locks
           \/ /\ locks' = locks \cup {jobs[w].payment}
              /\ \/ Goto(w, "capture")
                 \/ jobs[w].channel = "service" /\ Goto(w, "authorize")
    BY <1>5 DEF LockNewPayment, LockForCapture
  <2>2. \A p \in locks : ~Inside(w, p)
    BY <2>1 DEF Inside
  <2> QED
    BY <1>0, <2>1, <2>2, OutsiderAnswers, SetterHolds
<1>6. ASSUME NEW w \in Workers, NEW s \in Outcomes, Authorize(w, s) PROVE KeyHasHolder'
  <2>1. /\ jobs[w].at = "authorize" /\ UNCHANGED <<locks, faults>>
        /\ IF jobs[w].channel = "service" THEN Goto(w, "unlock") ELSE Answer(w)
    BY <1>6 DEF Authorize
  <2>2. CASE jobs[w].channel = "service"
    BY <1>0, <2>1, <2>2, HolderGoesOn DEF Places, InsidePlaces
  <2>3. CASE jobs[w].channel # "service"
    <3>1. \A p \in locks : ~Inside(w, p)
      BY <2>1, <2>3 DEF Inside
    <3> QED
      BY <1>0, <2>1, <2>3, <3>1, OutsiderAnswers
  <2> QED
    BY <2>2, <2>3
<1>7. ASSUME NEW w \in Workers,
             GatewayCapture(w) \/ RecordCaptured(w) \/ RecordFailed(w) \/ CaptureRaises(w)
      PROVE  KeyHasHolder'
  <2>1. /\ UNCHANGED locks
        /\ \E place \in {"record_captured", "record_failed", "unlock"} : Goto(w, place)
    BY <1>7 DEF GatewayCapture, RecordCaptured, RecordFailed, CaptureRaises
  <2>2. faults'.killed = faults.killed
    BY <1>0, <1>7 DEF GatewayCapture, RecordCaptured, RecordFailed, CaptureRaises
  <2> QED
    BY <1>0, <2>1, <2>2, HolderGoesOn DEF Places, CapturePlaces, InsidePlaces
<1>8. ASSUME NEW w \in Workers, ReleaseLock(w) PROVE KeyHasHolder'
  <2>1. /\ locks' = locks \ {jobs[w].payment} /\ Answer(w) /\ UNCHANGED faults
    BY <1>8 DEF ReleaseLock, DropLock
  <2>2. \A v \in Workers : v # w => jobs'[v] = jobs[v]
    BY <1>0, <2>1, AnswerEffect
  <2>3. \A p \in locks' : ~Inside(w, p)
    BY <2>1 DEF Inside
  <2> QED
    BY <2>1, <2>2, <2>3, HoldersStay
<1>9. ASSUME NEW w \in Workers, Crash(w) PROVE KeyHasHolder'
  <2>1. faults' = [faults EXCEPT !.killed = @ + 1]
    BY <1>9 DEF Crash
  <2>2. faults.killed \in 0..MaxFaults /\ faults'.killed = faults.killed + 1
    BY <1>0, <2>1
  <2>3. faults'.killed # 0
    BY <2>2, BoundAssumption
  <2> QED
    BY <2>3 DEF KeyHasHolder
<1>10. \/ UNCHANGED <<jobs, faults>> /\ locks' \subseteq locks
       \/ \E w \in Workers : Begin(w) \/ Continue(w) \/ CaptureRaises(w) \/ Crash(w)
  BY DEF Next, vars, CreateOrder, ExpiryPasses, ExpireStaleOrders, MarkAsFailed, LockExpires,
         NetbankingCallback, Quiescent
<1> QED
  BY <1>1, <1>2, <1>3, <1>4, <1>5, <1>6, <1>7, <1>8, <1>9, <1>10, ContinueCases, LockTaker

(* A key without a worker that is going to delete it is left only by a killed *)
(* process, for any number of workers, whether steps outlast LOCK_TTL or not.  *)
THEOREM KeyHeld == Spec => []KeyHasHolder
<1>1. Init => KeyHasHolder
  BY DEF Init, KeyHasHolder
<1>2. TypeInv /\ KeyHasHolder /\ [Next]_vars => KeyHasHolder'
  BY HolderStep
<1> QED
  BY <1>1, <1>2, TypeInvariant, PTL DEF Spec

-----------------------------------------------------------------------------
(* The money *)

Settled == {"captured", "refunded", "partially_refunded"}

(* What a request knows of the money at the place it has reached.  Nobody else *)
(* works on a payment that is not inserted yet.                                *)
JobMoney(w) ==
  LET p == jobs[w].payment IN
  /\ jobs[w].at = "create" => ~Exists(p) /\ \A v \in Workers \ {w} : jobs[v].payment # p
  /\ jobs[w].at = "record_captured" => bank[p].calls > 0
  /\ jobs[w].at \in RefundPlaces => payments[p].captured

RowMoney(p) ==
  /\ payments[p].status \in Settled \/ payments[p].refunded > 0 => payments[p].captured
  /\ payments[p].captured => bank[p].calls > 0

MoneyInv ==
  /\ \A w \in Workers : JobMoney(w)
  /\ \A p \in PaymentIds : RowMoney(p)
  /\ PaidOrderWasCaptured
  /\ IsFiniteSet(Unrecorded) /\ CaptureRecorded

(* What a step that moves no money may do to the rows. *)
NoMoney ==
  /\ UNCHANGED bank
  /\ \A p \in PaymentIds : /\ payments'[p].captured = payments[p].captured
                           /\ payments[p].captured => payments'[p].order = payments[p].order
                           /\ \/ payments'[p].status \in Settled
                              \/ payments'[p].refunded > 0
                              => payments[p].captured
  /\ \A o \in Orders : orders'[o].status = "paid" => orders[o].status = "paid"

(* Every worker that is about to record a capture still is. *)
Remembers ==
  /\ UNCHANGED faults
  /\ \A w \in Workers : jobs[w].at = "record_captured" => jobs'[w] = jobs[w]

(* A fault, of worker w alone. *)
Falters(w) ==
  /\ faults'.killed + faults'.raised = faults.killed + faults.raised + 1
  /\ \A v \in Workers : v # w => jobs'[v] = jobs[v]

(* The numbers of faults are natural. *)
LEMMA FaultTypes ==
  ASSUME TypeOK
  PROVE  /\ faults.killed \in 0..MaxFaults /\ faults.raised \in 0..MaxFaults
         /\ faults.killed + faults.raised \in Nat
<1>1. faults.killed \in 0..MaxFaults /\ faults.raised \in 0..MaxFaults
  BY DEF TypeOK
<1> QED
  BY <1>1, BoundAssumption

(* A set of unrecorded captures that does not grow, or by no more than the one *)
(* payment of the worker that faltered, stays within the number of faults.     *)
LEMMA UnrecordedCounted ==
  ASSUME TypeInv, MoneyInv,
         \/ UNCHANGED faults /\ Unrecorded' \subseteq Unrecorded
         \/ \E w \in Workers : Falters(w) /\ Unrecorded' \subseteq Unrecorded \cup {jobs[w].payment}
  PROVE  IsFiniteSet(Unrecorded)' /\ CaptureRecorded'
<1>1. /\ IsFiniteSet(Unrecorded) /\ faults.killed + faults.raised \in Nat
      /\ Cardinality(Unrecorded) <= faults.killed + faults.raised
  BY FaultTypes DEF TypeInv, MoneyInv, CaptureRecorded
<1>2. CASE UNCHANGED faults /\ Unrecorded' \subseteq Unrecorded
  <2>1. IsFiniteSet(Unrecorded') /\ Cardinality(Unrecorded') <= faults.killed + faults.raised
    BY <1>1, <1>2, GrowsByNone
  <2> QED
    BY <1>2, <2>1 DEF CaptureRecorded
<1>3. ASSUME NEW w \in Workers, Falters(w), Unrecorded' \subseteq Unrecorded \cup {jobs[w].payment}
      PROVE  IsFiniteSet(Unrecorded)' /\ CaptureRecorded'
  <2>1. IsFiniteSet(Unrecorded') /\ Cardinality(Unrecorded') <= faults.killed + faults.raised + 1
    BY <1>1, <1>3, GrowsByOne
  <2> QED
    BY <1>3, <2>1 DEF CaptureRecorded, Falters
<1> QED
  BY <1>2, <1>3

(* The rows stay right when no money moves and no worker forgets a capture, *)
(* or one does because of a fault.                                           *)
LEMMA RowsKeepMoney ==
  ASSUME TypeInv, MoneyInv, NoMoney, Remembers \/ \E w \in Workers : Falters(w)
  PROVE  /\ (\A p \in PaymentIds : RowMoney(p)') /\ PaidOrderWasCaptured'
         /\ IsFiniteSet(Unrecorded)' /\ CaptureRecorded'
<1>1. \A p \in PaymentIds : RowMoney(p)'
  BY DEF MoneyInv, NoMoney, RowMoney
<1>2. PaidOrderWasCaptured'
  BY DEF MoneyInv, NoMoney, PaidOrderWasCaptured
<1>3. CASE Remembers
  <2>1. Unrecorded' \subseteq Unrecorded
    BY <1>3 DEF Remembers, NoMoney, Unrecorded
  <2> QED
    BY <1>1, <1>2, <1>3, <2>1, UnrecordedCounted DEF Remembers
<1>4. ASSUME NEW w \in Workers, Falters(w)
      PROVE  IsFiniteSet(Unrecorded)' /\ CaptureRecorded'
  <2>1. Unrecorded' \subseteq Unrecorded \cup {jobs[w].payment}
    BY <1>4 DEF Falters, NoMoney, Unrecorded
  <2> QED
    BY <1>4, <2>1, UnrecordedCounted
<1> QED
  BY <1>1, <1>2, <1>3, <1>4

(* The other requests are not disturbed by one that moves on. *)
LEMMA JobsKeepMoney ==
  ASSUME TypeInv, MoneyInv, NEW w \in Workers,
         \A v \in Workers : v # w => jobs'[v] = jobs[v],
         jobs'[w].payment \in {jobs[w].payment, None},
         \A p \in PaymentIds : /\ Exists(p)' => Exists(p) \/ p = jobs[w].payment
                               /\ payments[p].captured => payments'[p].captured
                               /\ bank[p].calls > 0 => bank'[p].calls > 0,
         JobMoney(w)'
  PROVE  \A v \in Workers : JobMoney(v)'
<1> SUFFICES ASSUME NEW v \in Workers, v # w PROVE JobMoney(v)'
  OBVIOUS
<1>1. jobs'[v] = jobs[v] /\ JobMoney(v)
  BY DEF MoneyInv
<1>2. jobs[v].at # "idle" => jobs[v].payment \in PaymentIds
  BY DEF TypeInv, JobsOK
<1>3. None \notin PaymentIds
  BY NoneAssumption
<1>4. CASE jobs[v].at = "create"
  <2>1. jobs[v].payment \in PaymentIds /\ ~Exists(jobs[v].payment)
        /\ \A u \in Workers \ {v} : jobs[u].payment # jobs[v].payment
    BY <1>1, <1>2, <1>4 DEF JobMoney
  <2>2. ~Exists(jobs[v].payment)'
    BY <1>1, <2>1
  <2>3. \A u \in Workers \ {v} : jobs'[u].payment # jobs'[v].payment
    BY <1>1, <1>3, <2>1
  <2> QED
    BY <1>1, <1>4, <2>1, <2>2, <2>3 DEF JobMoney, RefundPlaces, Exists
<1>5. CASE jobs[v].at # "create"
  BY <1>1, <1>2, <1>5 DEF JobMoney, RefundPlaces
<1> QED
  BY <1>4, <1>5

(* A request that moves on, or is answered, without touching the money. *)
LEMMA QuietMove ==
  ASSUME TypeInv, MoneyInv, NoMoney, NEW w \in Workers,
         \/ Answer(w)
         \/ \E place \in {"mark", "redirect", "lock", "authorize", "record_failed", "unlock"} :
              Goto(w, place)
         \/ jobs[w].at = "capture_lock" /\ Goto(w, "capture")
         \/ jobs[w].at = "refund_create" /\ Goto(w, "refund_process"),
         \/ UNCHANGED faults /\ jobs[w].at # "record_captured"
         \/ faults'.killed + faults'.raised = faults.killed + faults.raised + 1,
         \A p \in PaymentIds : Exists(p)' => Exists(p) \/ p = jobs[w].payment
  PROVE  MoneyInv'
<1>1. jobs \in [Workers -> Job] /\ JobMoney(w)
  BY DEF TypeInv, TypeOK, MoneyInv
<1> DEFINE Quiet == /\ \A v \in Workers : v # w => jobs'[v] = jobs[v]
                    /\ jobs'[w].payment \in {jobs[w].payment, None}
                    /\ JobMoney(w)'
<1>2. Quiet
  <2>1. CASE Answer(w)
    BY <1>1, <2>1, AnswerEffect DEF IdleJob, JobMoney, RefundPlaces
  <2>2. ASSUME NEW place \in {"mark", "redirect", "lock", "authorize", "record_failed", "unlock"},
               Goto(w, place)
        PROVE  Quiet
    BY <1>1, <2>2, GotoEffect DEF JobMoney, RefundPlaces, Places, CreatePlaces, CapturePlaces
  <2>3. CASE jobs[w].at = "capture_lock" /\ Goto(w, "capture")
    BY <1>1, <2>3, GotoEffect DEF JobMoney, RefundPlaces, Places, CapturePlaces
  <2>4. CASE jobs[w].at = "refund_create" /\ Goto(w, "refund_process")
    <3>1. jobs[w].payment \in PaymentIds
      BY <2>4 DEF TypeInv, JobsOK
    <3>2. payments'[jobs[w].payment].captured
      BY <1>1, <2>4, <3>1 DEF JobMoney, RefundPlaces, NoMoney
    <3> QED
      BY <1>1, <2>4, <3>2, GotoEffect DEF JobMoney, RefundPlaces, Places
  <2> QED
    BY <2>1, <2>2, <2>3, <2>4
<1>3. \A v \in Workers : JobMoney(v)'
  BY <1>2, JobsKeepMoney DEF NoMoney
<1>4. Remembers \/ Falters(w)
  BY <1>2 DEF Remembers, Falters
<1> QED
  BY <1>3, <1>4, RowsKeepMoney DEF MoneyInv

(* A step that is no request's. *)
LEMMA QuietStep ==
  ASSUME TypeInv, MoneyInv, NoMoney, UNCHANGED <<jobs, faults>>,
         \A p \in PaymentIds : Exists(p)' => Exists(p)
  PROVE  MoneyInv'
<1>1. \A w \in Workers : JobMoney(w)'
  BY DEF MoneyInv, JobMoney, TypeInv, JobsOK, NoMoney, RefundPlaces
<1> QED
  BY <1>1, RowsKeepMoney DEF MoneyInv, Remembers

(* A new status outside of Settled moves no money. *)
LEMMA StatusNoMoney ==
  ASSUME TypeInv, MoneyInv, NEW p \in PaymentIds, Exists(p),
         NEW s \in PaymentStatus \ (Settled \cup {"none"}), SetStatus(p, s),
         UNCHANGED <<orders, bank>>
  PROVE  NoMoney /\ \A q \in PaymentIds : Exists(q)' => Exists(q)
<1>1. /\ payments'[p].status = s
      /\ \A q \in PaymentIds : q # p => payments'[q] = payments[q]
      /\ \A q \in PaymentIds : /\ payments'[q].order = payments[q].order
                               /\ payments'[q].refunded = payments[q].refunded
                               /\ payments'[q].captured = payments[q].captured
  BY SetStatusEffect DEF TypeInv, TypeOK
<1>2. NoMoney
  BY <1>1 DEF NoMoney, MoneyInv, RowMoney
<1> QED
  BY <1>1, <1>2 DEF Exists

(* Neither does leaving the rows alone. *)
LEMMA UntouchedNoMoney ==
  ASSUME MoneyInv, UNCHANGED <<payments, bank>>,
         \A o \in Orders : orders'[o].status = "paid" => orders[o].status = "paid"
  PROVE  NoMoney /\ \A q \in PaymentIds : Exists(q)' => Exists(q)
BY DEF NoMoney, MoneyInv, RowMoney, Exists

(* A request that begins knows only what it has just read. *)
LEMMA BeginMoney ==
  ASSUME TypeInv, MoneyInv, NEW w \in Workers, Begin(w)
  PROVE  MoneyInv'
<1>0. jobs \in [Workers -> Job] /\ None \notin PaymentIds /\ jobs[w].at = "idle"
  BY NoneAssumption DEF TypeInv, TypeOK, Begin, LoadOrder, LoadForCapture, LoadForRefund
<1>1. UNCHANGED <<orders, payments, bank, faults>>
  BY DEF Begin, LoadOrder, LoadForCapture, LoadForRefund
<1> DEFINE Begun(j) ==
      /\ j.payment \in PaymentIds
      /\ \/ j.at = "create" /\ ~Exists(j.payment)
         \/ j.at = "capture_lock" /\ Exists(j.payment)
         \/ j.at = "refund_create" /\ payments[j.payment].captured /\ Exists(j.payment)
      /\ j.at = "create" => \A v \in Workers : jobs[v].payment # j.payment
<1>2. \E j : jobs' = [jobs EXCEPT ![w] = j] /\ Begun(j)
  <2>1. CASE \E o \in Orders, c \in Channels, p \in PaymentIds : LoadOrder(w, o, c, p)
    <3>1. PICK o \in Orders, c \in Channels, p \in PaymentIds : LoadOrder(w, o, c, p)
      BY <2>1
    <3> DEFINE k == [IdleJob EXCEPT !.at = "create", !.channel = c, !.order = o, !.payment = p]
    <3>2. jobs' = [jobs EXCEPT ![w] = k] /\ p \in FreshPayments
      BY <3>1 DEF LoadOrder
    <3>3. k.at = "create" /\ k.payment = p
      BY DEF IdleJob
    <3> HIDE DEF k
    <3>4. Begun(k)
      BY <3>2, <3>3 DEF FreshPayments
    <3> QED
      BY <3>2, <3>4
  <2>2. CASE \E p \in PaymentIds, a \in Amounts : LoadForCapture(w, p, a)
    <3>1. PICK p \in PaymentIds, a \in Amounts : LoadForCapture(w, p, a)
      BY <2>2
    <3> DEFINE amt == IF a = 0 THEN Amount(p) ELSE a
               k == [IdleJob EXCEPT !.at = "capture_lock", !.payment = p, !.amount = amt]
    <3>2. jobs' = [jobs EXCEPT ![w] = k] /\ payments[p].status = "authorized"
      BY <3>1 DEF LoadForCapture, Capturable
    <3>3. Exists(p) /\ payments[p].order \in Orders
      BY <3>2 DEF Exists, TypeInv, RowsOK
    <3>4. k.at = "capture_lock" /\ k.payment = p
      BY DEF IdleJob
    <3> HIDE DEF k, amt
    <3>5. Begun(k)
      BY <3>3, <3>4
    <3> QED
      BY <3>2, <3>5
  <2>3. CASE \E p \in PaymentIds, a \in Amounts, r \in RefundIds : LoadForRefund(w, p, a, r)
    <3>1. PICK p \in PaymentIds, a \in Amounts, r \in RefundIds : LoadForRefund(w, p, a, r)
      BY <2>3
    <3> DEFINE k == [IdleJob EXCEPT !.at = "refund_create", !.payment = p, !.amount = a, !.refund = r]
    <3>2. jobs' = [jobs EXCEPT ![w] = k] /\ payments[p].status \in {"captured", "partially_refunded"}
      BY <3>1 DEF LoadForRefund, RefundableStatus
    <3>3. Exists(p) /\ payments[p].captured
      BY <3>2 DEF Exists, MoneyInv, RowMoney, Settled
    <3>4. k.at = "refund_create" /\ k.payment = p
      BY DEF IdleJob
    <3> HIDE DEF k
    <3>5. Begun(k)
      BY <3>3, <3>4
    <3> QED
      BY <3>2, <3>5
  <2> QED
    BY <2>1, <2>2, <2>3 DEF Begin
<1>3. PICK j : jobs' = [jobs EXCEPT ![w] = j] /\ Begun(j)
  BY <1>2
<1>4. jobs'[w] = j /\ \A v \in Workers : v # w => jobs'[v] = jobs[v]
  BY <1>0, <1>3
<1>5. \A v \in Workers : JobMoney(v) /\ (jobs[v].at # "idle" => jobs[v].payment \in PaymentIds)
  BY DEF MoneyInv, TypeInv, JobsOK
<1>6. ASSUME NEW v \in Workers PROVE JobMoney(v)'
  <2>1. CASE v = w
    BY <1>1, <1>3, <1>4, <2>1 DEF JobMoney, RefundPlaces, Exists
  <2>2. CASE v # w /\ jobs[v].at = "create"
    <3>1. ~Exists(jobs[v].payment) /\ \A u \in Workers \ {v} : jobs[u].payment # jobs[v].payment
      BY <1>5, <2>2 DEF JobMoney
    <3>2. j.payment # jobs[v].payment
      BY <1>3, <3>1
    <3> QED
      BY <1>1, <1>4, <2>2, <3>1, <3>2 DEF JobMoney, RefundPlaces, Exists
  <2>3. CASE v # w /\ jobs[v].at # "create"
    BY <1>1, <1>4, <1>5, <2>3 DEF JobMoney, RefundPlaces
  <2> QED
    BY <2>1, <2>2, <2>3
<1>7. NoMoney
  BY <1>1, UntouchedNoMoney
<1>8. Remembers
  BY <1>0, <1>1, <1>4 DEF Remembers
<1> QED
  BY <1>6, <1>7, <1>8, RowsKeepMoney DEF MoneyInv

(* A row is inserted for a payment that did not exist. *)
LEMMA InsertMoney ==
  ASSUME TypeInv, MoneyInv, NEW w \in Workers, jobs[w].at = "create",
         NEW row \in Payment, row.status \notin Settled, row.refunded = 0, ~row.captured,
         payments' = [payments EXCEPT ![jobs[w].payment] = row],
         UNCHANGED <<orders, bank, faults>>, Answer(w) \/ Goto(w, "mark")
  PROVE  MoneyInv'
<1> DEFINE p == jobs[w].payment
<1>1. p \in PaymentIds /\ ~Exists(p)
  BY DEF TypeInv, JobsOK, MoneyInv, JobMoney
<1>2. row.captured = payments[p].captured /\ ~payments[p].captured /\ ~(row.refunded > 0)
  BY <1>1, FieldTypes DEF TypeInv, RowsOK, Payment
<1>3. payments'[p] = row /\ \A q \in PaymentIds : q # p => payments'[q] = payments[q]
  BY <1>1 DEF TypeInv, TypeOK
<1>4. NoMoney
  <2>1. UNCHANGED bank /\ \A o \in Orders : orders'[o].status = "paid" => orders[o].status = "paid"
    OBVIOUS
  <2>2. \A q \in PaymentIds : RowMoney(q)
    BY DEF MoneyInv
  <2> HIDE DEF p
  <2>3. ASSUME NEW q \in PaymentIds PROVE
          /\ payments'[q].captured = payments[q].captured
          /\ payments[q].captured => payments'[q].order = payments[q].order
          /\ payments'[q].status \in Settled \/ payments'[q].refunded > 0 => payments[q].captured
    <3>1. CASE q = p
      BY <1>2, <1>3, <3>1, Zenon
    <3>2. CASE q # p
      BY <1>3, <2>2, <3>2 DEF RowMoney
    <3> QED
      BY <3>1, <3>2
  <2> QED
    BY <2>1, <2>3 DEF NoMoney
<1>5. \A q \in PaymentIds : Exists(q)' => Exists(q) \/ q = p
  BY <1>3 DEF Exists
<1> QED
  BY <1>4, <1>5, QuietMove

(* The bank takes the money; from here on only the worker knows of it. *)
LEMMA CaptureMoney ==
  ASSUME TypeInv, MoneyInv, NEW w \in Workers, GatewayCapture(w)
  PROVE  MoneyInv'
<1> DEFINE p == jobs[w].payment
           a == jobs[w].amount
           taken == [calls |-> bank[p].calls + 1, total |-> bank[p].total + a]
<1>1. /\ p \in PaymentIds /\ jobs[w].at = "capture"
      /\ UNCHANGED <<orders, payments, faults>> /\ jobs \in [Workers -> Job]
  BY DEF TypeInv, TypeOK, JobsOK, GatewayCapture
<1>2. CASE bank' = [bank EXCEPT ![p] = taken] /\ Goto(w, "record_captured")
  <2>1. bank[p] \in Captured
    BY <1>1 DEF TypeInv, TypeOK
  <2>2. taken.calls > 0
    BY <2>1 DEF Captured
  <2> HIDE DEF taken
  <2>3. bank'[p].calls > 0 /\ \A q \in PaymentIds : q # p => bank'[q] = bank[q]
    BY <1>1, <1>2, <2>2 DEF TypeInv, TypeOK
  <2>4. /\ jobs'[w].at = "record_captured" /\ jobs'[w].payment = p
        /\ \A v \in Workers : v # w => jobs'[v] = jobs[v]
    BY <1>1, <1>2, GotoEffect DEF Places, CapturePlaces
  <2>5. JobMoney(w)'
    BY <2>3, <2>4 DEF JobMoney, RefundPlaces
  <2>6. \A v \in Workers : JobMoney(v)'
    BY <1>1, <2>3, <2>4, <2>5, JobsKeepMoney DEF Exists
  <2>7. \A q \in PaymentIds : RowMoney(q)'
    BY <1>1, <2>3 DEF MoneyInv, RowMoney
  <2>8. PaidOrderWasCaptured'
    BY <1>1, <2>3 DEF MoneyInv, PaidOrderWasCaptured
  <2>9. Unrecorded' \subseteq Unrecorded
    BY <1>1, <2>3, <2>4 DEF Unrecorded
  <2> QED
    BY <1>1, <2>6, <2>7, <2>8, <2>9, UnrecordedCounted DEF MoneyInv
<1>3. CASE UNCHANGED bank /\ Goto(w, "record_failed")
  BY <1>1, <1>3, UntouchedNoMoney, QuietMove
<1> QED
  BY <1>2, <1>3 DEF GatewayCapture

(* The charge is put on record, and the order is paid. *)
LEMMA RecordMoney ==
  ASSUME TypeInv, MoneyInv, NEW w \in Workers, RecordCaptured(w)
  PROVE  MoneyInv'
<1> DEFINE p == jobs[w].payment
           row == [payments[p] EXCEPT !.status = "captured", !.captured = TRUE]
<1>1. /\ p \in PaymentIds /\ jobs[w].at = "record_captured" /\ bank[p].calls > 0 /\ Exists(p)
      /\ payments[p] \in Payment /\ UNCHANGED <<bank, faults>> /\ jobs \in [Workers -> Job]
      /\ payments[p].order \in Orders
  BY DEF TypeInv, TypeOK, JobsOK, RowsOK, MoneyInv, JobMoney, RecordCaptured
<1>2. row.status = "captured" /\ row.captured /\ row.order = payments[p].order
  BY <1>1 DEF Payment
<1>3. payments' = [payments EXCEPT ![p] = row]
  BY <1>1 DEF RecordCaptured, StampCaptured
<1> HIDE DEF row
<1>4. /\ payments'[p].captured /\ payments'[p].order = payments[p].order
      /\ payments'[p].status = "captured"
      /\ \A q \in PaymentIds : q # p => payments'[q] = payments[q]
  BY <1>1, <1>2, <1>3 DEF TypeInv, TypeOK
<1>5. Goto(w, "unlock") /\ SetOrder(payments[p].order, "paid")
  BY DEF RecordCaptured
<1>6. /\ jobs'[w].at = "unlock" /\ jobs'[w].payment = p
      /\ \A v \in Workers : v # w => jobs'[v] = jobs[v]
  BY <1>1, <1>5, GotoEffect DEF Places
<1>7. JobMoney(w)'
  BY <1>6 DEF JobMoney, RefundPlaces
<1>8. \A v \in Workers : JobMoney(v)'
  BY <1>1, <1>4, <1>6, <1>7, JobsKeepMoney DEF Exists
<1>9. \A q \in PaymentIds : RowMoney(q)'
  BY <1>1, <1>4 DEF MoneyInv, RowMoney
<1>10. PaidOrderWasCaptured'
  <2>1. \A o \in Orders : o # payments[p].order => orders'[o] = orders[o]
    BY <1>5, SetOrderEffect DEF TypeInv, TypeOK, OrderStatus
  <2>2. ASSUME NEW o \in Orders, orders'[o].status = "paid"
        PROVE  \E q \in PaymentIds : payments'[q].order = o /\ payments'[q].captured /\ bank'[q].calls > 0
    <3>1. CASE o = payments[p].order
      BY <1>1, <1>4, <3>1
    <3>2. CASE o # payments[p].order
      <4>1. PICK q \in PaymentIds : payments[q].order = o /\ payments[q].captured /\ bank[q].calls > 0
        BY <2>1, <2>2, <3>2 DEF MoneyInv, PaidOrderWasCaptured
      <4> QED
        BY <1>1, <1>4, <4>1
    <3> QED
      BY <3>1, <3>2
  <2> QED
    BY <2>2 DEF PaidOrderWasCaptured
<1>11. Unrecorded' \subseteq Unrecorded
  BY <1>1, <1>4, <1>6 DEF Unrecorded
<1> QED
  BY <1>1, <1>8, <1>9, <1>10, <1>11, UnrecordedCounted DEF MoneyInv

(* Refunding needs a captured payment: the request saw that when it loaded it, *)
(* and a payment that has been captured stays so.                              *)
LEMMA RefundMoney ==
  ASSUME TypeInv, MoneyInv, NEW w \in Workers, ProcessRefund(w)
  PROVE  MoneyInv'
<1> DEFINE p == jobs[w].payment
           total == TotalAfter(p, jobs[w].amount)
           row == [payments[p] EXCEPT !.refunded = total, !.status = StatusAfter(p, total)]
<1>1. /\ p \in PaymentIds /\ payments[p] \in Payment /\ payments[p].captured /\ Exists(p)
      /\ jobs[w].at = "refund_process" /\ Answer(w) /\ UNCHANGED <<orders, bank, faults>>
  BY DEF TypeInv, TypeOK, JobsOK, MoneyInv, JobMoney, ProcessRefund, RefundPlaces
<1>2. CASE payments' = [payments EXCEPT ![p].refunded = total, ![p].status = StatusAfter(p, total)]
  <2>1. row.captured = payments[p].captured /\ row.order = payments[p].order
    BY <1>1 DEF Payment
  <2>2. payments' = [payments EXCEPT ![p] = row]
    BY <1>1, <1>2
  <2> HIDE DEF row
  <2>3. payments'[p] = row /\ \A q \in PaymentIds : q # p => payments'[q] = payments[q]
    BY <1>1, <2>2 DEF TypeInv, TypeOK
  <2>4. NoMoney
    BY <1>1, <2>1, <2>3 DEF NoMoney, MoneyInv, RowMoney
  <2>5. \A q \in PaymentIds : Exists(q)' => Exists(q)
    BY <1>1, <2>3 DEF Exists
  <2> QED
    BY <1>1, <2>4, <2>5, QuietMove
<1>3. CASE UNCHANGED payments
  BY <1>1, <1>3, UntouchedNoMoney, QuietMove
<1> QED
  BY <1>2, <1>3 DEF ProcessRefund

(* Every step keeps what is known of charges. *)
LEMMA MoneyStep == TypeInv /\ MoneyInv /\ [Next]_vars => MoneyInv'
<1> SUFFICES ASSUME TypeInv, MoneyInv, [Next]_vars PROVE MoneyInv'
  OBVIOUS
<1>0. JobsOK /\ RowsOK /\ TypeOK
  BY DEF TypeInv
<1>1. CASE UNCHANGED <<orders, payments, jobs, bank, faults>>
  BY <1>1, UntouchedNoMoney, QuietStep
<1>2. ASSUME NEW w \in Workers, RejectPayment(w) PROVE MoneyInv'
  <2> DEFINE row == [NoPayment EXCEPT !.status = "failed", !.order = jobs[w].order]
  <2>1. jobs[w].order \in Orders
    BY <1>0, <1>2 DEF RejectPayment, JobsOK
  <2>2. row \in Payment /\ row.status \notin Settled /\ row.refunded = 0 /\ ~row.captured
    BY <2>1 DEF NoPayment, Payment, PaymentStatus, Settled
  <2>3. payments' = [payments EXCEPT ![jobs[w].payment] = row]
    BY <1>2 DEF RejectPayment
  <2> HIDE DEF row
  <2> QED
    BY <1>2, <2>2, <2>3, InsertMoney DEF RejectPayment
<1>3. ASSUME NEW w \in Workers, InsertPayment(w) PROVE MoneyInv'
  <2> DEFINE row == [NoPayment EXCEPT !.status = InitialStatus(jobs[w].channel), !.order = jobs[w].order]
  <2>1. jobs[w].order \in Orders
    BY <1>0, <1>3 DEF InsertPayment, JobsOK
  <2>2. InitialStatus(jobs[w].channel) \in {"created", "processing"}
    BY DEF InitialStatus
  <2>3. row \in Payment /\ row.status \notin Settled /\ row.refunded = 0 /\ ~row.captured
    BY <2>1, <2>2 DEF NoPayment, Payment, PaymentStatus, Settled
  <2>4. payments' = [payments EXCEPT ![jobs[w].payment] = row]
    BY <1>3 DEF InsertPayment
  <2> HIDE DEF row
  <2> QED
    BY <1>3, <2>3, <2>4, InsertMoney DEF InsertPayment
<1>4. ASSUME NEW w \in Workers, MarkAttempted(w) PROVE MoneyInv'
  <2>1. /\ jobs[w].at = "mark" /\ SetOrder(jobs[w].order, "attempted")
        /\ UNCHANGED <<payments, bank, faults>>
        /\ Answer(w) \/ Goto(w, "lock") \/ Goto(w, "redirect") \/ Goto(w, "authorize")
    BY <1>4 DEF MarkAttempted
  <2>2. jobs[w].order \in Orders
    BY <1>0, <2>1 DEF JobsOK
  <2>3. \A o \in Orders : orders'[o].status = "paid" => orders[o].status = "paid"
    BY <1>0, <2>1, <2>2, SetOrderEffect DEF TypeOK, OrderStatus
  <2> QED
    BY <2>1, <2>3, UntouchedNoMoney, QuietMove
<1>5. ASSUME NEW w \in Workers, LockNewPayment(w) PROVE MoneyInv'
  <2>1. /\ jobs[w].at = "lock" /\ jobs[w].payment \in PaymentIds /\ Exists(jobs[w].payment)
        /\ UNCHANGED <<orders, bank, faults>>
    BY <1>0, <1>5 DEF LockNewPayment, JobsOK
  <2>2. CASE Goto(w, "authorize") /\ UNCHANGED payments
    BY <2>1, <2>2, UntouchedNoMoney, QuietMove
  <2>3. CASE SetStatus(jobs[w].payment, "failed") /\ Answer(w)
    BY <2>1, <2>3, StatusNoMoney, QuietMove DEF PaymentStatus, Settled
  <2> QED
    BY <1>5, <2>2, <2>3 DEF LockNewPayment
<1>6. ASSUME NEW w \in Workers, NEW s \in Outcomes, Authorize(w, s) PROVE MoneyInv'
  <2>1. /\ jobs[w].at = "authorize" /\ jobs[w].payment \in PaymentIds /\ Exists(jobs[w].payment)
        /\ UNCHANGED <<orders, bank, faults>> /\ SetStatus(jobs[w].payment, s)
        /\ s \in PaymentStatus \ (Settled \cup {"none"})
        /\ Goto(w, "unlock") \/ Answer(w)
    BY <1>0, <1>6 DEF Authorize, JobsOK, Outcomes, PaymentStatus, Settled
  <2> QED
    BY <2>1, StatusNoMoney, QuietMove
<1>7. ASSUME NEW w \in Workers, StoreRedirect(w) PROVE MoneyInv'
  <2> DEFINE p == jobs[w].payment
             row == [payments[p] EXCEPT !.redirect = TRUE]
  <2>1. p \in PaymentIds /\ payments[p] \in Payment /\ Exists(p)
    BY <1>0, <1>7 DEF StoreRedirect, JobsOK, TypeOK
  <2>2. row.status = payments[p].status /\ row.order = payments[p].order
        /\ row.refunded = payments[p].refunded /\ row.captured = payments[p].captured
    BY <2>1 DEF Payment
  <2>3. payments' = [payments EXCEPT ![p] = row]
    BY <1>7 DEF StoreRedirect
  <2> HIDE DEF row
  <2>4. payments'[p] = row /\ \A q \in PaymentIds : q # p => payments'[q] = payments[q]
    BY <1>0, <2>1, <2>3 DEF TypeOK
  <2>5. UNCHANGED <<orders, bank, faults>> /\ Answer(w) /\ jobs[w].at = "redirect"
    BY <1>7 DEF StoreRedirect
  <2>6. NoMoney /\ \A q \in PaymentIds : Exists(q)' => Exists(q)
    BY <2>1, <2>2, <2>4, <2>5 DEF NoMoney, MoneyInv, RowMoney, Exists
  <2> QED
    BY <2>5, <2>6, QuietMove
<1>8. ASSUME NEW w \in Workers, ReleaseLock(w) \/ LockForCapture(w) \/ InsertRefund(w) PROVE MoneyInv'
  <2>1. /\ UNCHANGED <<orders, payments, bank, faults>> /\ jobs[w].at # "record_captured"
        /\ \/ Answer(w)
           \/ jobs[w].at = "capture_lock" /\ Goto(w, "capture")
           \/ jobs[w].at = "refund_create" /\ Goto(w, "refund_process")
    BY <1>8 DEF ReleaseLock, LockForCapture, InsertRefund
  <2> QED
    BY <2>1, UntouchedNoMoney, QuietMove
<1>9. ASSUME NEW w \in Workers, RecordFailed(w) PROVE MoneyInv'
  <2>1. /\ jobs[w].at = "record_failed" /\ jobs[w].payment \in PaymentIds /\ Exists(jobs[w].payment)
        /\ SetStatus(jobs[w].payment, "failed") /\ Goto(w, "unlock")
        /\ UNCHANGED <<orders, bank, faults>>
    BY <1>0, <1>9 DEF RecordFailed, JobsOK
  <2> QED
    BY <2>1, StatusNoMoney, QuietMove DEF PaymentStatus, Settled
<1>10. ASSUME NEW w \in Workers, CaptureRaises(w) \/ Crash(w) PROVE MoneyInv'
  <2>1. /\ UNCHANGED <<orders, payments, bank>>
        /\ Answer(w) \/ Goto(w, "unlock")
    BY <1>10 DEF CaptureRaises, Crash
  <2>2. \/ faults' = [faults EXCEPT !.raised = @ + 1]
        \/ faults' = [faults EXCEPT !.killed = @ + 1]
    BY <1>10 DEF CaptureRaises, Crash
  <2>3. faults'.killed + faults'.raised = faults.killed + faults.raised + 1
    BY <1>0, <2>2, FaultTypes, BoundAssumption DEF TypeOK
  <2> QED
    BY <2>1, <2>3, UntouchedNoMoney, QuietMove
<1>11. ASSUME NEW S \in SUBSET PaymentIds, MarkAsFailed(S) PROVE MoneyInv'
  <2> DEFINE open == {p \in S : payments[p].status \in {"created", "processing"}}
             row(p) == [payments[p] EXCEPT !.status = "failed"]
  <2>1. payments' = [p \in PaymentIds |-> IF p \in open THEN row(p) ELSE payments[p]]
    BY <1>11 DEF MarkAsFailed
  <2>2. \A p \in PaymentIds : payments[p] \in Payment
    BY <1>0 DEF TypeOK
  <2>3. \A p \in PaymentIds : /\ row(p).status = "failed" /\ row(p).order = payments[p].order
                              /\ row(p).refunded = payments[p].refunded
                              /\ row(p).captured = payments[p].captured
    BY <2>2 DEF Payment
  <2>4. \A p \in open : Exists(p)
    BY DEF Exists
  <2> HIDE DEF open, row
  <2>5. \A q \in PaymentIds : /\ payments'[q].status \in {"failed", payments[q].status}
                              /\ Exists(q)' => Exists(q)
                              /\ payments'[q].order = payments[q].order
                              /\ payments'[q].refunded = payments[q].refunded
                              /\ payments'[q].captured = payments[q].captured
    BY <2>1, <2>3, <2>4 DEF Exists
  <2>6. UNCHANGED <<orders, bank, jobs, faults>>
    BY <1>11 DEF MarkAsFailed
  <2>7. NoMoney
    BY <2>5, <2>6 DEF NoMoney, MoneyInv, RowMoney, Settled
  <2> QED
    BY <2>5, <2>6, <2>7, QuietStep
<1>12. ASSUME NEW p \in PaymentIds, NEW s \in PaymentStatus, NetbankingCallback(p, s) PROVE MoneyInv'
  <2>1. /\ payments[p].redirect /\ s \in {"authorized", "failed"} /\ SetStatus(p, s)
        /\ UNCHANGED <<orders, bank, jobs, faults>>
    BY <1>12 DEF NetbankingCallback
  <2>2. Exists(p)
    BY <1>0, <2>1 DEF RowsOK
  <2> QED
    BY <2>1, <2>2, StatusNoMoney, QuietStep DEF Settled
<1>13. ASSUME UNCHANGED <<payments, jobs, bank, faults>>,
              \/ \E o \in Orders : CreateOrder(o) \/ ExpiryPasses(o)
              \/ ExpireStaleOrders
       PROVE  MoneyInv'
  <2> DEFINE Unpaid == \A o \in Orders : orders'[o].status = "paid" => orders[o].status = "paid"
  <2>1. \A o \in Orders : /\ orders[o] \in Order
                          /\ [orders[o] EXCEPT !.overdue = TRUE].status = orders[o].status
                          /\ [orders[o] EXCEPT !.status = "expired"].status = "expired"
    BY <1>0 DEF TypeOK, Order
  <2>2. ASSUME NEW o \in Orders, CreateOrder(o) PROVE Unpaid
    <3>1. SetOrder(o, "created")
      BY <2>2 DEF CreateOrder
    <3> QED
      BY <1>0, <3>1, SetOrderEffect DEF TypeOK, OrderStatus
  <2>3. ASSUME NEW o \in Orders, ExpiryPasses(o) PROVE Unpaid
    <3>1. orders' = [orders EXCEPT ![o] = [orders[o] EXCEPT !.overdue = TRUE]]
      BY <2>3 DEF ExpiryPasses
    <3> QED
      BY <1>0, <2>1, <3>1 DEF TypeOK
  <2>4. ASSUME ExpireStaleOrders PROVE Unpaid
    BY <2>1, <2>4 DEF ExpireStaleOrders
  <2>5. Unpaid
    BY <1>13, <2>2, <2>3, <2>4
  <2> QED
    BY <1>13, <2>5, UntouchedNoMoney, QuietStep
<1>14. \/ UNCHANGED <<orders, payments, jobs, bank, faults>>
       \/ \E w \in Workers : \/ Begin(w) \/ Continue(w) \/ CaptureRaises(w) \/ Crash(w)
       \/ \E S \in SUBSET PaymentIds : MarkAsFailed(S)
       \/ \E p \in PaymentIds, s \in PaymentStatus : NetbankingCallback(p, s)
       \/ /\ UNCHANGED <<payments, jobs, bank, faults>>
          /\ \/ \E o \in Orders : CreateOrder(o) \/ ExpiryPasses(o)
             \/ ExpireStaleOrders
  BY DEF Next, vars, CreateOrder, ExpiryPasses, ExpireStaleOrders, LockExpires, Quiescent
<1> QED
  BY <1>1, <1>2, <1>3, <1>4, <1>5, <1>6, <1>7, <1>8, <1>9, <1>10, <1>11, <1>12, <1>13, <1>14,
     BeginMoney, CaptureMoney, RecordMoney, RefundMoney, ContinueCases

(* What is known of charges is so in every state. *)
LEMMA MoneyInvariant == Spec => []MoneyInv
<1>1. Init => MoneyInv
  <2> SUFFICES ASSUME Init PROVE MoneyInv
    OBVIOUS
  <2>1. Unrecorded = {}
    BY DEF Init, Unrecorded, NoCapture
  <2>2. IsFiniteSet(Unrecorded) /\ CaptureRecorded
    BY <2>1, FS_EmptySet DEF Init, CaptureRecorded, NoFaults
  <2>3. (\A w \in Workers : JobMoney(w)) /\ (\A p \in PaymentIds : RowMoney(p)) /\ PaidOrderWasCaptured
    BY DEF Init, JobMoney, RowMoney, PaidOrderWasCaptured, IdleJob, NoPayment, RefundPlaces, Settled
  <2> QED
    BY <2>2, <2>3 DEF MoneyInv
<1>2. TypeInv /\ MoneyInv /\ [Next]_vars => MoneyInv'
  BY MoneyStep
<1> QED
  BY <1>1, <1>2, TypeInvariant, PTL DEF Spec

(* No payment counts as captured or refunded, and no order as paid, unless the *)
(* bank accepted a capture of it, in whatever amount, negative ones included;  *)
(* and each crash or exception makes the code lose at most one such capture.   *)
THEOREM MoneyCorrect == Spec => [](SettledWasCaptured /\ PaidOrderWasCaptured /\ CaptureRecorded)
<1>1. TypeInv /\ MoneyInv => SettledWasCaptured /\ PaidOrderWasCaptured /\ CaptureRecorded
  BY DEF TypeInv, MoneyInv, RowMoney, Settled, SettledWasCaptured
<1> QED
  BY <1>1, TypeInvariant, MoneyInvariant, PTL

-----------------------------------------------------------------------------
(* The refund ledger *)

(* What the ledger sees of the rows does not change. *)
LedgerRowsKept ==
  \A p \in PaymentIds : /\ payments'[p].captured = payments[p].captured
                        /\ payments'[p].refunded = payments[p].refunded
                        /\ payments[p].captured => payments'[p].order = payments[p].order

(* Only two statements of the code write something the ledger sees: recording *)
(* a capture and processing a refund.                                         *)
LEMMA LedgerRows ==
  ASSUME TypeInv, MoneyInv, [Next]_vars
  PROVE  LedgerRowsKept \/ \E w \in Workers : RecordCaptured(w) \/ ProcessRefund(w)
<1>0. JobsOK /\ RowsOK /\ payments \in [PaymentIds -> Payment]
  BY DEF TypeInv, TypeOK
<1>1. CASE UNCHANGED payments
  BY <1>1 DEF LedgerRowsKept
<1>2. ASSUME NEW p \in PaymentIds, NEW s \in PaymentStatus, SetStatus(p, s) PROVE LedgerRowsKept
  BY <1>0, <1>2, SetStatusEffect DEF LedgerRowsKept
<1>3. ASSUME NEW w \in Workers, RejectPayment(w) \/ InsertPayment(w) PROVE LedgerRowsKept
  <2> DEFINE p == jobs[w].payment
  <2> DEFINE blank(s) == [NoPayment EXCEPT !.status = s, !.order = jobs[w].order]
  <2>0. \A s : blank(s).captured = FALSE /\ blank(s).refunded = 0
    BY DEF NoPayment
  <2>1. PICK s : payments' = [payments EXCEPT ![p] = blank(s)]
    BY <1>3 DEF RejectPayment, InsertPayment
  <2>2. p \in PaymentIds /\ ~Exists(p)
    BY <1>0, <1>3 DEF RejectPayment, InsertPayment, JobsOK, MoneyInv, JobMoney
  <2>3. payments[p].captured = FALSE /\ payments[p].refunded = 0
    BY <1>0, <2>2, FieldTypes DEF RowsOK, TypeInv
  <2> HIDE DEF p, blank
  <2> QED
    BY <1>0, <2>0, <2>1, <2>2, <2>3 DEF LedgerRowsKept
<1>4. ASSUME NEW w \in Workers, StoreRedirect(w) PROVE LedgerRowsKept
  <2> DEFINE p == jobs[w].payment
             row == [payments[p] EXCEPT !.redirect = TRUE]
  <2>1. p \in PaymentIds
    BY <1>0, <1>4 DEF StoreRedirect, JobsOK
  <2>2. row.order = payments[p].order /\ row.refunded = payments[p].refunded
        /\ row.captured = payments[p].captured
    BY <1>0, <2>1 DEF Payment
  <2>3. payments' = [payments EXCEPT ![p] = row]
    BY <1>4 DEF StoreRedirect
  <2> HIDE DEF p, row
  <2> QED
    BY <1>0, <2>1, <2>2, <2>3 DEF LedgerRowsKept
<1>5. ASSUME NEW S \in SUBSET PaymentIds, MarkAsFailed(S) PROVE LedgerRowsKept
  <2> DEFINE open == {p \in S : payments[p].status \in {"created", "processing"}}
             row(p) == [payments[p] EXCEPT !.status = "failed"]
  <2>1. payments' = [p \in PaymentIds |-> IF p \in open THEN row(p) ELSE payments[p]]
    BY <1>5 DEF MarkAsFailed
  <2>2. \A p \in PaymentIds : /\ row(p).order = payments[p].order
                              /\ row(p).refunded = payments[p].refunded
                              /\ row(p).captured = payments[p].captured
    BY <1>0 DEF Payment
  <2> HIDE DEF open, row
  <2> QED
    BY <2>1, <2>2 DEF LedgerRowsKept
<1>6. ASSUME NEW w \in Workers, LockNewPayment(w) \/ RecordFailed(w) \/ \E s \in Outcomes : Authorize(w, s)
      PROVE  LedgerRowsKept
  <2>1. /\ jobs[w].payment \in PaymentIds
        /\ UNCHANGED payments \/ \E s \in PaymentStatus : SetStatus(jobs[w].payment, s)
    BY <1>0, <1>6 DEF LockNewPayment, RecordFailed, Authorize, JobsOK, Outcomes, PaymentStatus
  <2> QED
    BY <1>2, <2>1 DEF LedgerRowsKept
<1>7. \/ UNCHANGED payments
      \/ \E w \in Workers : \/ RejectPayment(w) \/ InsertPayment(w) \/ LockNewPayment(w)
                            \/ StoreRedirect(w) \/ RecordCaptured(w) \/ RecordFailed(w)
                            \/ ProcessRefund(w)
                            \/ \E s \in Outcomes : Authorize(w, s)
      \/ \E S \in SUBSET PaymentIds : MarkAsFailed(S)
      \/ \E p \in PaymentIds, s \in PaymentStatus : NetbankingCallback(p, s)
  BY ContinueCases
  DEF Next, Begin, vars, LoadOrder, LoadForCapture, LoadForRefund, MarkAttempted,
         ReleaseLock, LockForCapture, GatewayCapture, InsertRefund, CaptureRaises, Crash,
         CreateOrder, ExpiryPasses, ExpireStaleOrders, LockExpires, Quiescent
<1>8. ASSUME NEW p \in PaymentIds, NEW s \in PaymentStatus, NetbankingCallback(p, s) PROVE LedgerRowsKept
  BY <1>2, <1>8 DEF NetbankingCallback
<1> QED
  BY <1>1, <1>3, <1>4, <1>5, <1>6, <1>7, <1>8

(* Two more effects on the rows, for the steps that do write them. *)
LEMMA CaptureRow ==
  ASSUME TypeInv, NEW w \in Workers, RecordCaptured(w)
  PROVE  LET p == jobs[w].payment IN
         /\ p \in PaymentIds /\ payments'[p].captured = TRUE
         /\ payments'[p].order = payments[p].order /\ payments[p].order \in Orders
         /\ payments'[p].refunded = payments[p].refunded
         /\ \A q \in PaymentIds : q # p => payments'[q] = payments[q]
<1> DEFINE p == jobs[w].payment
           row == [payments[p] EXCEPT !.status = "captured", !.captured = TRUE]
<1>1. p \in PaymentIds /\ payments[p] \in Payment /\ payments[p].order \in Orders
  BY DEF TypeInv, TypeOK, JobsOK, RowsOK, RecordCaptured
<1>2. row.captured = TRUE /\ row.order = payments[p].order /\ row.refunded = payments[p].refunded
  BY <1>1 DEF Payment
<1>3. payments' = [payments EXCEPT ![p] = row]
  BY <1>1 DEF RecordCaptured, StampCaptured
<1> HIDE DEF row
<1> QED
  BY <1>1, <1>2, <1>3 DEF TypeInv, TypeOK

(* A refund adds to its payment's total and to nothing else. *)
LEMMA RefundRow ==
  ASSUME TypeInv, NEW p \in PaymentIds, NEW a \in Nat,
         payments' = [payments EXCEPT ![p].refunded = TotalAfter(p, a),
                                      ![p].status = StatusAfter(p, TotalAfter(p, a))]
  PROVE  /\ payments'[p].captured = payments[p].captured
         /\ payments'[p].order = payments[p].order
         /\ payments'[p].refunded = payments[p].refunded + a
         /\ \A q \in PaymentIds : q # p => payments'[q] = payments[q]
<1> DEFINE total == TotalAfter(p, a)
           row == [payments[p] EXCEPT !.refunded = total, !.status = StatusAfter(p, total)]
<1>1. payments[p] \in Payment
  BY DEF TypeInv, TypeOK
<1>2. row.captured = payments[p].captured /\ row.order = payments[p].order
      /\ row.refunded = payments[p].refunded + a
  BY <1>1 DEF Payment, TotalAfter
<1>3. payments' = [payments EXCEPT ![p] = row]
  BY <1>1
<1> HIDE DEF row, total
<1> QED
  BY <1>2, <1>3 DEF TypeInv, TypeOK

(* The refund a request works on is its own, fits the payment's amount, and is *)
(* still undecided.                                                            *)
RefundHeld(w) ==
  LET p == jobs[w].payment  r == jobs[w].refund  a == jobs[w].amount IN
  jobs[w].at \in RefundPlaces =>
    /\ a <= Amount(p)
    /\ \A v \in Workers \ {w} : jobs[v].refund # r
    /\ jobs[w].at = "refund_create" => refunds[r].status = "none"
    /\ jobs[w].at = "refund_process" =>
         /\ refunds[r].status = "initiated"
         /\ refunds[r].payment = p
         /\ refunds[r].amount = a

ProcessedFor(p) == {r \in RefundIds : refunds[r].status = "processed" /\ refunds[r].payment = p}
RefundAmounts == [r \in RefundIds |-> refunds[r].amount]

(* At any time a payment has finitely many processed refunds, however many ids *)
(* there may be, so they have a sum.                                           *)
Balanced(p) ==
  /\ IsFiniteSet(ProcessedFor(p))
  /\ payments[p].refunded = SumOver(RefundAmounts, ProcessedFor(p))

LedgerInv ==
  /\ \A w \in Workers : RefundHeld(w)
  /\ \A p \in PaymentIds : Balanced(p)

(* The model's sum is the one of module FiniteSums. *)
LEMMA AmountsSum ==
  ASSUME NEW S \in SUBSET RefundIds, IsFiniteSet(S)
  PROVE  MapThenSumSet(LAMBDA r : refunds[r].amount, S) = SumOver(RefundAmounts, S)
<1> DEFINE Sums(g) == g = [s \in SUBSET S |-> IF s = {} THEN 0
                                              ELSE refunds[Pick(s)].amount + g[s \ {Pick(s)}]]
           g == CHOOSE g : Sums(g)
<1>1. MapThenSumSet(LAMBDA r : refunds[r].amount, S) = g[S]
  BY DEF MapThenSumSet, MapThenFoldSet, Pick
<1>2. PICK h : IsSum(h, RefundAmounts, S)
  BY SumExists
<1>3. \A s \in SUBSET S : s # {} => RefundAmounts[Pick(s)] = refunds[Pick(s)].amount
  BY PickIn DEF RefundAmounts
<1>4. \A k : IsSum(k, RefundAmounts, S) <=> Sums(k)
  BY <1>3 DEF IsSum
<1>5. Sums(g)
  BY <1>2, <1>4
<1>6. IsSum(g, RefundAmounts, S)
  BY <1>4, <1>5
<1> QED
  BY <1>1, <1>6, SumIs

(* What a step may do to the payments that matters to requests that refund. *)
CapturedKept ==
  \A p \in PaymentIds : payments[p].captured => /\ payments'[p].captured
                                                /\ payments'[p].order = payments[p].order

(* The other requests keep the refund they hold. *)
LEMMA JobsKeepRefunds ==
  ASSUME TypeInv, MoneyInv, LedgerInv, CapturedKept, NEW w \in Workers,
         \A v \in Workers : v # w => jobs'[v] = jobs[v],
         jobs'[w].refund \in {jobs[w].refund, None},
         \A r \in RefundIds : r # jobs[w].refund => refunds'[r] = refunds[r],
         RefundHeld(w)'
  PROVE  \A v \in Workers : RefundHeld(v)'
<1> SUFFICES ASSUME NEW v \in Workers, v # w, jobs[v].at \in RefundPlaces PROVE RefundHeld(v)'
  BY DEF RefundHeld
<1>1. jobs'[v] = jobs[v] /\ RefundHeld(v) /\ None \notin RefundIds
  BY NoneAssumption DEF LedgerInv
<1>2. jobs[v].refund \in RefundIds /\ jobs[v].payment \in PaymentIds /\ payments[jobs[v].payment].captured
  BY DEF TypeInv, JobsOK, MoneyInv, JobMoney, RefundPlaces
<1>3. jobs[w].refund # jobs[v].refund /\ jobs'[w].refund # jobs[v].refund
  BY <1>1, <1>2 DEF RefundHeld
<1>4. Amount(jobs[v].payment)' = Amount(jobs[v].payment)
  BY <1>1, <1>2 DEF CapturedKept, Amount
<1>5. \A u \in Workers \ {v} : jobs'[u].refund # jobs'[v].refund
  BY <1>1, <1>3 DEF RefundHeld
<1>6. refunds'[jobs[v].refund] = refunds[jobs[v].refund]
  BY <1>2, <1>3
<1> QED
  BY <1>1, <1>4, <1>5, <1>6 DEF RefundHeld

(* The sums stay when the refunds do and the totals do. *)
LEMMA SumsStay ==
  ASSUME LedgerInv, UNCHANGED refunds,
         \A p \in PaymentIds : payments'[p].refunded = payments[p].refunded
  PROVE  \A p \in PaymentIds : Balanced(p)'
BY DEF LedgerInv, Balanced, ProcessedFor, RefundAmounts

(* Nothing the ledger sees happens, and at most one request moves. *)
LEMMA QuietLedger ==
  ASSUME TypeInv, MoneyInv, LedgerInv, CapturedKept, UNCHANGED refunds,
         \A p \in PaymentIds : payments'[p].refunded = payments[p].refunded,
         \/ UNCHANGED jobs
         \/ \E w \in Workers : \/ Answer(w)
                               \/ \E place \in Places \ RefundPlaces : Goto(w, place)
  PROVE  LedgerInv'
<1>1. jobs \in [Workers -> Job]
  BY DEF TypeInv, TypeOK
<1>2. \A w \in Workers : RefundHeld(w)'
  <2>1. CASE UNCHANGED jobs
    <3>1. ASSUME NEW w \in Workers, jobs[w].at \in RefundPlaces
          PROVE  Amount(jobs[w].payment)' = Amount(jobs[w].payment)
      BY <2>1, <3>1 DEF TypeInv, JobsOK, MoneyInv, JobMoney, RefundPlaces, CapturedKept, Amount
    <3> QED
      BY <2>1, <3>1 DEF LedgerInv, RefundHeld
  <2>2. ASSUME NEW w \in Workers, Answer(w) PROVE \A v \in Workers : RefundHeld(v)'
    <3>1. jobs'[w] = IdleJob /\ \A v \in Workers : v # w => jobs'[v] = jobs[v]
      BY <1>1, <2>2, AnswerEffect
    <3>2. jobs'[w].refund = None /\ RefundHeld(w)'
      BY <3>1 DEF IdleJob, RefundHeld, RefundPlaces
    <3> QED
      BY <3>1, <3>2, JobsKeepRefunds
  <2>3. ASSUME NEW w \in Workers, NEW place \in Places \ RefundPlaces, Goto(w, place)
        PROVE  \A v \in Workers : RefundHeld(v)'
    <3>1. /\ jobs'[w].at = place /\ jobs'[w].refund = jobs[w].refund
          /\ \A v \in Workers : v # w => jobs'[v] = jobs[v]
      BY <1>1, <2>3, GotoEffect
    <3>2. RefundHeld(w)'
      BY <3>1 DEF RefundHeld
    <3> QED
      BY <3>1, <3>2, JobsKeepRefunds
  <2> QED
    BY <2>1, <2>2, <2>3
<1> QED
  BY <1>2, SumsStay DEF LedgerInv

(* A request that begins to refund takes an id of its own and an amount that *)
(* fits what it has just read.                                               *)
LEMMA BeginLedger ==
  ASSUME TypeInv, MoneyInv, RefundInv, LedgerInv, NEW w \in Workers, Begin(w)
  PROVE  LedgerInv'
<1>0. jobs \in [Workers -> Job] /\ jobs[w].at = "idle"
  BY DEF TypeInv, TypeOK, Begin, LoadOrder, LoadForCapture, LoadForRefund
<1>1. UNCHANGED <<payments, refunds>>
  BY DEF Begin, LoadOrder, LoadForCapture, LoadForRefund
<1> DEFINE Begun(j) ==
      /\ j.at \in RefundPlaces =>
           /\ j.at = "refund_create" /\ j.refund \in RefundIds /\ j.amount <= Amount(j.payment)
           /\ refunds[j.refund].status = "none"
      /\ j.refund = None \/ \A v \in Workers : jobs[v].refund # j.refund
<1>2. \E j : jobs' = [jobs EXCEPT ![w] = j] /\ Begun(j)
  <2>1. CASE \E o \in Orders, c \in Channels, p \in PaymentIds : LoadOrder(w, o, c, p)
    <3>1. PICK o \in Orders, c \in Channels, p \in PaymentIds : LoadOrder(w, o, c, p)
      BY <2>1
    <3> DEFINE k == [IdleJob EXCEPT !.at = "create", !.channel = c, !.order = o, !.payment = p]
    <3>2. jobs' = [jobs EXCEPT ![w] = k]
      BY <3>1 DEF LoadOrder
    <3>3. k.at = "create" /\ k.refund = None
      BY DEF IdleJob
    <3> HIDE DEF k
    <3> QED
      BY <3>2, <3>3 DEF RefundPlaces
  <2>2. CASE \E p \in PaymentIds, a \in Amounts : LoadForCapture(w, p, a)
    <3>1. PICK p \in PaymentIds, a \in Amounts : LoadForCapture(w, p, a)
      BY <2>2
    <3> DEFINE k == [IdleJob EXCEPT !.at = "capture_lock", !.payment = p,
                                    !.amount = IF a = 0 THEN Amount(p) ELSE a]
    <3>2. jobs' = [jobs EXCEPT ![w] = k]
      BY <3>1 DEF LoadForCapture
    <3>3. k.at = "capture_lock" /\ k.refund = None
      BY DEF IdleJob
    <3> HIDE DEF k
    <3> QED
      BY <3>2, <3>3 DEF RefundPlaces
  <2>3. CASE \E p \in PaymentIds, a \in Amounts, r \in RefundIds : LoadForRefund(w, p, a, r)
    <3>1. PICK p \in PaymentIds, a \in Amounts, r \in RefundIds : LoadForRefund(w, p, a, r)
      BY <2>3
    <3> DEFINE k == [IdleJob EXCEPT !.at = "refund_create", !.payment = p, !.amount = a, !.refund = r]
    <3>2. /\ jobs' = [jobs EXCEPT ![w] = k] /\ a <= Refundable(p) /\ r \in FreshRefunds
          /\ payments[p].order \in Orders /\ payments[p].refunded \in Nat
      BY <3>1, FieldTypes DEF LoadForRefund, RefundableStatus, TypeInv, RowsOK, Exists
    <3>3. a <= Amount(p)
      <4>1. Amount(p) \in Nat /\ a \in Int
        BY <3>2, PriceAssumption, AmountAssumption DEF Amount
      <4> QED
        BY <3>2, <4>1 DEF Refundable
    <3>4. k.at = "refund_create" /\ k.payment = p /\ k.amount = a /\ k.refund = r
      BY DEF IdleJob
    <3> HIDE DEF k
    <3>5. Begun(k)
      BY <3>2, <3>3, <3>4 DEF FreshRefunds
    <3> QED
      BY <3>2, <3>5
  <2> QED
    BY <2>1, <2>2, <2>3 DEF Begin
<1>3. PICK j : jobs' = [jobs EXCEPT ![w] = j] /\ Begun(j)
  BY <1>2
<1>4. jobs'[w] = j /\ \A v \in Workers : v # w => jobs'[v] = jobs[v]
  BY <1>0, <1>3
<1>5. ASSUME NEW v \in Workers PROVE RefundHeld(v)'
  <2>1. None \notin RefundIds /\ (jobs[v].at \in RefundPlaces => jobs[v].refund \in RefundIds)
    BY NoneAssumption DEF TypeInv, JobsOK
  <2>2. CASE v = w
    BY <1>1, <1>3, <1>4, <2>1, <2>2 DEF RefundHeld, RefundPlaces, Amount
  <2>3. CASE v # w /\ jobs[v].at \in RefundPlaces
    <3>1. RefundHeld(v) /\ j.refund # jobs[v].refund
      BY <1>3, <2>1, <2>3 DEF LedgerInv
    <3> QED
      BY <1>1, <1>4, <2>3, <3>1 DEF RefundHeld, RefundPlaces, Amount
  <2>4. CASE v # w /\ jobs[v].at \notin RefundPlaces
    BY <1>4, <2>4 DEF RefundHeld
  <2> QED
    BY <2>2, <2>3, <2>4
<1>6. \A p \in PaymentIds : Balanced(p)'
  BY <1>1, SumsStay
<1> QED
  BY <1>5, <1>6 DEF LedgerInv

(* An inserted refund counts for nothing yet. *)
LEMMA InsertLedger ==
  ASSUME TypeInv, MoneyInv, LedgerInv, NEW w \in Workers, InsertRefund(w)
  PROVE  LedgerInv'
<1> DEFINE p == jobs[w].payment
           r == jobs[w].refund
           row == [status |-> "initiated", payment |-> p, amount |-> jobs[w].amount]
<1>1. /\ jobs[w].at = "refund_create" /\ r \in RefundIds /\ p \in PaymentIds
      /\ Goto(w, "refund_process") /\ UNCHANGED payments
      /\ jobs \in [Workers -> Job] /\ refunds \in [RefundIds -> Refund]
  BY DEF InsertRefund, TypeInv, TypeOK, JobsOK, RefundPlaces
<1>2. RefundHeld(w)
  BY DEF LedgerInv
<1>3. refunds[r].status = "none"
  BY <1>1, <1>2 DEF RefundHeld, RefundPlaces
<1>4. refunds'[r] = row /\ \A q \in RefundIds : q # r => refunds'[q] = refunds[q]
  BY <1>1 DEF InsertRefund
<1>5. /\ jobs'[w].at = "refund_process" /\ jobs'[w].payment = p /\ jobs'[w].refund = r
      /\ jobs'[w].amount = jobs[w].amount
      /\ \A v \in Workers : v # w => jobs'[v] = jobs[v]
  BY <1>1, GotoEffect DEF Places, RefundPlaces
<1>6. RefundHeld(w)'
  <2>1. \A q \in PaymentIds : Amount(q)' = Amount(q)
    BY <1>1 DEF Amount
  <2>2. row.status = "initiated" /\ row.payment = p /\ row.amount = jobs[w].amount
    OBVIOUS
  <2> HIDE DEF row
  <2> QED
    BY <1>1, <1>2, <1>4, <1>5, <2>1, <2>2 DEF RefundHeld, RefundPlaces
<1>7. \A v \in Workers : RefundHeld(v)'
  BY <1>1, <1>4, <1>5, <1>6, JobsKeepRefunds DEF CapturedKept
<1>8. ASSUME NEW q \in PaymentIds PROVE Balanced(q)'
  <2>1. ProcessedFor(q)' = ProcessedFor(q)
    BY <1>3, <1>4 DEF ProcessedFor
  <2>2. \A x \in ProcessedFor(q) : RefundAmounts[x] = RefundAmounts'[x]
    BY <1>3, <1>4 DEF ProcessedFor, RefundAmounts
  <2>3. IsFiniteSet(ProcessedFor(q)) /\ payments[q].refunded = SumOver(RefundAmounts, ProcessedFor(q))
    BY DEF LedgerInv, Balanced
  <2>4. SumOver(RefundAmounts, ProcessedFor(q)) = SumOver(RefundAmounts', ProcessedFor(q))
    BY <2>2, <2>3, SumDependsOn
  <2> QED
    BY <1>1, <2>1, <2>3, <2>4 DEF Balanced
<1> QED
  BY <1>7, <1>8 DEF LedgerInv

(* A processed refund is added to its payment's total and to the sum. *)
LEMMA PayLedger ==
  ASSUME TypeInv, MoneyInv, LedgerInv, NEW w \in Workers, ProcessRefund(w),
         NEW p, p = jobs[w].payment, NEW r, r = jobs[w].refund, NEW a, a = jobs[w].amount,
         StillFits(p, a)
  PROVE  \A q \in PaymentIds : Balanced(q)'
<1>1. /\ p \in PaymentIds /\ r \in RefundIds /\ a \in Nat /\ jobs[w].at = "refund_process"
      /\ refunds \in [RefundIds -> Refund] /\ refunds[r] \in Refund
  BY FieldTypes DEF ProcessRefund, TypeInv, TypeOK, JobsOK, RefundPlaces
<1>2. refunds[r].status = "initiated" /\ refunds[r].payment = p /\ refunds[r].amount = a
  BY <1>1 DEF LedgerInv, RefundHeld, RefundPlaces
<1>3. /\ payments' = [payments EXCEPT ![p].refunded = TotalAfter(p, a),
                                      ![p].status = StatusAfter(p, TotalAfter(p, a))]
      /\ refunds' = [refunds EXCEPT ![r].status = "processed"]
  BY DEF ProcessRefund
<1>4. /\ payments'[p].refunded = payments[p].refunded + a
      /\ \A q \in PaymentIds : q # p => payments'[q] = payments[q]
  BY <1>1, <1>3, RefundRow
<1> DEFINE row == [refunds[r] EXCEPT !.status = "processed"]
<1>5. row.status = "processed" /\ row.payment = p /\ row.amount = a
  BY <1>1, <1>2 DEF Refund
<1>6. refunds'[r] = row /\ \A x \in RefundIds : x # r => refunds'[x] = refunds[x]
  BY <1>1, <1>3
<1> HIDE DEF row
<1>7. \A x \in RefundIds : RefundAmounts'[x] = RefundAmounts[x]
  BY <1>1, <1>2, <1>5, <1>6 DEF RefundAmounts
<1>8. ASSUME NEW q \in PaymentIds
      PROVE  IsFiniteSet(ProcessedFor(q)) /\ payments[q].refunded = SumOver(RefundAmounts, ProcessedFor(q))
  BY DEF LedgerInv, Balanced
<1>9. ASSUME NEW q \in PaymentIds, q # p PROVE Balanced(q)'
  <2>1. ProcessedFor(q)' = ProcessedFor(q)
    BY <1>2, <1>5, <1>6, <1>9 DEF ProcessedFor
  <2>2. SumOver(RefundAmounts, ProcessedFor(q)) = SumOver(RefundAmounts', ProcessedFor(q))
    BY <1>7, <1>8, SumDependsOn DEF ProcessedFor
  <2> QED
    BY <1>4, <1>8, <1>9, <2>1, <2>2 DEF Balanced
<1>10. Balanced(p)'
  <2> DEFINE old == ProcessedFor(p)
             new == ProcessedFor(p)'
  <2>1. new = old \cup {r} /\ r \notin old /\ new \ {r} = old
    BY <1>1, <1>2, <1>5, <1>6 DEF ProcessedFor
  <2>2. IsFiniteSet(old) /\ payments[p].refunded = SumOver(RefundAmounts, old)
    BY <1>1, <1>8
  <2>3. IsFiniteSet(new)
    BY <2>1, <2>2, FS_AddElement
  <2>4. \A x \in new : RefundAmounts'[x] \in Int
    BY <1>7, FieldTypes DEF ProcessedFor, RefundAmounts, TypeInv
  <2>5. SumOver(RefundAmounts', old) = SumOver(RefundAmounts, old)
    <3>1. \A x \in old : RefundAmounts'[x] = RefundAmounts[x]
      BY <1>7 DEF ProcessedFor
    <3> HIDE DEF old
    <3> QED
      BY <2>2, <3>1, SumDependsOn
  <2>6. RefundAmounts'[r] = a
    BY <1>1, <1>2, <1>7 DEF RefundAmounts
  <2> HIDE DEF old, new
  <2>7. SumOver(RefundAmounts', new) = RefundAmounts'[r] + SumOver(RefundAmounts', new \ {r})
    BY <2>1, <2>3, <2>4, SumSplits
  <2>8. payments'[p].refunded = SumOver(RefundAmounts', new)
    <3>1. payments[p].refunded \in Nat
      BY <1>1, FieldTypes DEF TypeInv
    <3>2. SumOver(RefundAmounts', new \ {r}) = payments[p].refunded
      BY <2>1, <2>2, <2>5
    <3>3. SumOver(RefundAmounts', new) = a + payments[p].refunded
      BY <2>6, <2>7, <3>2
    <3> QED
      BY <1>1, <1>4, <3>1, <3>3
  <2> QED
    BY <2>3, <2>8 DEF Balanced, new
<1> QED
  BY <1>9, <1>10

(* A refused refund is none of those that count. *)
LEMMA RefuseLedger ==
  ASSUME TypeInv, LedgerInv, NEW w \in Workers, jobs[w].at = "refund_process",
         RefuseRefund(jobs[w].refund), UNCHANGED payments
  PROVE  \A q \in PaymentIds : Balanced(q)'
<1> DEFINE r == jobs[w].refund
           row == [refunds[r] EXCEPT !.status = "failed"]
<1>1. r \in RefundIds /\ refunds \in [RefundIds -> Refund] /\ refunds[r] \in Refund
  BY DEF TypeInv, TypeOK, JobsOK, RefundPlaces
<1>2. refunds[r].status = "initiated"
  BY DEF LedgerInv, RefundHeld, RefundPlaces
<1>3. row.status = "failed" /\ row.amount = refunds[r].amount
  BY <1>1 DEF Refund
<1>4. refunds'[r] = row /\ \A x \in RefundIds : x # r => refunds'[x] = refunds[x]
  BY <1>1 DEF RefuseRefund
<1> HIDE DEF r, row
<1>5. RefundAmounts' = RefundAmounts
  BY <1>3, <1>4 DEF RefundAmounts
<1>6. ASSUME NEW q \in PaymentIds PROVE Balanced(q)'
  <2>1. ProcessedFor(q)' = ProcessedFor(q)
    BY <1>2, <1>3, <1>4 DEF ProcessedFor
  <2>2. IsFiniteSet(ProcessedFor(q)) /\ payments[q].refunded = SumOver(RefundAmounts, ProcessedFor(q))
    BY DEF LedgerInv, Balanced
  <2> QED
    BY <1>5, <2>1, <2>2 DEF Balanced
<1> QED
  BY <1>6

(* A refund that is processed keeps the ledger in balance. *)
LEMMA DecideLedger ==
  ASSUME TypeInv, MoneyInv, LedgerInv, NEW w \in Workers, ProcessRefund(w)
  PROVE  LedgerInv'
<1> DEFINE p == jobs[w].payment
           r == jobs[w].refund
           a == jobs[w].amount
<1>1. /\ jobs[w].at = "refund_process" /\ p \in PaymentIds /\ r \in RefundIds /\ a \in Nat
      /\ Answer(w) /\ jobs \in [Workers -> Job] /\ refunds \in [RefundIds -> Refund]
  BY FieldTypes DEF ProcessRefund, TypeInv, TypeOK, JobsOK, RefundPlaces
<1>2. CapturedKept /\ \A x \in RefundIds : x # r => refunds'[x] = refunds[x]
  <2>1. CASE StillFits(p, a)
    <3>1. /\ payments' = [payments EXCEPT ![p].refunded = TotalAfter(p, a),
                                          ![p].status = StatusAfter(p, TotalAfter(p, a))]
          /\ refunds' = [refunds EXCEPT ![r].status = "processed"]
      BY <2>1 DEF ProcessRefund
    <3>2. \A x \in RefundIds : x # r => refunds'[x] = refunds[x]
      BY <1>1, <3>1
    <3>3. /\ payments'[p].captured = payments[p].captured
          /\ payments'[p].order = payments[p].order
          /\ \A q \in PaymentIds : q # p => payments'[q] = payments[q]
      BY <1>1, <3>1, RefundRow
    <3> QED
      BY <3>2, <3>3 DEF CapturedKept
  <2>2. CASE ~StillFits(p, a)
    BY <1>1, <2>2 DEF ProcessRefund, RefuseRefund, CapturedKept
  <2> QED
    BY <2>1, <2>2
<1>3. /\ jobs'[w].refund = None /\ RefundHeld(w)'
      /\ \A v \in Workers : v # w => jobs'[v] = jobs[v]
  BY <1>1, AnswerEffect DEF IdleJob, RefundHeld, RefundPlaces
<1>4. \A v \in Workers : RefundHeld(v)'
  BY <1>2, <1>3, JobsKeepRefunds
<1>5. \A q \in PaymentIds : Balanced(q)'
  <2>1. CASE StillFits(p, a)
    BY <2>1, PayLedger
  <2>2. CASE ~StillFits(p, a)
    BY <1>1, <2>2, RefuseLedger DEF ProcessRefund
  <2> QED
    BY <2>1, <2>2
<1> QED
  BY <1>4, <1>5 DEF LedgerInv

(* Every step keeps the ledger in balance. *)
LEMMA LedgerStep == TypeInv /\ MoneyInv /\ RefundInv /\ LedgerInv /\ [Next]_vars => LedgerInv'
<1> SUFFICES ASSUME TypeInv, MoneyInv, RefundInv, LedgerInv, [Next]_vars PROVE LedgerInv'
  OBVIOUS
<1>1. ASSUME NEW w \in Workers, RecordCaptured(w) PROVE LedgerInv'
  <2>1. /\ UNCHANGED refunds /\ Goto(w, "unlock") /\ CapturedKept
        /\ \A q \in PaymentIds : payments'[q].refunded = payments[q].refunded
    BY <1>1, CaptureRow DEF RecordCaptured, CapturedKept
  <2> QED
    BY <2>1, QuietLedger DEF Places, RefundPlaces
<1>2. ASSUME NEW w \in Workers, ProcessRefund(w) PROVE LedgerInv'
  BY <1>2, DecideLedger
<1>3. CASE LedgerRowsKept
  <2>1. CapturedKept /\ \A q \in PaymentIds : payments'[q].refunded = payments[q].refunded
    BY <1>3 DEF LedgerRowsKept, CapturedKept
  <2>2. \/ \E w \in Workers : Begin(w) \/ InsertRefund(w) \/ ProcessRefund(w)
        \/ /\ UNCHANGED refunds
           /\ \/ UNCHANGED jobs
              \/ \E w \in Workers :
                   \/ Answer(w)
                   \/ \E place \in Places \ RefundPlaces : Goto(w, place)
    BY ContinueCases
    DEF Next, vars, RejectPayment, InsertPayment, MarkAttempted, LockNewPayment, Authorize,
        StoreRedirect, ReleaseLock, LockForCapture, GatewayCapture, RecordCaptured, RecordFailed,
        CaptureRaises, Crash, CreateOrder, ExpiryPasses, ExpireStaleOrders, MarkAsFailed,
        LockExpires, NetbankingCallback, Quiescent, Places, CreatePlaces, CapturePlaces, RefundPlaces
  <2>3. ASSUME NEW w \in Workers, Begin(w) \/ InsertRefund(w) PROVE LedgerInv'
    BY <2>3, BeginLedger, InsertLedger
  <2> QED
    BY <1>2, <2>1, <2>2, <2>3, QuietLedger
<1> QED
  BY <1>1, <1>2, <1>3, LedgerRows

(* The ledger is in balance in every state. *)
LEMMA LedgerInvariant == Spec => []LedgerInv
<1>1. Init => LedgerInv
  <2> SUFFICES ASSUME Init PROVE LedgerInv
    OBVIOUS
  <2>1. \A w \in Workers : RefundHeld(w)
    BY DEF Init, IdleJob, RefundHeld, RefundPlaces
  <2>2. ASSUME NEW p \in PaymentIds PROVE Balanced(p)
    <3>1. ProcessedFor(p) = {}
      BY DEF Init, NoRefund, ProcessedFor
    <3>2. payments[p].refunded = 0
      BY DEF Init, NoPayment
    <3> QED
      BY <3>1, <3>2, SumOfNothing, FS_EmptySet DEF Balanced
  <2> QED
    BY <2>1, <2>2 DEF LedgerInv
<1>2. TypeInv /\ MoneyInv /\ RefundInv /\ LedgerInv /\ [Next]_vars => LedgerInv'
  BY LedgerStep
<1> QED
  BY <1>1, <1>2, TypeInvariant, MoneyInvariant, RefundInvariant, PTL DEF Spec

(* amount_refunded is exactly the sum of the payment's processed refunds, *)
(* however many there are and in whatever order they were decided.        *)
THEOREM LedgerCorrect == Spec => []LedgerBalanced
<1>1. LedgerInv => LedgerBalanced
  <2> SUFFICES ASSUME LedgerInv, NEW p \in PaymentIds
               PROVE  payments[p].refunded =
                        MapThenSumSet(LAMBDA r : refunds[r].amount, ProcessedFor(p))
    BY DEF LedgerBalanced, ProcessedFor
  <2>1. IsFiniteSet(ProcessedFor(p)) /\ payments[p].refunded = SumOver(RefundAmounts, ProcessedFor(p))
    BY DEF LedgerInv, Balanced
  <2>2. ProcessedFor(p) \in SUBSET RefundIds
    BY DEF ProcessedFor
  <2> QED
    BY <2>1, <2>2, AmountsSum
<1> QED
  BY <1>1, LedgerInvariant, PTL

-----------------------------------------------------------------------------
(* The payment core implements the refund ledger *)

(* The ledger's variables, as RefinesLedger substitutes them. *)
Limit == [p \in PaymentIds |-> IF payments[p].captured THEN Amount(p) ELSE 0]
Returned == [p \in PaymentIds |-> payments[p].refunded]
Verdict == [r \in RefundIds |-> CASE refunds[r].status = "processed" -> "paid"
                                  [] refunds[r].status = "failed" -> "refused"
                                  [] OTHER -> "open"]

(* What the ledger does not see happen. *)
LEMMA LedgerStutters ==
  ASSUME TypeInv, LedgerInv, [Next]_vars, LedgerRowsKept, \A w \in Workers : ~ProcessRefund(w)
  PROVE  UNCHANGED <<Limit, Returned, Verdict>>
<1>1. \A p \in PaymentIds : (IF payments'[p].captured THEN Amount(p)' ELSE 0)
                              = (IF payments[p].captured THEN Amount(p) ELSE 0)
  BY DEF LedgerRowsKept, Amount
<1>2. UNCHANGED Limit
  BY <1>1 DEF Limit
<1>3. UNCHANGED Returned
  BY DEF Returned, LedgerRowsKept
<1>4. UNCHANGED refunds \/ \E w \in Workers : InsertRefund(w)
  BY ContinueCases
  DEF Next, Begin, vars, LoadOrder, LoadForCapture, LoadForRefund, RejectPayment, InsertPayment,
      MarkAttempted, LockNewPayment, Authorize, StoreRedirect, ReleaseLock, LockForCapture,
      GatewayCapture, RecordCaptured, RecordFailed, CaptureRaises, Crash, CreateOrder,
      ExpiryPasses, ExpireStaleOrders, MarkAsFailed, LockExpires, NetbankingCallback, Quiescent
<1>5. ASSUME NEW w \in Workers, InsertRefund(w) PROVE UNCHANGED Verdict
  <2> DEFINE r == jobs[w].refund
             row == [status |-> "initiated", payment |-> jobs[w].payment, amount |-> jobs[w].amount]
  <2>1. r \in RefundIds /\ refunds \in [RefundIds -> Refund] /\ refunds[r].status = "none"
    BY <1>5 DEF InsertRefund, TypeInv, TypeOK, JobsOK, LedgerInv, RefundHeld, RefundPlaces
  <2>2. row.status = "initiated"
    OBVIOUS
  <2>3. refunds'[r] = row /\ \A x \in RefundIds : x # r => refunds'[x] = refunds[x]
    BY <1>5, <2>1 DEF InsertRefund
  <2> HIDE DEF r, row
  <2> QED
    BY <2>1, <2>2, <2>3 DEF Verdict
<1>6. UNCHANGED Verdict
  BY <1>4, <1>5 DEF Verdict
<1> QED
  BY <1>2, <1>3, <1>6

(* A capture that is put on record for the first time is a sale. *)
LEMMA CaptureSells ==
  ASSUME TypeInv, MoneyInv, NEW w \in Workers, RecordCaptured(w)
  PROVE  UNCHANGED <<Limit, Returned, Verdict>> \/ \E p \in PaymentIds : Ledger!Sell(p)
<1>0. PICK p \in PaymentIds : p = jobs[w].payment
  BY CaptureRow
<1>1. /\ p \in PaymentIds /\ payments'[p].captured = TRUE
      /\ payments'[p].order = payments[p].order /\ payments[p].order \in Orders
      /\ payments'[p].refunded = payments[p].refunded
      /\ \A q \in PaymentIds : q # p => payments'[q] = payments[q]
  BY <1>0, CaptureRow
<1>2. UNCHANGED Returned
  BY <1>1 DEF Returned
<1>3. UNCHANGED Verdict
  BY DEF RecordCaptured, Verdict
<1>4. Price[payments[p].order] \in Nat \ {0}
  BY <1>1, PriceAssumption
<1>5. \A q \in PaymentIds : q # p => Limit'[q] = Limit[q]
  BY <1>1 DEF Limit, Amount
<1>6. Limit'[p] = Price[payments[p].order]
  BY <1>1 DEF Limit, Amount
<1>7. CASE payments[p].captured
  <2>1. Limit[p] = Price[payments[p].order]
    BY <1>1, <1>7 DEF Limit, Amount
  <2>2. UNCHANGED Limit
    BY <1>1, <1>5, <1>6, <2>1 DEF Limit
  <2> QED
    BY <1>2, <1>3, <2>2
<1>8. CASE ~payments[p].captured
  <2>1. Limit[p] = 0
    BY <1>1, <1>8 DEF Limit
  <2>2. Limit' = [Limit EXCEPT ![p] = Limit'[p]]
    BY <1>1, <1>5 DEF Limit
  <2>3. Ledger!Sell(p)
    BY <1>1, <1>2, <1>3, <1>4, <1>6, <2>1, <2>2 DEF Ledger!Sell, Limit, Returned, Verdict
  <2> QED
    BY <1>1, <2>3
<1> QED
  BY <1>7, <1>8

(* A refund that is processed is paid exactly when it fits, and refused *)
(* exactly when it does not.                                            *)
LEMMA RefundDecides ==
  ASSUME TypeInv, MoneyInv, RefundInv, LedgerInv, NEW w \in Workers, ProcessRefund(w)
  PROVE  \E p \in PaymentIds : \E r \in RefundIds, a \in 1..Limit[p] :
           Ledger!Pay(r, p, a) \/ Ledger!Refuse(r, p, a)
<1>0. PICK p \in PaymentIds, r \in RefundIds, a \in Nat :
             p = jobs[w].payment /\ r = jobs[w].refund /\ a = jobs[w].amount
  BY FieldTypes DEF ProcessRefund, TypeInv, JobsOK, RefundPlaces
<1>1. /\ p \in PaymentIds /\ r \in RefundIds /\ a \in Nat /\ a > 0 /\ Exists(p)
      /\ jobs[w].at = "refund_process" /\ payments[p].captured
      /\ refunds \in [RefundIds -> Refund] /\ refunds[r] \in Refund
  BY <1>0 DEF ProcessRefund, TypeInv, TypeOK, JobsOK, RefundPlaces, MoneyInv, JobMoney
<1>2. a <= Amount(p) /\ refunds[r].status = "initiated"
  BY <1>0, <1>1 DEF LedgerInv, RefundHeld, RefundPlaces
<1>3. Amount(p) \in Nat /\ payments[p].refunded \in Nat /\ payments[p].refunded <= Amount(p)
      /\ Amount(p) > 0
  BY <1>1, FieldTypes, PriceAssumption DEF TypeInv, RowsOK, Amount, RefundInv, RefundWithinAmount
<1>4. Limit[p] = Amount(p) /\ Returned[p] = payments[p].refunded /\ Verdict[r] = "open"
  BY <1>1, <1>2 DEF Limit, Returned, Verdict
<1>5. a \in 1..Limit[p]
  BY <1>1, <1>2, <1>3, <1>4
<1>6. ASSUME NEW s \in {"processed", "failed"}, refunds' = [refunds EXCEPT ![r].status = s]
      PROVE  Verdict' = [Verdict EXCEPT ![r] = IF s = "processed" THEN "paid" ELSE "refused"]
  <2> DEFINE row == [refunds[r] EXCEPT !.status = s]
  <2>1. row.status = s
    BY <1>1 DEF Refund
  <2>2. refunds'[r] = row /\ \A x \in RefundIds : x # r => refunds'[x] = refunds[x]
    BY <1>1, <1>6
  <2> HIDE DEF row
  <2> QED
    BY <1>1, <2>1, <2>2 DEF Verdict
<1>7. CASE StillFits(p, a)
  <2>1. /\ payments' = [payments EXCEPT ![p].refunded = TotalAfter(p, a),
                                        ![p].status = StatusAfter(p, TotalAfter(p, a))]
        /\ refunds' = [refunds EXCEPT ![r].status = "processed"]
    BY <1>0, <1>7 DEF ProcessRefund
  <2>2. /\ payments'[p].captured = payments[p].captured
        /\ payments'[p].order = payments[p].order
        /\ payments'[p].refunded = payments[p].refunded + a
        /\ \A q \in PaymentIds : q # p => payments'[q] = payments[q]
    BY <1>1, <2>1, RefundRow
  <2>3. UNCHANGED Limit
    BY <2>2 DEF Limit, Amount
  <2>4. Returned' = [Returned EXCEPT ![p] = @ + a]
    BY <1>1, <2>2 DEF Returned
  <2>5. Verdict' = [Verdict EXCEPT ![r] = "paid"]
    BY <1>6, <2>1
  <2>6. Returned[p] + a <= Limit[p]
    BY <1>1, <1>3, <1>4, <1>7 DEF StillFits, Refundable
  <2>7. Ledger!Pay(r, p, a)
    BY <1>1, <1>4, <2>3, <2>4, <2>5, <2>6 DEF Ledger!Pay, Limit, Returned, Verdict
  <2> QED
    BY <1>1, <1>5, <2>7
<1>8. CASE ~StillFits(p, a)
  <2>1. UNCHANGED payments /\ refunds' = [refunds EXCEPT ![r].status = "failed"]
    BY <1>0, <1>8 DEF ProcessRefund, RefuseRefund
  <2>2. UNCHANGED <<Limit, Returned>>
    BY <2>1 DEF Limit, Returned, Amount
  <2>3. Verdict' = [Verdict EXCEPT ![r] = "refused"]
    BY <1>6, <2>1
  <2>4. Returned[p] + a > Limit[p] /\ Limit[p] > 0 /\ a <= Limit[p]
    BY <1>1, <1>2, <1>3, <1>4, <1>8 DEF StillFits, Refundable
  <2>5. Ledger!Refuse(r, p, a)
    BY <1>4, <2>2, <2>3, <2>4 DEF Ledger!Refuse, Limit, Returned, Verdict
  <2> QED
    BY <1>1, <1>5, <2>5
<1> QED
  BY <1>7, <1>8

(* Every step is a step of the refund ledger, or leaves it as it is. *)
LEMMA LedgerSimulates ==
  TypeInv /\ MoneyInv /\ RefundInv /\ LedgerInv /\ [Next]_vars => [Ledger!Next]_(Ledger!vars)
<1> SUFFICES ASSUME TypeInv, MoneyInv, RefundInv, LedgerInv, [Next]_vars
             PROVE  [Ledger!Next]_(Ledger!vars)
  OBVIOUS
<1>1. UNCHANGED <<Limit, Returned, Verdict>> => UNCHANGED Ledger!vars
  BY DEF Ledger!vars, Limit, Returned, Verdict
<1>2. ASSUME NEW w \in Workers, RecordCaptured(w) PROVE [Ledger!Next]_(Ledger!vars)
  BY <1>1, <1>2, CaptureSells DEF Ledger!Next
<1>3. ASSUME NEW w \in Workers, ProcessRefund(w) PROVE [Ledger!Next]_(Ledger!vars)
  <2>1. \E p \in PaymentIds : \E r \in RefundIds, a \in 1..Limit[p] :
          Ledger!Pay(r, p, a) \/ Ledger!Refuse(r, p, a)
    BY <1>3, RefundDecides
  <2> QED
    BY <2>1 DEF Ledger!Next, Limit
<1> QED
  BY <1>1, <1>2, <1>3, LedgerRows, LedgerStutters

(* Every behaviour of the payment core, with all its interleavings, crashes *)
(* and lost locks, is one of the refund ledger.                             *)
THEOREM LedgerImplemented == Spec => RefinesLedger
<1>1. Init => Ledger!Init
  BY DEF Init, Ledger!Init, NoPayment, NoRefund
<1>2. TypeInv /\ MoneyInv /\ RefundInv /\ LedgerInv /\ [Next]_vars => [Ledger!Next]_(Ledger!vars)
  BY LedgerSimulates
<1> QED
  BY <1>1, <1>2, TypeInvariant, MoneyInvariant, RefundInvariant, LedgerInvariant, PTL
  DEF Spec, RefinesLedger, Ledger!Spec

=============================================================================
