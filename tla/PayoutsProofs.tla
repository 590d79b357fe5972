--------------------------- MODULE PayoutsProofs ---------------------------
(***************************************************************************)
(* Theorems about payouts, for any number of requests, workers and payouts *)
(* of any amounts within the daily limit, any bulk files and any bounds.   *)
(***************************************************************************)
EXTENDS Payouts, FiniteSums

Job == [at: Places, rows: 0..MaxRows, payout: PayoutIds \cup {None}, amount: Nat]
Row == [status: PayoutStatus, amount: Nat, today: BOOLEAN]

(* The places at which a process is bound to pay, or to send word to. *)
Holding == {"enqueue", "start", "pay"}

(* A process asks for a payout that does not exist and that nobody else asks *)
(* for; what it works on from then on exists.                                *)
JobOK(j) ==
  /\ jobs[j].at = "insert" =>
       /\ jobs[j].payout \in PayoutIds /\ jobs[j].amount \in Amounts
       /\ payouts[jobs[j].payout].status = "none"
       /\ \A i \in Actors : i # j => jobs[i].payout # jobs[j].payout
  /\ jobs[j].at \in Holding =>
       jobs[j].payout \in PayoutIds /\ payouts[jobs[j].payout].status # "none"

(* A payout is never failed nor reversed: the mock bank always succeeds.  What *)
(* is not there has no messages and was not paid.                              *)
RowOK(p) ==
  /\ payouts[p].status \in {"none", "queued", "processing", "processed"}
  /\ payouts[p].status = "none" => messages[p] = 0 /\ paid[p] = 0

TypeInv ==
  /\ TypeOK
  /\ \A j \in Actors : JobOK(j)
  /\ \A p \in PayoutIds : RowOK(p)

-----------------------------------------------------------------------------
(* Amounts are positive and within the daily limit. *)
LEMMA AmountsFit == \A a \in Amounts : a \in Nat /\ a > 0 /\ a <= DailyLimit
<1> SUFFICES ASSUME NEW a \in Amounts PROVE a \in Nat /\ a > 0 /\ a <= DailyLimit
  OBVIOUS
<1>1. a \in 1..DailyLimit /\ DailyLimit \in Nat
  BY PayoutAssumption
<1> QED
  BY <1>1

(* What a step leaves of the jobs: the others' are as they were. *)
OthersStay(j) == \A i \in Actors : i # j => jobs'[i] = jobs[i]

(* The types alone. *)
LEMMA Fields ==
  ASSUME TypeInv
  PROVE  /\ payouts \in [PayoutIds -> Row] /\ jobs \in [Actors -> Job]
         /\ \A p \in PayoutIds : /\ payouts[p] \in Row /\ messages[p] \in Nat /\ paid[p] \in Nat
                                 /\ redelivered[p] \in Nat
         /\ \A j \in Actors : jobs[j] \in Job
BY DEF TypeInv, TypeOK, Row, Job

(* A process that is done with a payout takes the next row or is idle. *)
LEMMA FinishEffect ==
  ASSUME TypeInv, NEW j \in Actors,
         \/ FinishPayout(j)
         \/ jobs[j].rows > 0 /\ NextRow(j)
         \/ jobs' = [jobs EXCEPT ![j] = IdleJob]
  PROVE  jobs' \in [Actors -> Job] /\ jobs'[j].at \in {"idle", "row"} /\ jobs'[j].payout = None /\ OthersStay(j)
<1>1. jobs \in [Actors -> Job] /\ jobs[j].rows \in 0..MaxRows
  BY Fields DEF Job
<1> DEFINE next == [IdleJob EXCEPT !.at = "row", !.rows = jobs[j].rows - 1]
<1>2. IdleJob \in Job /\ IdleJob.at = "idle" /\ IdleJob.payout = None
  BY PayoutAssumption DEF IdleJob, Job, Places
<1>3. jobs[j].rows > 0 => next \in Job /\ next.at = "row" /\ next.payout = None
  <2> SUFFICES ASSUME jobs[j].rows > 0 PROVE next \in Job /\ next.at = "row" /\ next.payout = None
    OBVIOUS
  <2>1. PICK rows \in 0..MaxRows : rows = jobs[j].rows - 1
    BY <1>1, PayoutAssumption
  <2>2. next = [IdleJob EXCEPT !.at = "row", !.rows = rows]
    BY <2>1
  <2> HIDE DEF next
  <2> QED
    BY <1>2, <2>2 DEF Job, Places
<1>4. PICK k : k \in Job /\ k.at \in {"idle", "row"} /\ k.payout = None /\ jobs' = [jobs EXCEPT ![j] = k]
  <2>1. CASE jobs' = [jobs EXCEPT ![j] = IdleJob]
    BY <1>2, <2>1
  <2>2. CASE jobs[j].rows > 0 /\ NextRow(j)
    BY <1>3, <2>2 DEF NextRow
  <2> QED
    BY <2>1, <2>2 DEF FinishPayout
<1> QED
  BY <1>1, <1>4 DEF OthersStay

(* Asking for a payout reserves an id. *)
LEMMA AskEffect ==
  ASSUME TypeInv, NEW j \in Actors, NEW p \in PayoutIds, NEW amount \in Amounts, AskFor(j, p, amount)
  PROVE  /\ jobs' \in [Actors -> Job] /\ OthersStay(j)
         /\ jobs'[j].at = "insert" /\ jobs'[j].payout = p /\ jobs'[j].amount = amount
<1>1. jobs \in [Actors -> Job] /\ jobs[j] \in Job
  BY Fields
<1> DEFINE k == [jobs[j] EXCEPT !.at = "insert", !.payout = p, !.amount = amount]
<1>2. amount \in Nat
  BY PayoutAssumption
<1>3. k \in Job /\ k.at = "insert" /\ k.payout = p /\ k.amount = amount
  BY <1>1, <1>2 DEF Job, Places
<1>4. jobs' = [jobs EXCEPT ![j] = k]
  BY DEF AskFor
<1> HIDE DEF k
<1> QED
  BY <1>1, <1>3, <1>4 DEF OthersStay

(* Going on changes the place and nothing else. *)
LEMMA MoveEffect ==
  ASSUME TypeInv, NEW j \in Actors, NEW at \in Places, jobs' = [jobs EXCEPT ![j].at = at]
  PROVE  /\ jobs' \in [Actors -> Job] /\ OthersStay(j)
         /\ jobs'[j].at = at /\ jobs'[j].payout = jobs[j].payout /\ jobs'[j].amount = jobs[j].amount
<1>1. jobs \in [Actors -> Job] /\ jobs[j] \in Job
  BY Fields
<1> DEFINE k == [jobs[j] EXCEPT !.at = at]
<1>2. k \in Job /\ k.at = at /\ k.payout = jobs[j].payout /\ k.amount = jobs[j].amount
  BY <1>1 DEF Job
<1>3. jobs' = [jobs EXCEPT ![j] = k]
  OBVIOUS
<1> HIDE DEF k
<1> QED
  BY <1>1, <1>2, <1>3 DEF OthersStay

(* A worker that was idle takes a message. *)
LEMMA TakeEffect ==
  ASSUME TypeInv, NEW w \in Actors, NEW p \in PayoutIds,
         jobs' = [jobs EXCEPT ![w].at = "start", ![w].payout = p]
  PROVE  jobs' \in [Actors -> Job] /\ OthersStay(w) /\ jobs'[w].at = "start" /\ jobs'[w].payout = p
<1>1. jobs \in [Actors -> Job] /\ jobs[w] \in Job
  BY Fields
<1> DEFINE k == [jobs[w] EXCEPT !.at = "start", !.payout = p]
<1>2. k \in Job /\ k.at = "start" /\ k.payout = p
  BY <1>1 DEF Job, Places
<1>3. jobs' = [jobs EXCEPT ![w] = k]
  OBVIOUS
<1> HIDE DEF k
<1> QED
  BY <1>1, <1>2, <1>3 DEF OthersStay

(* A status UPDATE changes one row's status and nothing else. *)
LEMMA StatusEffect ==
  ASSUME TypeInv, NEW p \in PayoutIds, NEW status \in {"processing", "processed"},
         payouts' = [payouts EXCEPT ![p].status = status]
  PROVE  /\ payouts' \in [PayoutIds -> Row] /\ payouts'[p].status = status
         /\ \A q \in PayoutIds : q # p => payouts'[q] = payouts[q]
         /\ \A q \in PayoutIds : payouts'[q].amount = payouts[q].amount /\ payouts'[q].today = payouts[q].today
<1>1. payouts \in [PayoutIds -> Row] /\ payouts[p] \in Row
  BY Fields
<1> DEFINE row == [payouts[p] EXCEPT !.status = status]
<1>2. row \in Row /\ row.status = status /\ row.amount = payouts[p].amount /\ row.today = payouts[p].today
  BY <1>1 DEF Row, PayoutStatus
<1>3. payouts' = [payouts EXCEPT ![p] = row]
  OBVIOUS
<1> HIDE DEF row
<1> QED
  BY <1>1, <1>2, <1>3

(* A new payout is queued. *)
LEMMA CreateEffect ==
  ASSUME TypeInv, NEW j \in Actors, CreatePayout(j)
  PROVE  /\ jobs[j].payout \in PayoutIds /\ jobs[j].amount \in Nat /\ payouts[jobs[j].payout].status = "none"
         /\ payouts' \in [PayoutIds -> Row]
         /\ payouts'[jobs[j].payout].status = "queued" /\ payouts'[jobs[j].payout].today
         /\ payouts'[jobs[j].payout].amount = jobs[j].amount
         /\ \A q \in PayoutIds : q # jobs[j].payout => payouts'[q] = payouts[q]
         /\ jobs' \in [Actors -> Job] /\ OthersStay(j)
         /\ jobs'[j].at \in {"enqueue", "start"} /\ jobs'[j].payout = jobs[j].payout
<1>1. jobs[j].at = "insert" /\ JobOK(j)
  BY DEF CreatePayout, TypeInv
<1>2. jobs[j].payout \in PayoutIds /\ jobs[j].amount \in Nat /\ payouts[jobs[j].payout].status = "none"
  <2>1. jobs[j].payout \in PayoutIds /\ jobs[j].amount \in Amounts /\ payouts[jobs[j].payout].status = "none"
    BY <1>1 DEF JobOK
  <2> QED
    BY <2>1, AmountsFit
<1>3. PICK p \in PayoutIds : p = jobs[j].payout
  BY <1>2
<1>4. PICK amount \in Nat : amount = jobs[j].amount
  BY <1>2
<1> DEFINE row == [status |-> "queued", amount |-> amount, today |-> TRUE]
<1>5. row \in Row /\ row.status = "queued" /\ row.today /\ row.amount = amount
  BY DEF Row, PayoutStatus
<1>6. payouts' = [payouts EXCEPT ![p] = row]
  BY <1>3, <1>4 DEF CreatePayout
<1> HIDE DEF row
<1>7. /\ payouts' \in [PayoutIds -> Row] /\ payouts'[p] = row
      /\ \A q \in PayoutIds : q # p => payouts'[q] = payouts[q]
  BY <1>5, <1>6, Fields
<1>8. PICK at \in {"enqueue", "start"} : jobs' = [jobs EXCEPT ![j].at = at]
  BY DEF CreatePayout
<1>9. at \in Places
  BY DEF Places
<1>10. /\ jobs' \in [Actors -> Job] /\ OthersStay(j) /\ jobs'[j].at = at /\ jobs'[j].payout = jobs[j].payout
  BY <1>8, <1>9, MoveEffect
<1> QED
  BY <1>2, <1>3, <1>4, <1>5, <1>7, <1>10

-----------------------------------------------------------------------------
(* The steps there are, as far as payouts, jobs and messages go *)

Aside == <<payouts, messages, paid, redelivered>>

(* A process takes a rest: a file's next row, or nothing. *)
Rests(j) ==
  /\ jobs' \in [Actors -> Job] /\ OthersStay(j)
  /\ jobs'[j].at \in {"idle", "row"} /\ jobs'[j].payout = None
  /\ UNCHANGED Aside

Asks(j, p, amount) ==
  /\ jobs[j].at \in {"idle", "row"}
  /\ AskFor(j, p, amount)
  /\ UNCHANGED Aside

Step ==
  \/ \E j \in Actors : Rests(j)
  \/ \E j \in Actors, p \in PayoutIds, amount \in Amounts : Asks(j, p, amount)
  \/ \E j \in Actors : CreatePayout(j)
  \/ \E r \in Requests : Enqueue(r)
  \/ \E w \in Workers, p \in PayoutIds : TakeMessage(w, p)
  \/ \E w \in Workers : StartProcessing(w)
  \/ \E w \in Workers : PayByBank(w)
  \/ \E p \in PayoutIds : Redeliver(p)
  \/ Midnight
  \/ UNCHANGED <<jobs, payouts, messages, paid, redelivered>>

(* Every step is of one of these kinds. *)
LEMMA Steps == ASSUME TypeInv, [Next]_vars PROVE Step
<1>0. \A j : j \in Requests \/ j \in Workers => j \in Actors
  BY DEF Actors
<1>1. ASSUME NEW j \in Actors, UNCHANGED Aside,
             FinishPayout(j) \/ (jobs[j].rows > 0 /\ NextRow(j)) \/ jobs' = [jobs EXCEPT ![j] = IdleJob]
      PROVE  Step
  BY <1>1, FinishEffect DEF Step, Rests
<1>2. ASSUME NEW r \in Requests, Serve(r) \/ \E p \in PayoutIds, a \in Amounts : RequestPayout(r, p, a)
      PROVE  Step
  <2>1. r \in Actors
    BY DEF Actors
  <2>2. CASE CreatePayout(r)
    BY <2>1, <2>2 DEF Step
  <2>3. CASE Enqueue(r)
    BY <2>3 DEF Step
  <2>4. ASSUME NEW p \in PayoutIds, NEW a \in Amounts, RequestPayout(r, p, a) PROVE Step
    <3>1. Asks(r, p, a)
      BY <2>4 DEF RequestPayout, Asks, Aside, IdleJob
    <3> QED
      BY <2>1, <3>1 DEF Step
  <2> QED
    BY <1>2, <2>2, <2>3, <2>4 DEF Serve
<1>3. ASSUME NEW w \in Workers, Work(w) PROVE Step
  <2>1. w \in Actors
    BY DEF Actors
  <2>2. CASE \E p \in PayoutIds : TakeMessage(w, p)
    BY <2>2 DEF Step
  <2>3. CASE TakeFile(w)
    <3>1. PICK rows \in 1..MaxRows : jobs' = [jobs EXCEPT ![w].at = "row", ![w].rows = rows]
      BY <2>3 DEF TakeFile, TypeInv, TypeOK
    <3>2. jobs[w] = IdleJob /\ IdleJob \in Job /\ IdleJob.payout = None /\ jobs \in [Actors -> Job]
      BY <2>1, <2>3, Fields DEF TakeFile, IdleJob
    <3> DEFINE k == [IdleJob EXCEPT !.at = "row", !.rows = rows]
    <3>3. k \in Job /\ k.at = "row" /\ k.payout = None
      <4>1. rows \in 0..MaxRows /\ "row" \in Places
        BY <3>1, PayoutAssumption DEF Places
      <4> QED
        BY <3>2, <4>1 DEF Job
    <3>4. jobs' = [jobs EXCEPT ![w] = k]
      BY <3>1, <3>2
    <3> HIDE DEF k
    <3>5. Rests(w)
      BY <2>1, <2>3, <3>2, <3>3, <3>4 DEF Rests, OthersStay, Aside, TakeFile
    <3> QED
      BY <2>1, <3>5 DEF Step
  <2>4. CASE TakeRow(w)
    <3>1. UNCHANGED Aside /\ jobs[w].at = "row" /\ jobs[w].rows > 0
      BY <2>4 DEF TakeRow, Aside
    <3>2. CASE NextRow(w)
      BY <1>1, <2>1, <3>1, <3>2
    <3>3. ASSUME NEW p \in PayoutIds, NEW a \in Amounts, AskFor(w, p, a) PROVE Step
      BY <2>1, <3>1, <3>3 DEF Step, Asks
    <3> QED
      BY <2>4, <3>2, <3>3 DEF TakeRow
  <2>5. CASE FinishFile(w)
    BY <1>1, <2>1, <2>5 DEF FinishFile, Aside
  <2>6. CASE CreatePayout(w)
    BY <2>1, <2>6 DEF Step
  <2>7. CASE StartProcessing(w)
    BY <2>7 DEF Step
  <2>8. CASE PayByBank(w)
    BY <2>8 DEF Step
  <2>9. CASE Notify(w)
    BY <1>1, <2>1, <2>9 DEF Notify, Aside
  <2> QED
    BY <1>3, <2>2, <2>3, <2>4, <2>5, <2>6, <2>7, <2>8, <2>9 DEF Work
<1>4. ASSUME NEW j \in Actors, RejectDetails(j) \/ StatementRaises(j) \/ Killed(j) PROVE Step
  <2>1. UNCHANGED Aside
    BY <1>4 DEF RejectDetails, StatementRaises, Killed, AckEarly, Aside
  <2>2. FinishPayout(j) \/ (jobs[j].rows > 0 /\ NextRow(j)) \/ jobs' = [jobs EXCEPT ![j] = IdleJob]
    BY <1>4 DEF RejectDetails, StatementRaises, Killed
  <2> QED
    BY <1>1, <2>1, <2>2
<1>5. ASSUME NEW rows \in 1..MaxRows, SubmitFile(rows) PROVE Step
  BY <1>5 DEF SubmitFile, Step
<1>6. CASE Quiescent \/ UNCHANGED vars
  BY <1>6 DEF Quiescent, vars, Step
<1>7. CASE (\E p \in PayoutIds : Redeliver(p)) \/ Midnight
  BY <1>7 DEF Step
<1> QED
  BY <1>2, <1>3, <1>4, <1>5, <1>6, <1>7 DEF Next

(* The bounds are kept. *)
BoundsOK == files \subseteq 1..MaxRows /\ days \in 0..MaxDays /\ faults \in 0..MaxFaults

(* Every step keeps the bounds. *)
LEMMA BoundsStep == ASSUME BoundsOK, [Next]_vars PROVE BoundsOK'
<1>1. MaxRows \in Nat /\ MaxDays \in Nat /\ MaxFaults \in Nat
  BY PayoutAssumption
<1>2. /\ files' = files \/ (\E rows \in 1..MaxRows : files' = files \cup {rows}) \/ \E rows \in files : files' = files \ {rows}
  BY DEF Next, vars, Serve, CreatePayout, Enqueue, RequestPayout, SubmitFile, Work, TakeMessage, TakeFile, TakeRow,
         FinishFile, StartProcessing, PayByBank, Notify, RejectDetails, StatementRaises, Killed, Redeliver,
         Midnight, Quiescent
<1>3. days' = days \/ (days < MaxDays /\ days' = days + 1)
  BY DEF Next, vars, Serve, CreatePayout, Enqueue, RequestPayout, SubmitFile, Work, TakeMessage, TakeFile, TakeRow,
         FinishFile, StartProcessing, PayByBank, Notify, RejectDetails, StatementRaises, Killed, Redeliver,
         Midnight, Quiescent
<1>4. faults' = faults \/ (faults < MaxFaults /\ faults' = faults + 1)
  BY DEF Next, vars, Serve, CreatePayout, Enqueue, RequestPayout, SubmitFile, Work, TakeMessage, TakeFile, TakeRow,
         FinishFile, StartProcessing, PayByBank, Notify, RejectDetails, StatementRaises, Killed, Redeliver,
         Midnight, Quiescent
<1>5. files' \subseteq 1..MaxRows
  BY <1>2 DEF BoundsOK
<1>6. days' \in 0..MaxDays
  BY <1>1, <1>3 DEF BoundsOK
<1>7. faults' \in 0..MaxFaults
  BY <1>1, <1>4 DEF BoundsOK
<1> QED
  BY <1>5, <1>6, <1>7 DEF BoundsOK

-----------------------------------------------------------------------------
(* The other processes keep what they ask for and what they work on, as long *)
(* as this one creates its own payout and takes no other's.                  *)
LEMMA OthersOK ==
  ASSUME TypeInv, NEW j \in Actors, OthersStay(j),
         \A p \in PayoutIds : payouts[p].status # "none" => payouts'[p].status # "none",
         \A p \in PayoutIds : payouts[p].status = "none" /\ payouts'[p].status # "none" =>
           jobs[j].at = "insert" /\ jobs[j].payout = p,
         \/ jobs'[j].payout \in {None, jobs[j].payout}
         \/ Unused(jobs'[j].payout)
         \/ payouts[jobs'[j].payout].status # "none"
  PROVE  \A i \in Actors : i # j => JobOK(i)'
<1> SUFFICES ASSUME NEW i \in Actors, i # j PROVE JobOK(i)'
  OBVIOUS
<1>1. jobs'[i] = jobs[i] /\ JobOK(i)
  BY DEF OthersStay, TypeInv
<1>2. CASE jobs[i].at = "insert"
  <2>1. PICK p \in PayoutIds : p = jobs[i].payout
    BY <1>1, <1>2 DEF JobOK
  <2>2. payouts[p].status = "none" /\ jobs[i].amount \in Amounts /\ \A k \in Actors : k # i => jobs[k].payout # p
    BY <1>1, <1>2, <2>1 DEF JobOK
  <2>3. payouts'[p].status = "none"
    BY <2>2
  <2>4. jobs'[j].payout # p
    BY <2>1, <2>2, PayoutAssumption DEF Unused
  <2>5. \A k \in Actors : k # i => jobs'[k].payout # p
    BY <2>2, <2>4 DEF OthersStay
  <2> QED
    BY <1>1, <1>2, <2>1, <2>2, <2>3, <2>5 DEF JobOK, Holding
<1>3. CASE jobs[i].at # "insert"
  BY <1>1, <1>3 DEF JobOK
<1> QED
  BY <1>2, <1>3

(* The types hold at first. *)
LEMMA TypeInit == Init => TypeInv
<1> SUFFICES ASSUME Init PROVE TypeInv
  OBVIOUS
<1>1. IdleJob \in Job /\ IdleJob.at = "idle" /\ NoPayout \in Row /\ NoPayout.status = "none"
  BY PayoutAssumption DEF IdleJob, Job, Places, NoPayout, Row, PayoutStatus
<1>2. TypeOK
  BY <1>1, PayoutAssumption DEF Init, TypeOK, Job, Row
<1>3. \A j \in Actors : JobOK(j)
  BY <1>1 DEF Init, JobOK, Holding
<1>4. \A p \in PayoutIds : RowOK(p)
  BY <1>1 DEF Init, RowOK
<1> QED
  BY <1>2, <1>3, <1>4 DEF TypeInv

(* Every step keeps the types. *)
LEMMA TypeStep == ASSUME TypeInv, [Next]_vars PROVE TypeInv'
<1>1. BoundsOK'
  BY BoundsStep DEF TypeInv, TypeOK, BoundsOK
<1>2. /\ payouts \in [PayoutIds -> Row] /\ jobs \in [Actors -> Job]
      /\ messages \in [PayoutIds -> Nat] /\ paid \in [PayoutIds -> Nat] /\ redelivered \in [PayoutIds -> Nat]
      /\ \A i \in Actors : JobOK(i)
      /\ \A p \in PayoutIds : RowOK(p)
  BY Fields DEF TypeInv, TypeOK
<1> DEFINE Kept == /\ payouts' \in [PayoutIds -> Row] /\ jobs' \in [Actors -> Job]
                   /\ messages' \in [PayoutIds -> Nat] /\ paid' \in [PayoutIds -> Nat]
                   /\ redelivered' \in [PayoutIds -> Nat]
                   /\ \A i \in Actors : JobOK(i)'
                   /\ \A p \in PayoutIds : RowOK(p)'
<1>3. Step
  BY Steps
<1>4. ASSUME NEW j \in Actors, Rests(j) PROVE Kept
  <2>1. JobOK(j)'
    BY <1>4 DEF Rests, JobOK, Holding
  <2>2. \A i \in Actors : i # j => JobOK(i)'
    BY <1>4, OthersOK DEF Rests, Aside
  <2> QED
    BY <1>2, <1>4, <2>1, <2>2 DEF Rests, Aside, RowOK
<1>5. ASSUME NEW j \in Actors, NEW p \in PayoutIds, NEW amount \in Amounts, Asks(j, p, amount) PROVE Kept
  <2>1. /\ jobs' \in [Actors -> Job] /\ OthersStay(j)
        /\ jobs'[j].at = "insert" /\ jobs'[j].payout = p /\ jobs'[j].amount = amount
    BY <1>5, AskEffect DEF Asks
  <2>2. UNCHANGED <<payouts, messages, paid, redelivered>> /\ Unused(p)
    BY <1>5 DEF Asks, Aside, AskFor
  <2>3. JobOK(j)'
    BY <2>1, <2>2 DEF JobOK, Holding, Unused, OthersStay
  <2>4. \A i \in Actors : i # j => JobOK(i)'
    BY <2>1, <2>2, OthersOK
  <2> QED
    BY <1>2, <2>1, <2>2, <2>3, <2>4 DEF RowOK
<1>6. ASSUME NEW j \in Actors, CreatePayout(j) PROVE Kept
  <2>1. PICK p \in PayoutIds : p = jobs[j].payout
    BY <1>6, CreateEffect
  <2>2. /\ payouts' \in [PayoutIds -> Row] /\ payouts'[p].status = "queued"
        /\ \A q \in PayoutIds : q # p => payouts'[q] = payouts[q]
        /\ jobs' \in [Actors -> Job] /\ OthersStay(j)
        /\ jobs'[j].at \in {"enqueue", "start"} /\ jobs'[j].payout = p
    BY <1>6, <2>1, CreateEffect
  <2>3. UNCHANGED <<messages, paid, redelivered>> /\ jobs[j].at = "insert"
    BY <1>6 DEF CreatePayout
  <2>4. JobOK(j)'
    BY <2>2 DEF JobOK, Holding
  <2>5. \A i \in Actors : i # j => JobOK(i)'
    BY <2>1, <2>2, <2>3, OthersOK
  <2>6. ASSUME NEW q \in PayoutIds PROVE RowOK(q)'
    BY <1>2, <2>2, <2>3 DEF RowOK
  <2> QED
    BY <1>2, <2>2, <2>3, <2>4, <2>5, <2>6
<1>7. ASSUME NEW r \in Requests, Enqueue(r) PROVE Kept
  <2>0. r \in Actors
    BY DEF Actors
  <2>1. PICK p \in PayoutIds : p = jobs[r].payout /\ payouts[p].status # "none"
    BY <1>2, <1>7, <2>0 DEF JobOK, Enqueue, Holding
  <2>2. messages' = [messages EXCEPT ![p] = @ + 1] /\ UNCHANGED <<payouts, paid, redelivered>>
    BY <1>7, <2>1 DEF Enqueue
  <2>3. jobs' \in [Actors -> Job] /\ OthersStay(r) /\ jobs'[r].at \in {"idle", "row"} /\ jobs'[r].payout = None
    BY <1>7, <2>0, FinishEffect DEF Enqueue
  <2>4. JobOK(r)'
    BY <2>3 DEF JobOK, Holding
  <2>5. \A i \in Actors : i # r => JobOK(i)'
    BY <2>0, <2>2, <2>3, OthersOK
  <2>6. ASSUME NEW q \in PayoutIds PROVE RowOK(q)'
    BY <1>2, <2>1, <2>2 DEF RowOK
  <2> QED
    BY <1>2, <2>2, <2>3, <2>4, <2>5, <2>6
<1>8. ASSUME NEW w \in Workers, NEW p \in PayoutIds, TakeMessage(w, p) PROVE Kept
  <2>0. w \in Actors
    BY DEF Actors
  <2>1. /\ messages[p] > 0 /\ messages' = [messages EXCEPT ![p] = @ - 1]
        /\ UNCHANGED <<payouts, paid, redelivered>>
    BY <1>8 DEF TakeMessage
  <2>2. payouts[p].status # "none"
    BY <1>2, <2>1 DEF RowOK
  <2>3. jobs' \in [Actors -> Job] /\ OthersStay(w) /\ jobs'[w].at = "start" /\ jobs'[w].payout = p
    BY <1>8, <2>0, TakeEffect DEF TakeMessage
  <2>4. JobOK(w)'
    BY <2>1, <2>2, <2>3 DEF JobOK, Holding
  <2>5. \A i \in Actors : i # w => JobOK(i)'
    BY <2>0, <2>1, <2>2, <2>3, OthersOK
  <2>6. messages' \in [PayoutIds -> Nat]
    BY <1>2, <2>1
  <2>7. ASSUME NEW q \in PayoutIds PROVE RowOK(q)'
    BY <1>2, <2>1, <2>2 DEF RowOK
  <2> QED
    BY <1>2, <2>1, <2>3, <2>4, <2>5, <2>6, <2>7
<1>9. ASSUME NEW w \in Workers, StartProcessing(w) \/ PayByBank(w) PROVE Kept
  <2>0. w \in Actors
    BY DEF Actors
  <2>1. PICK p \in PayoutIds : p = jobs[w].payout /\ payouts[p].status # "none"
    BY <1>2, <1>9, <2>0 DEF JobOK, StartProcessing, PayByBank, Holding
  <2>2. PICK status \in {"processing", "processed"}, at \in {"pay", "notify"} :
          payouts' = [payouts EXCEPT ![p].status = status] /\ jobs' = [jobs EXCEPT ![w].at = at]
    BY <1>9, <2>1 DEF StartProcessing, PayByBank, AfterBank
  <2>3. paid' = paid \/ paid' = [paid EXCEPT ![p] = @ + 1]
    BY <1>9, <2>1 DEF StartProcessing, PayByBank
  <2>4. UNCHANGED <<messages, redelivered>>
    BY <1>9 DEF StartProcessing, PayByBank
  <2>5. /\ payouts' \in [PayoutIds -> Row] /\ payouts'[p].status = status
        /\ \A q \in PayoutIds : q # p => payouts'[q] = payouts[q]
    BY <2>2, StatusEffect
  <2>6. jobs' \in [Actors -> Job] /\ OthersStay(w) /\ jobs'[w].at = at /\ jobs'[w].payout = p
    BY <2>0, <2>1, <2>2, MoveEffect DEF Places
  <2>7. JobOK(w)'
    BY <2>5, <2>6 DEF JobOK
  <2>8. \A i \in Actors : i # w => JobOK(i)'
    BY <2>0, <2>1, <2>5, <2>6, OthersOK
  <2>9. ASSUME NEW q \in PayoutIds PROVE RowOK(q)'
    BY <1>2, <2>1, <2>3, <2>4, <2>5 DEF RowOK
  <2>10. paid' \in [PayoutIds -> Nat]
    BY <1>2, <2>3
  <2> QED
    BY <1>2, <2>4, <2>5, <2>6, <2>7, <2>8, <2>9, <2>10
<1>10. ASSUME NEW p \in PayoutIds, Redeliver(p) PROVE Kept
  <2>1. /\ messages[p] > 0 /\ messages' = [messages EXCEPT ![p] = @ + 1]
        /\ redelivered' = [redelivered EXCEPT ![p] = @ + 1]
        /\ UNCHANGED <<payouts, jobs, paid>>
    BY <1>10 DEF Redeliver
  <2>2. ASSUME NEW q \in PayoutIds PROVE RowOK(q)'
    BY <1>2, <2>1 DEF RowOK
  <2> QED
    BY <1>2, <2>1, <2>2 DEF JobOK
<1>11. ASSUME Midnight PROVE Kept
  <2>1. UNCHANGED <<jobs, messages, paid, redelivered>>
    BY <1>11 DEF Midnight
  <2>2. ASSUME NEW p \in PayoutIds
        PROVE  payouts'[p] \in Row /\ payouts'[p].status = payouts[p].status
    BY <1>2, <1>11 DEF Midnight, Row
  <2>3. payouts' = [p \in PayoutIds |-> payouts'[p]]
    BY <1>11 DEF Midnight
  <2>4. payouts' \in [PayoutIds -> Row]
    BY <2>2, <2>3
  <2> QED
    BY <1>2, <2>1, <2>2, <2>4 DEF JobOK, RowOK
<1>12. ASSUME UNCHANGED <<jobs, payouts, messages, paid, redelivered>> PROVE Kept
  BY <1>2, <1>12 DEF JobOK, RowOK
<1>13. Kept
  BY <1>3, <1>4, <1>5, <1>6, <1>7, <1>8, <1>9, <1>10, <1>11, <1>12 DEF Step
<1> QED
  BY <1>1, <1>13 DEF TypeInv, TypeOK, BoundsOK, Row, Job

(* Rows, jobs and messages stay well typed, an id is asked for by one process *)
(* only, and a payout that is worked on exists.                               *)
LEMMA TypeInvariant == Spec => []TypeInv
<1>1. TypeInv /\ [Next]_vars => TypeInv'
  BY TypeStep
<1> QED
  BY <1>1, TypeInit, PTL DEF Spec

-----------------------------------------------------------------------------
(* Who may still pay a payout *)

(* The processes that are bound to have the payout paid: that will send the *)
(* message, or that work on it.                                             *)
Holders(p) == {j \in Actors : jobs[j].at \in Holding /\ jobs[j].payout = p}

(* Each payment needs a process or a message of its own: what was paid and *)
(* what still can be fit into one and the redeliveries.                    *)
DeliveryOK(p) == messages[p] + Cardinality(Holders(p)) + paid[p] <= 1 + redelivered[p]

DeliveryInv == \A p \in PayoutIds : DeliveryOK(p)

(* There are finitely many processes. *)
LEMMA ActorsFinite == IsFiniteSet(Actors)
BY PayoutAssumption, FS_Union DEF Actors

(* One process moves: the payout has one holder more, one less or as many. *)
LEMMA HoldersChange ==
  ASSUME NEW p \in PayoutIds, NEW j \in Actors, OthersStay(j)
  PROVE  /\ Cardinality(Holders(p)) \in Nat /\ Cardinality(Holders(p)') \in Nat
         /\ (j \in Holders(p) <=> j \in Holders(p)') => Cardinality(Holders(p)') = Cardinality(Holders(p))
         /\ j \in Holders(p) /\ j \notin Holders(p)' => Cardinality(Holders(p)') + 1 = Cardinality(Holders(p))
         /\ j \notin Holders(p) /\ j \in Holders(p)' => Cardinality(Holders(p)') = Cardinality(Holders(p)) + 1
<1>1. PICK H : H = Holders(p)
  OBVIOUS
<1>2. PICK G : G = Holders(p)'
  OBVIOUS
<1>3. H \subseteq Actors /\ G \subseteq Actors
  BY <1>1, <1>2 DEF Holders
<1>4. IsFiniteSet(H) /\ IsFiniteSet(G)
  BY <1>3, ActorsFinite, FS_Subset
<1>5. Cardinality(H) \in Nat /\ Cardinality(G) \in Nat
  BY <1>4, FS_CardinalityType
<1>6. H \ {j} = G \ {j}
  BY <1>1, <1>2 DEF Holders, OthersStay
<1>7. (j \in H <=> j \in G) => H = G
  BY <1>6
<1>8. j \in H /\ j \notin G => Cardinality(G) + 1 = Cardinality(H)
  <2> SUFFICES ASSUME j \in H, j \notin G PROVE Cardinality(G) + 1 = Cardinality(H)
    OBVIOUS
  <2>1. G = H \ {j}
    BY <1>6
  <2>2. Cardinality(H \ {j}) = Cardinality(H) - 1
    BY <1>4, FS_RemoveElement
  <2> QED
    BY <1>5, <2>1, <2>2
<1>9. j \notin H /\ j \in G => Cardinality(G) = Cardinality(H) + 1
  <2> SUFFICES ASSUME j \notin H, j \in G PROVE Cardinality(G) = Cardinality(H) + 1
    OBVIOUS
  <2>1. H = G \ {j}
    BY <1>6
  <2>2. Cardinality(G \ {j}) = Cardinality(G) - 1
    BY <1>4, FS_RemoveElement
  <2> QED
    BY <1>5, <2>1, <2>2
<1> QED
  BY <1>1, <1>2, <1>5, <1>7, <1>8, <1>9

(* At first no payout has messages, holders or payments. *)
LEMMA DeliveryInit == Init => DeliveryInv
<1> SUFFICES ASSUME Init, NEW p \in PayoutIds PROVE DeliveryOK(p)
  BY DEF DeliveryInv
<1>1. Holders(p) = {}
  BY DEF Init, IdleJob, Holders, Holding
<1>2. Cardinality(Holders(p)) = 0
  BY <1>1, FS_EmptySet
<1> QED
  BY <1>2 DEF Init, DeliveryOK

(* Every step keeps the payments within the deliveries: a new payout has one *)
(* holder, who becomes a message, and the message a holder again.            *)
LEMMA DeliveryStep ==
  ASSUME TypeInv, TypeInv', DeliveryInv, [Next]_vars
  PROVE  DeliveryInv'
<1> SUFFICES ASSUME NEW p \in PayoutIds PROVE DeliveryOK(p)'
  BY DEF DeliveryInv
<1>1. /\ messages[p] \in Nat /\ paid[p] \in Nat /\ redelivered[p] \in Nat /\ RowOK(p)
      /\ messages \in [PayoutIds -> Nat] /\ paid \in [PayoutIds -> Nat] /\ redelivered \in [PayoutIds -> Nat]
  BY DEF TypeInv, TypeOK
<1>2. messages[p] + Cardinality(Holders(p)) + paid[p] <= 1 + redelivered[p]
  BY DEF DeliveryInv, DeliveryOK
<1>3. Cardinality(Holders(p)) \in Nat
  BY ActorsFinite, FS_Subset, FS_CardinalityType DEF Holders
<1>4. Step
  BY Steps
<1>5. ASSUME NEW j \in Actors, Rests(j) PROVE DeliveryOK(p)'
  <2>1. OthersStay(j) /\ messages' = messages /\ paid' = paid /\ redelivered' = redelivered
    BY <1>5 DEF Rests, Aside
  <2>2. j \notin Holders(p)'
    BY <1>5 DEF Rests, Holders, Holding
  <2>3. Cardinality(Holders(p)') <= Cardinality(Holders(p)) /\ Cardinality(Holders(p)') \in Nat
    BY <1>3, <2>1, <2>2, HoldersChange
  <2> QED
    BY <1>1, <1>2, <1>3, <2>1, <2>3 DEF DeliveryOK
<1>6. ASSUME NEW j \in Actors, NEW q \in PayoutIds, NEW amount \in Amounts, Asks(j, q, amount)
      PROVE  DeliveryOK(p)'
  <2>1. OthersStay(j) /\ jobs'[j].at = "insert" /\ messages' = messages /\ paid' = paid /\ redelivered' = redelivered
    BY <1>6, AskEffect DEF Asks, Aside
  <2>2. j \notin Holders(p)'
    BY <2>1 DEF Holders, Holding
  <2>3. Cardinality(Holders(p)') <= Cardinality(Holders(p)) /\ Cardinality(Holders(p)') \in Nat
    BY <1>3, <2>1, <2>2, HoldersChange
  <2> QED
    BY <1>1, <1>2, <1>3, <2>1, <2>3 DEF DeliveryOK
<1>7. ASSUME NEW j \in Actors, CreatePayout(j) PROVE DeliveryOK(p)'
  <2>1. /\ OthersStay(j) /\ jobs[j].at = "insert" /\ jobs'[j].at \in {"enqueue", "start"}
        /\ jobs'[j].payout = jobs[j].payout
        /\ messages' = messages /\ paid' = paid /\ redelivered' = redelivered
    BY <1>7, CreateEffect DEF CreatePayout
  <2>2. j \notin Holders(p)
    BY <2>1 DEF Holders, Holding
  <2>3. CASE jobs[j].payout = p
    <3>1. payouts[p].status = "none" /\ messages[p] = 0 /\ paid[p] = 0
      BY <1>1, <1>7, <2>3, CreateEffect DEF RowOK
    <3>2. Holders(p) = {}
      BY <3>1 DEF Holders, TypeInv, JobOK
    <3>3. Cardinality(Holders(p)) = 0
      BY <3>2, FS_EmptySet
    <3>4. j \in Holders(p)'
      BY <2>1, <2>3 DEF Holders, Holding
    <3>5. Cardinality(Holders(p)') = 1
      BY <2>1, <2>2, <3>3, <3>4, HoldersChange
    <3> QED
      BY <1>1, <2>1, <3>1, <3>5 DEF DeliveryOK
  <2>4. CASE jobs[j].payout # p
    <3>1. j \notin Holders(p)'
      BY <2>1, <2>4 DEF Holders
    <3>2. Cardinality(Holders(p)') = Cardinality(Holders(p))
      BY <2>1, <2>2, <3>1, HoldersChange
    <3> QED
      BY <1>1, <1>2, <1>3, <2>1, <3>2 DEF DeliveryOK
  <2> QED
    BY <2>3, <2>4
<1>8. ASSUME NEW r \in Requests, Enqueue(r) PROVE DeliveryOK(p)'
  <2>0. r \in Actors
    BY DEF Actors
  <2>1. /\ OthersStay(r) /\ jobs[r].at = "enqueue" /\ jobs'[r].at \in {"idle", "row"}
        /\ messages' = [messages EXCEPT ![jobs[r].payout] = @ + 1] /\ paid' = paid /\ redelivered' = redelivered
    BY <1>8, <2>0, FinishEffect DEF Enqueue
  <2>2. r \notin Holders(p)'
    BY <2>1 DEF Holders, Holding
  <2>3. CASE jobs[r].payout = p
    <3>1. r \in Holders(p)
      BY <2>0, <2>1, <2>3 DEF Holders, Holding
    <3>2. Cardinality(Holders(p)') + 1 = Cardinality(Holders(p)) /\ Cardinality(Holders(p)') \in Nat
      BY <2>0, <2>1, <2>2, <3>1, HoldersChange
    <3>3. messages'[p] = messages[p] + 1
      BY <1>1, <2>1, <2>3
    <3> QED
      BY <1>1, <1>2, <1>3, <2>1, <3>2, <3>3 DEF DeliveryOK
  <2>4. CASE jobs[r].payout # p
    <3>1. Cardinality(Holders(p)') <= Cardinality(Holders(p)) /\ Cardinality(Holders(p)') \in Nat
      BY <1>3, <2>0, <2>1, <2>2, HoldersChange
    <3>2. messages'[p] = messages[p]
      BY <1>1, <2>1, <2>4
    <3> QED
      BY <1>1, <1>2, <1>3, <2>1, <3>1, <3>2 DEF DeliveryOK
  <2> QED
    BY <2>3, <2>4
<1>9. ASSUME NEW w \in Workers, NEW q \in PayoutIds, TakeMessage(w, q) PROVE DeliveryOK(p)'
  <2>0. w \in Actors
    BY DEF Actors
  <2>1. /\ OthersStay(w) /\ jobs[w].at = "idle" /\ jobs'[w].at = "start" /\ jobs'[w].payout = q
        /\ messages[q] > 0 /\ messages' = [messages EXCEPT ![q] = @ - 1] /\ paid' = paid /\ redelivered' = redelivered
    <3>1. jobs[w].at = "idle"
      BY <1>9 DEF TakeMessage, IdleJob
    <3>2. OthersStay(w) /\ jobs'[w].at = "start" /\ jobs'[w].payout = q
      BY <1>9, <2>0, TakeEffect DEF TakeMessage
    <3>3. /\ messages[q] > 0 /\ messages' = [messages EXCEPT ![q] = @ - 1]
          /\ paid' = paid /\ redelivered' = redelivered
      BY <1>9 DEF TakeMessage
    <3> QED
      BY <3>1, <3>2, <3>3
  <2>2. w \notin Holders(p)
    BY <2>1 DEF Holders, Holding
  <2>3. CASE q = p
    <3>1. w \in Holders(p)'
      BY <2>0, <2>1, <2>3 DEF Holders, Holding
    <3>2. Cardinality(Holders(p)') = Cardinality(Holders(p)) + 1
      BY <2>0, <2>1, <2>2, <3>1, HoldersChange
    <3>3. messages'[p] = messages[p] - 1
      BY <1>1, <2>1, <2>3
    <3> QED
      BY <1>1, <1>2, <1>3, <2>1, <3>2, <3>3 DEF DeliveryOK
  <2>4. CASE q # p
    <3>1. w \notin Holders(p)'
      BY <2>1, <2>4 DEF Holders
    <3>2. Cardinality(Holders(p)') = Cardinality(Holders(p))
      BY <2>0, <2>1, <2>2, <3>1, HoldersChange
    <3>3. messages'[p] = messages[p]
      BY <1>1, <2>1, <2>4
    <3> QED
      BY <1>1, <1>2, <1>3, <2>1, <3>2, <3>3 DEF DeliveryOK
  <2> QED
    BY <2>3, <2>4
<1>10. ASSUME NEW w \in Workers, StartProcessing(w) PROVE DeliveryOK(p)'
  <2>0. w \in Actors
    BY DEF Actors
  <2>1. /\ jobs[w].at = "start" /\ jobs' = [jobs EXCEPT ![w].at = "pay"]
        /\ messages' = messages /\ paid' = paid /\ redelivered' = redelivered
    BY <1>10 DEF StartProcessing
  <2>2. OthersStay(w) /\ jobs'[w].at = "pay" /\ jobs'[w].payout = jobs[w].payout
    BY <2>0, <2>1, MoveEffect DEF Places
  <2>3. w \in Holders(p) <=> w \in Holders(p)'
    BY <2>1, <2>2 DEF Holders, Holding
  <2>4. Cardinality(Holders(p)') = Cardinality(Holders(p))
    BY <2>0, <2>2, <2>3, HoldersChange
  <2> QED
    BY <1>1, <1>2, <1>3, <2>1, <2>4 DEF DeliveryOK
<1>11. ASSUME NEW w \in Workers, PayByBank(w) PROVE DeliveryOK(p)'
  <2>0. w \in Actors
    BY DEF Actors
  <2>1. /\ jobs[w].at = "pay" /\ jobs' = [jobs EXCEPT ![w].at = "notify"]
        /\ messages' = messages /\ paid' = [paid EXCEPT ![jobs[w].payout] = @ + 1] /\ redelivered' = redelivered
    BY <1>11 DEF PayByBank
  <2>2. OthersStay(w) /\ jobs'[w].at = "notify"
    BY <2>0, <2>1, MoveEffect DEF Places
  <2>3. w \notin Holders(p)'
    BY <2>2 DEF Holders, Holding
  <2>4. CASE jobs[w].payout = p
    <3>1. w \in Holders(p)
      BY <2>0, <2>1, <2>4 DEF Holders, Holding
    <3>2. Cardinality(Holders(p)') + 1 = Cardinality(Holders(p)) /\ Cardinality(Holders(p)') \in Nat
      BY <2>0, <2>2, <2>3, <3>1, HoldersChange
    <3>3. paid'[p] = paid[p] + 1
      BY <1>1, <2>1, <2>4
    <3> QED
      BY <1>1, <1>2, <1>3, <2>1, <3>2, <3>3 DEF DeliveryOK
  <2>5. CASE jobs[w].payout # p
    <3>1. Cardinality(Holders(p)') <= Cardinality(Holders(p)) /\ Cardinality(Holders(p)') \in Nat
      BY <1>3, <2>0, <2>2, <2>3, HoldersChange
    <3>2. paid'[p] = paid[p]
      BY <1>1, <2>1, <2>5
    <3> QED
      BY <1>1, <1>2, <1>3, <2>1, <3>1, <3>2 DEF DeliveryOK
  <2> QED
    BY <2>4, <2>5
<1>12. ASSUME jobs' = jobs PROVE Cardinality(Holders(p)') = Cardinality(Holders(p))
  BY <1>12 DEF Holders
<1>13. ASSUME NEW q \in PayoutIds, Redeliver(q) PROVE DeliveryOK(p)'
  <2>1. /\ messages' = [messages EXCEPT ![q] = @ + 1] /\ redelivered' = [redelivered EXCEPT ![q] = @ + 1]
        /\ jobs' = jobs /\ paid' = paid
    BY <1>13 DEF Redeliver
  <2>2. IF q = p THEN messages'[p] = messages[p] + 1 /\ redelivered'[p] = redelivered[p] + 1
                 ELSE messages'[p] = messages[p] /\ redelivered'[p] = redelivered[p]
    BY <1>1, <2>1
  <2>3. Cardinality(Holders(p)') = Cardinality(Holders(p))
    BY <1>12, <2>1
  <2> QED
    BY <1>1, <1>2, <1>3, <2>1, <2>2, <2>3 DEF DeliveryOK
<1>14. CASE Midnight \/ UNCHANGED <<jobs, payouts, messages, paid, redelivered>>
  <2>1. UNCHANGED <<jobs, messages, paid, redelivered>>
    BY <1>14 DEF Midnight
  <2>2. Cardinality(Holders(p)') = Cardinality(Holders(p))
    BY <1>12, <2>1
  <2> QED
    BY <1>1, <1>2, <1>3, <2>1, <2>2 DEF DeliveryOK
<1> QED
  BY <1>4, <1>5, <1>6, <1>7, <1>8, <1>9, <1>10, <1>11, <1>13, <1>14 DEF Step

(* The bank pays a payout once, and once more for each message that the *)
(* broker hands out again, whatever statements raise and whichever      *)
(* processes are killed.                                                *)
THEOREM PaidOncePerDeliveryCorrect == Spec => []PaidOncePerDelivery
<1>1. TypeInv /\ DeliveryInv => PaidOncePerDelivery
  <2> SUFFICES ASSUME TypeInv, DeliveryInv, NEW p \in PayoutIds PROVE paid[p] <= 1 + redelivered[p]
    BY DEF TypeInv, PaidOncePerDelivery
  <2>1. messages[p] \in Nat /\ paid[p] \in Nat /\ redelivered[p] \in Nat
    BY Fields
  <2>2. Cardinality(Holders(p)) \in Nat
    BY ActorsFinite, FS_Subset, FS_CardinalityType DEF Holders
  <2>3. messages[p] + Cardinality(Holders(p)) + paid[p] <= 1 + redelivered[p]
    BY DEF DeliveryInv, DeliveryOK
  <2> QED
    BY <2>1, <2>2, <2>3
<1>2. TypeInv /\ TypeInv' /\ DeliveryInv /\ [Next]_vars => DeliveryInv'
  BY DeliveryStep
<1> QED
  BY <1>1, <1>2, DeliveryInit, TypeInvariant, PTL DEF Spec

-----------------------------------------------------------------------------
(* Payouts nobody is going to pay *)

Lost == {p \in PayoutIds : Stranded(p)}

StrandInv == IsFiniteSet(Lost) /\ Cardinality(Lost) <= faults

(* A process that goes away from other payouts, or stays with this one, does *)
(* not strand it while its messages wait.                                    *)
LEMMA StaysStranded ==
  ASSUME NEW p \in PayoutIds, NEW j \in Actors, OthersStay(j), Stranded(p)',
         payouts'[p].status \in {"queued", "processing"} =>
           payouts[p].status \in {"queued", "processing"},
         messages'[p] = 0 => messages[p] = 0,
         jobs[j].at \in Holding => jobs[j].payout # p
  PROVE  Stranded(p)
<1>1. ASSUME NEW i \in Actors, jobs[i].payout = p PROVE jobs[i].at \notin {"enqueue", "start", "pay"}
  <2>1. CASE i = j
    BY <1>1, <2>1 DEF Holding
  <2>2. CASE i # j
    BY <1>1, <2>2 DEF OthersStay, Stranded
  <2> QED
    BY <2>1, <2>2
<1> QED
  BY <1>1 DEF Stranded

(* Whoever works on a payout, or has it in hand to send, keeps it from being *)
(* stranded.                                                                 *)
LEMMA HeldIsNot ==
  ASSUME NEW p \in PayoutIds, NEW j \in Actors, jobs'[j].at \in Holding, jobs'[j].payout = p
  PROVE  ~Stranded(p)'
BY DEF Stranded, Holding

(* A step without a fault strands no payout. *)
LEMMA CalmStep ==
  ASSUME TypeInv, [Next]_vars, NEW p \in PayoutIds, Stranded(p)',
         \A j \in Actors : ~StatementRaises(j) /\ ~Killed(j)
  PROVE  Stranded(p)
<1>0. \A j : j \in Requests \/ j \in Workers => j \in Actors
  BY DEF Actors
<1>1. messages \in [PayoutIds -> Nat] /\ jobs \in [Actors -> Job] /\ \A j \in Actors : JobOK(j)
  BY Fields DEF TypeInv, TypeOK
<1>2. CASE UNCHANGED <<payouts, jobs, messages>>
  BY <1>2 DEF Stranded
<1>3. ASSUME NEW j \in Actors, UNCHANGED <<payouts, messages>>, jobs[j].at \notin Holding,
             FinishPayout(j) \/ (jobs[j].rows > 0 /\ NextRow(j)) \/ jobs' = [jobs EXCEPT ![j] = IdleJob]
      PROVE  Stranded(p)
  BY <1>3, FinishEffect, StaysStranded
<1>4. ASSUME NEW j \in Actors, NEW q \in PayoutIds, NEW a \in Amounts, jobs[j].at \notin Holding,
             UNCHANGED <<payouts, messages>>, AskFor(j, q, a)
      PROVE  Stranded(p)
  BY <1>4, AskEffect, StaysStranded
<1>5. ASSUME NEW j \in Actors, CreatePayout(j) PROVE Stranded(p)
  <2>1. /\ jobs[j].at \notin Holding /\ OthersStay(j) /\ UNCHANGED messages
        /\ jobs'[j].at \in Holding /\ jobs'[j].payout = jobs[j].payout
        /\ \A q \in PayoutIds : q # jobs[j].payout => payouts'[q] = payouts[q]
    BY <1>5, CreateEffect DEF CreatePayout, Holding
  <2>2. p # jobs[j].payout
    BY <2>1, HeldIsNot
  <2> QED
    BY <2>1, <2>2, StaysStranded
<1>6. ASSUME NEW r \in Requests, Enqueue(r) PROVE Stranded(p)
  <2>1. /\ r \in Actors /\ jobs[r].at = "enqueue" /\ jobs' = [jobs EXCEPT ![r] = IdleJob]
        /\ messages' = [messages EXCEPT ![jobs[r].payout] = @ + 1] /\ UNCHANGED payouts
    BY <1>0, <1>6 DEF Enqueue
  <2>2. CASE jobs[r].payout = p
    BY <1>1, <2>1, <2>2 DEF Stranded
  <2>3. CASE jobs[r].payout # p
    <3>1. OthersStay(r)
      BY <2>1, FinishEffect
    <3>2. messages'[p] = messages[p]
      BY <1>1, <2>1, <2>3
    <3> QED
      BY <2>1, <2>3, <3>1, <3>2, StaysStranded
  <2> QED
    BY <2>2, <2>3
<1>7. ASSUME NEW w \in Workers, NEW q \in PayoutIds, TakeMessage(w, q) PROVE Stranded(p)
  <2>1. /\ w \in Actors /\ jobs[w].at \notin Holding /\ UNCHANGED payouts
        /\ messages' = [messages EXCEPT ![q] = @ - 1]
        /\ jobs' = [jobs EXCEPT ![w].at = "start", ![w].payout = q]
    BY <1>0, <1>7 DEF TakeMessage, IdleJob, Holding
  <2>2. OthersStay(w) /\ jobs'[w].at \in Holding /\ jobs'[w].payout = q
    BY <2>1, TakeEffect DEF Holding
  <2>3. q # p
    BY <2>1, <2>2, HeldIsNot
  <2>4. messages'[p] = messages[p]
    BY <1>1, <2>1, <2>3
  <2> QED
    BY <2>1, <2>2, <2>4, StaysStranded
<1>8. ASSUME NEW w \in Workers, StartProcessing(w) PROVE Stranded(p)
  <2>1. /\ w \in Actors /\ jobs[w].at = "start" /\ jobs[w].payout \in PayoutIds
        /\ payouts' = [payouts EXCEPT ![jobs[w].payout].status = "processing"]
        /\ jobs' = [jobs EXCEPT ![w].at = "pay"] /\ UNCHANGED messages
    BY <1>0, <1>1, <1>8 DEF StartProcessing, JobOK, Holding
  <2>2. OthersStay(w) /\ jobs'[w].at = "pay" /\ jobs'[w].payout = jobs[w].payout
    BY <2>1, MoveEffect DEF Places
  <2>3. jobs[w].payout # p
    BY <2>1, <2>2, HeldIsNot DEF Holding
  <2>4. payouts'[p] = payouts[p]
    BY <2>1, <2>3, StatusEffect
  <2> QED
    BY <2>1, <2>2, <2>3, <2>4, StaysStranded
<1>9. ASSUME NEW w \in Workers, PayByBank(w) PROVE Stranded(p)
  <2>1. /\ w \in Actors /\ jobs[w].at = "pay" /\ jobs[w].payout \in PayoutIds
        /\ payouts' = [payouts EXCEPT ![jobs[w].payout].status = "processed"]
        /\ jobs' = [jobs EXCEPT ![w].at = "notify"] /\ UNCHANGED messages
    BY <1>0, <1>1, <1>9 DEF PayByBank, AfterBank, JobOK, Holding
  <2>2. OthersStay(w)
    BY <2>1, MoveEffect DEF Places
  <2>3. payouts'[jobs[w].payout].status = "processed"
    BY <2>1, StatusEffect
  <2>4. jobs[w].payout # p
    BY <2>3 DEF Stranded
  <2>5. payouts'[p] = payouts[p]
    BY <2>1, <2>4, StatusEffect
  <2> QED
    BY <2>1, <2>2, <2>4, <2>5, StaysStranded
<1>10. ASSUME NEW q \in PayoutIds, Redeliver(q) PROVE Stranded(p)
  <2>1. UNCHANGED <<payouts, jobs>> /\ messages' = [messages EXCEPT ![q] = @ + 1]
    BY <1>10 DEF Redeliver
  <2>2. messages[q] \in Nat /\ messages[p] \in Nat
    BY <1>1
  <2>3. messages'[p] = 0 => messages[p] = 0
    BY <1>1, <2>1, <2>2
  <2> QED
    BY <2>1, <2>3 DEF Stranded
<1>11. CASE Midnight
  <2>1. UNCHANGED <<jobs, messages>>
        /\ payouts' = [q \in PayoutIds |-> [payouts[q] EXCEPT !.today = FALSE]]
    BY <1>11 DEF Midnight
  <2>2. payouts[p] \in Row
    BY Fields
  <2>3. payouts'[p].status = payouts[p].status
    BY <2>1, <2>2 DEF Row
  <2> QED
    BY <2>1, <2>3 DEF Stranded
<1>12. ASSUME NEW r \in Requests, NEW q \in PayoutIds, NEW a \in Amounts, RequestPayout(r, q, a)
       PROVE  Stranded(p)
  BY <1>0, <1>4, <1>12 DEF RequestPayout, IdleJob, Holding
<1>13. ASSUME NEW w \in Workers, TakeRow(w) PROVE Stranded(p)
  <2>1. w \in Actors /\ jobs[w].at \notin Holding /\ jobs[w].rows > 0 /\ UNCHANGED <<payouts, messages>>
    BY <1>0, <1>13 DEF TakeRow, Holding
  <2>2. (\E q \in PayoutIds, a \in Amounts : AskFor(w, q, a)) \/ NextRow(w)
    BY <1>13 DEF TakeRow
  <2> QED
    BY <1>3, <1>4, <2>1, <2>2
<1>14. ASSUME NEW w \in Workers, TakeFile(w) PROVE Stranded(p)
  <2>1. /\ w \in Actors /\ jobs[w].at \notin Holding /\ UNCHANGED <<payouts, messages>>
    BY <1>0, <1>14 DEF TakeFile, IdleJob, Holding
  <2>2. OthersStay(w)
    <3>1. PICK rows \in files : jobs' = [jobs EXCEPT ![w].at = "row", ![w].rows = rows]
      BY <1>14 DEF TakeFile
    <3>2. PICK k : jobs' = [jobs EXCEPT ![w] = k]
      BY <3>1
    <3> QED
      BY <1>1, <3>2 DEF OthersStay
  <2> QED
    BY <2>1, <2>2, StaysStranded
<1>15. ASSUME NEW w \in Workers, FinishFile(w) \/ Notify(w) PROVE Stranded(p)
  BY <1>0, <1>3, <1>15 DEF FinishFile, Notify, Holding
<1>16. ASSUME NEW j \in Actors, RejectDetails(j) PROVE Stranded(p)
  BY <1>3, <1>16 DEF RejectDetails, Holding
<1>17. \/ UNCHANGED <<payouts, jobs, messages>>
       \/ \E r \in Requests : Serve(r) \/ \E q \in PayoutIds, a \in Amounts : RequestPayout(r, q, a)
       \/ \E w \in Workers : Work(w)
       \/ \E j \in Actors : RejectDetails(j)
       \/ \E q \in PayoutIds : Redeliver(q)
       \/ Midnight
  BY DEF Next, vars, Quiescent, SubmitFile
<1> QED
  BY <1>0, <1>2, <1>5, <1>6, <1>7, <1>8, <1>9, <1>10, <1>11, <1>12, <1>13, <1>14, <1>15, <1>16, <1>17
  DEF Serve, Work

(* A fault strands at most the payout its process was at. *)
LEMMA FaultStep ==
  ASSUME TypeInv, NEW j \in Actors, StatementRaises(j) \/ Killed(j),
         NEW p \in PayoutIds, p # jobs[j].payout, Stranded(p)'
  PROVE  Stranded(p)
<1>1. UNCHANGED <<payouts, messages>>
  BY DEF StatementRaises, Killed, AckEarly
<1>2. FinishPayout(j) \/ jobs' = [jobs EXCEPT ![j] = IdleJob]
  BY DEF StatementRaises, Killed
<1>3. OthersStay(j)
  BY <1>2, FinishEffect
<1> QED
  BY <1>1, <1>3, StaysStranded

(* Every step strands at most as many payouts as it has faults. *)
LEMMA StrandStep ==
  ASSUME TypeInv, StrandInv, [Next]_vars
  PROVE  StrandInv'
<1>1. faults \in Nat
  BY PayoutAssumption DEF TypeInv, TypeOK
<1>2. ASSUME NEW j \in Actors, StatementRaises(j) \/ Killed(j) PROVE StrandInv'
  <2>1. faults' = faults + 1
    BY <1>2 DEF StatementRaises, Killed
  <2>2. Lost' \subseteq Lost \cup {jobs[j].payout}
    BY <1>2, FaultStep DEF Lost
  <2>3. IsFiniteSet(Lost') /\ Cardinality(Lost') <= faults + 1
    BY <1>1, <2>2, GrowsByOne DEF StrandInv
  <2> QED
    BY <2>1, <2>3 DEF StrandInv
<1>3. CASE \A j \in Actors : ~StatementRaises(j) /\ ~Killed(j)
  <2>1. UNCHANGED faults
    BY <1>3 DEF Next, vars, Serve, Work, RequestPayout, RejectDetails, CreatePayout, Enqueue,
                SubmitFile, TakeMessage, TakeFile, TakeRow, FinishFile, StartProcessing, PayByBank,
                Notify, Redeliver, Midnight, Quiescent
  <2>2. Lost' \subseteq Lost
    BY <1>3, CalmStep DEF Lost
  <2>3. IsFiniteSet(Lost') /\ Cardinality(Lost') <= faults
    BY <1>1, <2>2, GrowsByNone DEF StrandInv
  <2> QED
    BY <2>1, <2>3 DEF StrandInv
<1> QED
  BY <1>2, <1>3

(* No more payouts are stranded than processes were killed and statements      *)
(* raised, for any number of both, of bulk files and of redelivered messages.  *)
THEOREM StrandedByFaultCorrect == Spec => []StrandedByFault
<1>1. Init => StrandInv
  <2> SUFFICES ASSUME Init PROVE StrandInv
    OBVIOUS
  <2>1. Lost = {} /\ faults = 0
    BY DEF Init, Lost, Stranded, NoPayout
  <2> QED
    BY <2>1, FS_EmptySet DEF StrandInv
<1>2. TypeInv /\ StrandInv /\ [Next]_vars => StrandInv'
  BY StrandStep
<1>3. StrandInv => StrandedByFault
  BY DEF StrandInv, StrandedByFault, Lost
<1> QED
  BY <1>1, <1>2, <1>3, TypeInvariant, PTL DEF Spec

-----------------------------------------------------------------------------
(* How far the limit is overshot *)

(* What is paid out today, as a sum of module FiniteSums. *)
Out == {p \in PayoutIds : payouts[p].today /\ payouts[p].status # "none"}
OutAmounts == [p \in PayoutIds |-> payouts[p].amount]
Spent == SumOver(OutAmounts, Out)

(* What the processes that have passed the check are about to insert. *)
Asked == {j \in Actors : jobs[j].at = "insert"}
AskedAmounts == [j \in Actors |-> jobs[j].amount]
Claimed == SumOver(AskedAmounts, Asked)

(* What all processes but one can ask for at the same time. *)
Slack == (Cardinality(Actors) - 1) * Largest(Amounts)

(* The check is passed with what is paid out, whatever the others claim: so *)
(* what is paid out and what is claimed stay within the limit and the slack. *)
OvershootInv == Spent + Claimed <= DailyLimit + Slack

(* A finite set of amounts has a largest one. *)
LEMMA LargestAmount ==
  ASSUME Amounts # {}
  PROVE  /\ Largest(Amounts) \in Amounts /\ Largest(Amounts) \in Nat /\ Largest(Amounts) <= DailyLimit
         /\ \A a \in Amounts : a <= Largest(Amounts)
<1> DEFINE S == {DailyLimit - a : a \in Amounts}
<1>0. DailyLimit \in Nat
  BY PayoutAssumption
<1>1. S \in SUBSET Nat
  BY <1>0, AmountsFit
<1>2. S # {}
  OBVIOUS
<1>3. PICK m \in S : \A n \in S : m <= n
  <2> HIDE DEF S
  <2> QED
    BY <1>1, <1>2, Least
<1>4. PICK a \in Amounts : m = DailyLimit - a
  BY <1>3
<1>5. \A b \in Amounts : b <= a
  BY <1>0, <1>3, <1>4, AmountsFit
<1>6. Largest(Amounts) \in Amounts /\ \A b \in Amounts : b <= Largest(Amounts)
  BY <1>5 DEF Largest
<1> QED
  BY <1>6, AmountsFit

(* The model's sum over any payouts is the one of module FiniteSums. *)
OutSums ==
  \A P \in SUBSET PayoutIds :
    MapThenSumSet(LAMBDA p : payouts[p].amount, P) = SumOver(OutAmounts, P)

(* Both sums agree on every set of payouts. *)
LEMMA OutSum == OutSums
<1> SUFFICES ASSUME NEW P \in SUBSET PayoutIds
             PROVE  MapThenSumSet(LAMBDA p : payouts[p].amount, P) = SumOver(OutAmounts, P)
  BY DEF OutSums
<1>0. IsFiniteSet(P)
  BY PayoutAssumption, FS_Subset
<1> DEFINE Sums(g) == g = [s \in SUBSET P |-> IF s = {} THEN 0
                                              ELSE payouts[Pick(s)].amount + g[s \ {Pick(s)}]]
           g == CHOOSE g : Sums(g)
<1>1. MapThenSumSet(LAMBDA p : payouts[p].amount, P) = g[P]
  BY DEF MapThenSumSet, MapThenFoldSet, Pick
<1>2. PICK h : IsSum(h, OutAmounts, P)
  BY <1>0, SumExists
<1>3. \A s \in SUBSET P : s # {} => OutAmounts[Pick(s)] = payouts[Pick(s)].amount
  BY PickIn DEF OutAmounts
<1>4. \A k : IsSum(k, OutAmounts, P) <=> Sums(k)
  BY <1>3 DEF IsSum
<1>5. IsSum(g, OutAmounts, P)
  BY <1>2, <1>4
<1> QED
  BY <1>0, <1>1, <1>5, SumIs

(* What is paid out, and what the check adds up: no payout is ever failed. *)
LEMMA SpentIs ==
  ASSUME TypeInv
  PROVE  PaidOutToday = Spent /\ TotalToday = Spent /\ Spent \in Nat /\ IsFiniteSet(Out)
<1>1. Out \in SUBSET PayoutIds /\ IsFiniteSet(Out)
  BY PayoutAssumption, FS_Subset DEF Out
<1>2. MapThenSumSet(LAMBDA p : payouts[p].amount, Out) = Spent
  BY <1>1, OutSum DEF OutSums, Spent
<1>3. {p \in PayoutIds : Counts(p)} = Out
  BY DEF Counts, Out, TypeInv, RowOK
<1>4. \A p \in Out : OutAmounts[p] \in Nat
  BY Fields DEF Out, OutAmounts, Row
<1>5. Spent \in Nat
  BY <1>1, <1>4, SumIsNatural DEF Spent
<1> QED
  BY <1>1, <1>2, <1>3, <1>5 DEF PaidOutToday, TotalToday, Out

(* Products of the slack. *)
LEMMA SlackIs ==
  ASSUME Amounts # {}
  PROVE  /\ Cardinality(Actors) \in Nat /\ Slack \in Int
         /\ Cardinality(Actors) * Largest(Amounts) = Slack + Largest(Amounts)
         /\ Cardinality(Actors) * Largest(Amounts) \in Nat
<1>1. Cardinality(Actors) \in Nat /\ Largest(Amounts) \in Nat
  BY ActorsFinite, FS_CardinalityType, LargestAmount
<1> QED
  BY <1>1 DEF Slack

(* Products with a natural number keep an order. *)
LEMMA TimesMonotonic ==
  ASSUME NEW a \in Nat, NEW b \in Nat, a <= b, NEW m \in Nat
  PROVE  a * m <= b * m
OBVIOUS

(* The claims are natural numbers, none larger than the largest amount. *)
LEMMA ClaimsBounded ==
  ASSUME TypeInv, Amounts # {}
  PROVE  /\ IsFiniteSet(Asked) /\ Asked \subseteq Actors
         /\ \A j \in Asked : AskedAmounts[j] \in Nat /\ AskedAmounts[j] <= Largest(Amounts)
         /\ Claimed \in Nat /\ Claimed <= Slack + Largest(Amounts)
         /\ \A j \in Actors : j \notin Asked => Claimed <= Slack
<1>1. Asked \subseteq Actors /\ IsFiniteSet(Asked)
  BY ActorsFinite, FS_Subset DEF Asked
<1>2. ASSUME NEW j \in Asked PROVE AskedAmounts[j] \in Nat /\ AskedAmounts[j] <= Largest(Amounts)
  <2>1. jobs[j].amount \in Amounts /\ AskedAmounts[j] = jobs[j].amount
    BY DEF Asked, AskedAmounts, TypeInv, JobOK
  <2> QED
    BY <2>1, AmountsFit, LargestAmount
<1>3. Claimed \in Nat
  BY <1>1, <1>2, SumIsNatural DEF Claimed
<1>4. Claimed <= Cardinality(Asked) * Largest(Amounts)
  BY <1>1, <1>2, LargestAmount, SumIsBounded DEF Claimed
<1>5. Cardinality(Asked) \in Nat /\ Cardinality(Actors) \in Nat /\ Cardinality(Asked) <= Cardinality(Actors)
  BY <1>1, ActorsFinite, FS_CardinalityType, FS_Subset
<1>6. Claimed <= Slack + Largest(Amounts)
  <2>1. Cardinality(Asked) * Largest(Amounts) <= Cardinality(Actors) * Largest(Amounts)
    BY <1>5, LargestAmount, TimesMonotonic
  <2>2. Cardinality(Asked) * Largest(Amounts) \in Nat
    BY <1>5, LargestAmount
  <2> QED
    BY <1>3, <1>4, <2>1, <2>2, SlackIs, LargestAmount
<1>7. ASSUME NEW j \in Actors, j \notin Asked PROVE Claimed <= Slack
  <2>1. Cardinality(Actors \ {j}) = Cardinality(Actors) - 1 /\ IsFiniteSet(Actors \ {j})
    BY ActorsFinite, FS_RemoveElement
  <2>2. Asked \subseteq Actors \ {j}
    BY <1>1, <1>7
  <2>3. Cardinality(Asked) <= Cardinality(Actors \ {j}) /\ Cardinality(Actors \ {j}) \in Nat
    BY <2>1, <2>2, FS_Subset, FS_CardinalityType
  <2>4. Cardinality(Asked) * Largest(Amounts) <= Cardinality(Actors \ {j}) * Largest(Amounts)
    BY <1>5, <2>3, LargestAmount, TimesMonotonic
  <2>5. Cardinality(Actors \ {j}) * Largest(Amounts) = Slack
    BY <2>1 DEF Slack
  <2>6. Cardinality(Asked) * Largest(Amounts) \in Nat /\ Slack \in Int
    BY <1>5, LargestAmount, SlackIs
  <2> QED
    BY <1>3, <1>4, <2>4, <2>5, <2>6
<1> QED
  BY <1>1, <1>2, <1>3, <1>6, <1>7

(* A process that claims nothing after its step takes back what it claimed. *)
LEMMA ClaimLeaves ==
  ASSUME TypeInv, Amounts # {}, NEW j \in Actors, OthersStay(j), jobs'[j].at # "insert"
  PROVE  /\ Claimed' \in Nat /\ Claimed' <= Claimed
         /\ j \in Asked => Claimed = jobs[j].amount + Claimed'
         /\ j \notin Asked => Claimed' = Claimed
<1>1. Asked' = Asked \ {j}
  BY DEF Asked, OthersStay
<1>2. PICK A : A = Asked
  OBVIOUS
<1>3. PICK f : f = AskedAmounts
  OBVIOUS
<1>4. PICK g : g = AskedAmounts'
  OBVIOUS
<1>5. IsFiniteSet(A) /\ (\A i \in A : f[i] \in Nat) /\ A \subseteq Actors
  BY <1>2, <1>3, ClaimsBounded
<1>6. IsFiniteSet(A \ {j})
  BY <1>5, FS_Subset
<1>7. \A i \in A \ {j} : g[i] = f[i]
  BY <1>3, <1>4, <1>5 DEF AskedAmounts, OthersStay
<1>8. Claimed' = SumOver(g, A \ {j}) /\ Claimed = SumOver(f, A)
  BY <1>1, <1>2, <1>3, <1>4 DEF Claimed
<1>9. SumOver(g, A \ {j}) = SumOver(f, A \ {j}) /\ SumOver(f, A \ {j}) \in Nat
  <2>1. SumOver(g, A \ {j}) = SumOver(f, A \ {j})
    BY <1>6, <1>7, SumDependsOn
  <2>2. SumOver(f, A \ {j}) \in Nat
    BY <1>5, <1>6, SumIsNatural
  <2> QED
    BY <2>1, <2>2
<1>10. CASE j \in Asked
  <2>1. j \in A /\ f[j] = jobs[j].amount /\ f[j] \in Nat
    BY <1>2, <1>3, <1>5, <1>10 DEF AskedAmounts
  <2>2. \A i \in A : f[i] \in Int
    BY <1>5
  <2>3. SumOver(f, A) = f[j] + SumOver(f, A \ {j})
    BY <1>5, <2>1, <2>2, SumSplits
  <2> QED
    BY <1>8, <1>9, <1>10, <2>1, <2>3
<1>11. CASE j \notin Asked
  <2>1. A \ {j} = A
    BY <1>2, <1>11
  <2> QED
    BY <1>8, <1>9, <1>11, <2>1
<1> QED
  BY <1>10, <1>11

(* A process that claimed nothing and asks claims what it asks for. *)
LEMMA ClaimJoins ==
  ASSUME TypeInv, Amounts # {}, NEW j \in Actors, OthersStay(j), j \notin Asked,
         jobs'[j].at = "insert", jobs'[j].amount \in Nat
  PROVE  Claimed' = jobs'[j].amount + Claimed
<1>1. Asked' = Asked \cup {j}
  BY DEF Asked, OthersStay
<1>2. PICK A : A = Asked
  OBVIOUS
<1>3. PICK f : f = AskedAmounts
  OBVIOUS
<1>4. PICK g : g = AskedAmounts'
  OBVIOUS
<1>5. IsFiniteSet(A) /\ (\A i \in A : f[i] \in Nat) /\ A \subseteq Actors
  BY <1>2, <1>3, ClaimsBounded
<1>6. j \notin A /\ IsFiniteSet(A \cup {j}) /\ (A \cup {j}) \ {j} = A
  BY <1>2, <1>5, FS_AddElement
<1>7. (\A i \in A : g[i] = f[i]) /\ g[j] = jobs'[j].amount
  BY <1>3, <1>4, <1>5, <1>6 DEF AskedAmounts, OthersStay
<1>8. Claimed' = SumOver(g, A \cup {j}) /\ Claimed = SumOver(f, A)
  BY <1>1, <1>2, <1>3, <1>4 DEF Claimed
<1>9. SumOver(g, A) = SumOver(f, A)
  BY <1>5, <1>7, SumDependsOn
<1>10. \A i \in A \cup {j} : g[i] \in Int
  BY <1>5, <1>7
<1>11. SumOver(g, A \cup {j}) = g[j] + SumOver(g, (A \cup {j}) \ {j})
  BY <1>6, <1>10, SumSplits
<1> QED
  BY <1>6, <1>7, <1>8, <1>9, <1>11

(* What is paid out stays, as long as the same payouts count with the same *)
(* amounts.                                                                *)
LEMMA SpentStays ==
  ASSUME TypeInv,
         \A p \in PayoutIds :
           /\ payouts'[p].amount = payouts[p].amount /\ payouts'[p].today = payouts[p].today
           /\ payouts'[p].status # "none" <=> payouts[p].status # "none"
  PROVE  Spent' = Spent
<1>1. Out' = Out
  BY DEF Out
<1>2. PICK U : U = Out
  OBVIOUS
<1>3. PICK f : f = OutAmounts
  OBVIOUS
<1>4. PICK g : g = OutAmounts'
  OBVIOUS
<1>5. IsFiniteSet(U) /\ U \subseteq PayoutIds
  BY <1>2, SpentIs DEF Out
<1>6. \A p \in U : g[p] = f[p]
  BY <1>3, <1>4, <1>5 DEF OutAmounts
<1>7. SumOver(g, U) = SumOver(f, U)
  BY <1>5, <1>6, SumDependsOn
<1>8. Spent' = SumOver(g, U) /\ Spent = SumOver(f, U)
  BY <1>1, <1>2, <1>3, <1>4 DEF Spent
<1> QED
  BY <1>7, <1>8

(* A new payout adds its amount. *)
LEMMA SpentGrows ==
  ASSUME TypeInv, NEW j \in Actors, CreatePayout(j)
  PROVE  Spent' = jobs[j].amount + Spent
<1>1. PICK p \in PayoutIds : p = jobs[j].payout
  BY CreateEffect
<1>2. /\ jobs[j].amount \in Nat /\ payouts[p].status = "none"
      /\ payouts'[p].status = "queued" /\ payouts'[p].today /\ payouts'[p].amount = jobs[j].amount
      /\ \A q \in PayoutIds : q # p => payouts'[q] = payouts[q]
  BY <1>1, CreateEffect
<1>3. PICK U : U = Out
  OBVIOUS
<1>4. PICK f : f = OutAmounts
  OBVIOUS
<1>5. PICK g : g = OutAmounts'
  OBVIOUS
<1>6. Out' = U \cup {p} /\ p \notin U
  BY <1>2, <1>3 DEF Out
<1>7. IsFiniteSet(U) /\ U \subseteq PayoutIds /\ (\A q \in U : f[q] \in Nat)
  BY <1>3, <1>4, SpentIs, Fields DEF Out, OutAmounts, Row
<1>8. IsFiniteSet(U \cup {p}) /\ (U \cup {p}) \ {p} = U
  BY <1>6, <1>7, FS_AddElement
<1>9. (\A q \in U : g[q] = f[q]) /\ g[p] = jobs[j].amount
  BY <1>2, <1>4, <1>5, <1>6, <1>7 DEF OutAmounts
<1>10. \A q \in U \cup {p} : g[q] \in Int
  BY <1>2, <1>7, <1>9
<1>11. SumOver(g, U \cup {p}) = g[p] + SumOver(g, (U \cup {p}) \ {p})
  BY <1>8, <1>10, SumSplits
<1>12. SumOver(g, U) = SumOver(f, U)
  BY <1>7, <1>9, SumDependsOn
<1>13. Spent' = SumOver(g, U \cup {p}) /\ Spent = SumOver(f, U)
  BY <1>3, <1>4, <1>5, <1>6 DEF Spent
<1> QED
  BY <1>8, <1>9, <1>11, <1>12, <1>13

(* At first nothing is paid out and nothing claimed. *)
LEMMA OvershootInit == ASSUME Init, Amounts # {} PROVE OvershootInv
<1>1. Out = {} /\ Asked = {}
  BY DEF Init, NoPayout, IdleJob, Out, Asked
<1>2. Spent = 0 /\ Claimed = 0
  BY <1>1, SumOfNothing DEF Spent, Claimed
<1>3. Slack \in Int /\ DailyLimit \in Nat /\ Cardinality(Actors) * Largest(Amounts) \in Nat
      /\ Cardinality(Actors) * Largest(Amounts) = Slack + Largest(Amounts)
      /\ Largest(Amounts) \in Nat /\ Largest(Amounts) <= DailyLimit
  BY SlackIs, LargestAmount, PayoutAssumption
<1>4. 0 <= DailyLimit + Slack
  BY <1>3
<1> QED
  BY <1>2, <1>4 DEF OvershootInv

(* No step passes the bound: the check is made with what is paid out, the *)
(* insertion moves a claim to what is paid out, midnight forgets that.    *)
LEMMA OvershootStep ==
  ASSUME Amounts # {}, TypeInv, TypeInv', OvershootInv, [Next]_vars
  PROVE  OvershootInv'
<1>0. Step
  BY Steps
<1>1. /\ Spent \in Nat /\ Claimed \in Nat /\ Slack \in Int /\ DailyLimit \in Nat
      /\ Spent + Claimed <= DailyLimit + Slack
      /\ Slack' = Slack
  BY SpentIs, ClaimsBounded, SlackIs, PayoutAssumption DEF OvershootInv, Slack
<1>2. ASSUME NEW j \in Actors, Rests(j) PROVE OvershootInv'
  <2>1. OthersStay(j) /\ jobs'[j].at # "insert" /\ payouts' = payouts
    BY <1>2 DEF Rests, Aside
  <2>2. Claimed' \in Nat /\ Claimed' <= Claimed
    BY <2>1, ClaimLeaves
  <2>3. Spent' = Spent
    BY <2>1, SpentStays
  <2>4. \A spent, before, after \in Nat : \A bound \in Int :
          after <= before /\ spent + before <= bound => spent + after <= bound
    OBVIOUS
  <2>5. DailyLimit + Slack \in Int
    BY <1>1
  <2>6. Spent + Claimed' <= DailyLimit + Slack
    BY <1>1, <2>2, <2>4, <2>5
  <2> QED
    BY <1>1, <2>3, <2>6 DEF OvershootInv
<1>3. ASSUME NEW j \in Actors, NEW p \in PayoutIds, NEW amount \in Amounts, Asks(j, p, amount)
      PROVE  OvershootInv'
  <2>1. /\ j \notin Asked /\ OthersStay(j) /\ jobs'[j].at = "insert" /\ jobs'[j].amount = amount
        /\ payouts' = payouts /\ amount \in Nat
    <3>1. j \notin Asked /\ payouts' = payouts
      BY <1>3 DEF Asks, Asked, Aside
    <3>2. OthersStay(j) /\ jobs'[j].at = "insert" /\ jobs'[j].amount = amount
      BY <1>3, AskEffect DEF Asks
    <3> QED
      BY <3>1, <3>2, AmountsFit
  <2>2. Claimed' = amount + Claimed
    BY <2>1, ClaimJoins
  <2>3. Spent' = Spent
    BY <2>1, SpentStays
  <2>4. Spent + amount <= DailyLimit
    BY <1>3, SpentIs DEF Asks, AskFor, WithinLimit
  <2>5. Claimed <= Slack
    BY <2>1, ClaimsBounded
  <2> QED
    BY <1>1, <2>1, <2>2, <2>3, <2>4, <2>5 DEF OvershootInv
<1>4. ASSUME NEW j \in Actors, CreatePayout(j) PROVE OvershootInv'
  <2>1. j \in Asked /\ OthersStay(j) /\ jobs'[j].at # "insert" /\ jobs[j].amount \in Nat
    BY <1>4, CreateEffect DEF CreatePayout, Asked
  <2>2. Claimed' \in Nat /\ Claimed = jobs[j].amount + Claimed'
    BY <2>1, ClaimLeaves
  <2>3. Spent' = jobs[j].amount + Spent
    BY <1>4, SpentGrows
  <2> QED
    BY <1>1, <2>1, <2>2, <2>3 DEF OvershootInv
<1>5. ASSUME NEW r \in Requests, Enqueue(r) PROVE OvershootInv'
  <2>0. r \in Actors
    BY DEF Actors
  <2>1. jobs[r].at = "enqueue" /\ jobs' = [jobs EXCEPT ![r] = IdleJob] /\ payouts' = payouts
    BY <1>5 DEF Enqueue
  <2>2. OthersStay(r) /\ jobs'[r].at # "insert" /\ r \notin Asked
    BY <2>0, <2>1, FinishEffect DEF Asked
  <2>3. Claimed' = Claimed
    BY <2>0, <2>2, ClaimLeaves
  <2>4. Spent' = Spent
    BY <2>1, SpentStays
  <2> QED
    BY <1>1, <2>3, <2>4 DEF OvershootInv
<1>6. ASSUME NEW w \in Workers, NEW p \in PayoutIds, TakeMessage(w, p) PROVE OvershootInv'
  <2>0. w \in Actors
    BY DEF Actors
  <2>1. /\ jobs[w].at = "idle" /\ payouts' = payouts
        /\ jobs' = [jobs EXCEPT ![w].at = "start", ![w].payout = p]
    BY <1>6 DEF TakeMessage, IdleJob
  <2>2. OthersStay(w) /\ jobs'[w].at # "insert" /\ w \notin Asked
    BY <2>0, <2>1, TakeEffect DEF Asked
  <2>3. Claimed' = Claimed
    BY <2>0, <2>2, ClaimLeaves
  <2>4. Spent' = Spent
    BY <2>1, SpentStays
  <2> QED
    BY <1>1, <2>3, <2>4 DEF OvershootInv
<1>7. ASSUME NEW w \in Workers, StartProcessing(w) \/ PayByBank(w) PROVE OvershootInv'
  <2>0. w \in Actors
    BY DEF Actors
  <2>1. PICK status \in {"processing", "processed"} :
          payouts' = [payouts EXCEPT ![jobs[w].payout].status = status]
    BY <1>7 DEF StartProcessing, PayByBank, AfterBank
  <2>2. PICK at \in {"pay", "notify"} : jobs' = [jobs EXCEPT ![w].at = at]
    BY <1>7 DEF StartProcessing, PayByBank
  <2>3. jobs[w].at \in Holding /\ w \notin Asked
    BY <1>7 DEF StartProcessing, PayByBank, Asked, Holding
  <2>4. at \in Places
    BY DEF Places
  <2>5. OthersStay(w) /\ jobs'[w].at # "insert"
    BY <2>0, <2>2, <2>4, MoveEffect
  <2>6. Claimed' = Claimed
    BY <2>0, <2>3, <2>5, ClaimLeaves
  <2>7. PICK p \in PayoutIds : p = jobs[w].payout /\ payouts[p].status # "none"
    BY <2>0, <2>3 DEF TypeInv, JobOK
  <2>8. /\ payouts'[p].status = status
        /\ \A q \in PayoutIds : q # p => payouts'[q] = payouts[q]
        /\ \A q \in PayoutIds : payouts'[q].amount = payouts[q].amount /\ payouts'[q].today = payouts[q].today
    BY <2>1, <2>7, StatusEffect
  <2>9. \A q \in PayoutIds : payouts'[q].status # "none" <=> payouts[q].status # "none"
    BY <2>7, <2>8
  <2>10. Spent' = Spent
    BY <2>8, <2>9, SpentStays
  <2> QED
    BY <1>1, <2>6, <2>10 DEF OvershootInv
<1>8. ASSUME UNCHANGED <<jobs, payouts>> PROVE OvershootInv'
  <2>1. Spent' = Spent
    BY <1>8, SpentStays
  <2>2. Claimed' = Claimed
    BY <1>8 DEF Claimed, Asked, AskedAmounts
  <2> QED
    BY <1>1, <2>1, <2>2 DEF OvershootInv
<1>9. ASSUME Midnight PROVE OvershootInv'
  <2>1. jobs' = jobs /\ payouts' = [p \in PayoutIds |-> [payouts[p] EXCEPT !.today = FALSE]]
    BY <1>9 DEF Midnight
  <2>2. \A p \in PayoutIds : payouts[p] \in Row
    BY Fields
  <2>3. \A p \in PayoutIds : ~payouts'[p].today
    BY <2>1, <2>2 DEF Row
  <2>4. Out' = {}
    BY <2>3 DEF Out
  <2>5. Spent' = 0
    BY <2>4, SumOfNothing DEF Spent
  <2>6. Claimed' = Claimed
    BY <2>1 DEF Claimed, Asked, AskedAmounts
  <2>7. Claimed <= Slack + Largest(Amounts) /\ Largest(Amounts) \in Nat /\ Largest(Amounts) <= DailyLimit
    BY ClaimsBounded, LargestAmount
  <2> QED
    BY <1>1, <2>5, <2>6, <2>7 DEF OvershootInv
<1>10. CASE (\E p \in PayoutIds : Redeliver(p)) \/ UNCHANGED <<jobs, payouts, messages, paid, redelivered>>
  BY <1>8, <1>10 DEF Redeliver
<1> QED
  BY <1>0, <1>2, <1>3, <1>4, <1>5, <1>6, <1>7, <1>9, <1>10 DEF Step

(* The daily limit is overshot by what the other requests and workers can   *)
(* have in flight, one payout each, and by nothing else: for any number of  *)
(* them, over midnights, faults and redelivered messages.  Without amounts  *)
(* there is no largest one, and nothing to ask for.                         *)
THEOREM OvershootBoundedCorrect ==
  ASSUME Amounts # {}
  PROVE  Spec => []OvershootBounded
<1>1. TypeInv /\ OvershootInv => OvershootBounded
  <2> SUFFICES ASSUME TypeInv, OvershootInv PROVE OvershootBounded
    OBVIOUS
  <2>1. /\ Spent \in Nat /\ Claimed \in Nat /\ Slack \in Int /\ DailyLimit \in Nat
        /\ Spent + Claimed <= DailyLimit + Slack /\ PaidOutToday = Spent
    BY SpentIs, ClaimsBounded, SlackIs, PayoutAssumption DEF OvershootInv
  <2> QED
    BY <2>1 DEF OvershootBounded, Slack
<1>2. Init => OvershootInv
  BY OvershootInit
<1>3. TypeInv /\ TypeInv' /\ OvershootInv /\ [Next]_vars => OvershootInv'
  BY OvershootStep
<1> QED
  BY <1>1, <1>2, <1>3, TypeInvariant, PTL DEF Spec

=============================================================================
