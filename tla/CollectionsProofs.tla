------------------------- MODULE CollectionsProofs --------------------------
(***************************************************************************)
(* Theorems about the ways to collect payments: virtual accounts, with the *)
(* ledger they implement, and, in the second part, payment links; for any  *)
(* numbers of them, of requests at the same time and of faults.            *)
(***************************************************************************)
EXTENDS VirtualAccounts, PaymentLinks, TLAPS

(* What a request has read of a row is not more than what was credited. *)
LoadsBacked ==
  \A w \in Workers : jobs[w].at = "loaded" =>
    /\ jobs[w].row.paid <= credited[jobs[w].account]
    /\ accounts[jobs[w].account].status # "none"

(* The uncommitted version of a row differs from the committed one as little *)
(* as the row lock allows.                                                   *)
UpdatesBacked ==
  \A w \in Workers : jobs[w].at = "updated" =>
    LET a == jobs[w].account IN
    /\ jobs[w].row.paid <= credited[a] + jobs[w].amount
    /\ accounts[a].status # "none"
    /\ jobs[w].row.status = IF IsFull(a, jobs[w].row.paid) THEN "closed" ELSE accounts[a].status

(* Two open transactions never hold the same row. *)
RowsHeldOnce ==
  \A v, w \in Workers :
    jobs[v].at = "updated" /\ jobs[w].at = "updated" /\ jobs[v].account = jobs[w].account => v = w

Inv == TypeOK /\ LoadsBacked /\ UpdatesBacked /\ RowsHeldOnce /\ NeverOvercounts /\ ClosedWhenFull

-----------------------------------------------------------------------------
(* The fields of a request that has loaded an account. *)
LEMMA JobFields ==
  ASSUME TypeOK, NEW w \in Workers, jobs[w].at # "idle"
  PROVE  /\ jobs[w].at \in {"loaded", "updated"}
         /\ jobs[w].account \in Accounts
         /\ jobs[w].amount \in Amounts /\ jobs[w].amount \in Nat
         /\ jobs[w].row \in Row /\ jobs[w].row.paid \in Nat
<1>1. jobs[w] \in Job
  BY DEF TypeOK
<1>2. jobs[w] \in [at: {"loaded", "updated"}, account: Accounts, amount: Amounts, row: Row]
  BY <1>1 DEF Job
<1> QED
  BY <1>2, AccountAssumption DEF Row

(* The columns of a virtual account. *)
LEMMA RowFields ==
  ASSUME TypeOK, NEW a \in Accounts
  PROVE  /\ accounts[a] \in Row /\ accounts[a].paid \in Nat
         /\ accounts[a].status \in {"none", "active", "closed"}
         /\ credited[a] \in Nat /\ Expected[a] \in Nat
BY AccountAssumption DEF TypeOK, Row

(* Only one request moves. *)
LEMMA JobMoves ==
  ASSUME TypeOK, NEW w \in Workers, NEW job \in Job, jobs' = [jobs EXCEPT ![w] = job]
  PROVE  /\ jobs' \in [Workers -> Job]
         /\ jobs'[w] = job
         /\ \A v \in Workers : v # w => jobs'[v] = jobs[v]
BY DEF TypeOK

(* A request that does nothing is a request. *)
LEMMA IdleIsJob == IdleJob \in Job /\ IdleJob.at = "idle"
BY DEF IdleJob, Job

(* A request that gives up leaves the rows as they are. *)
LEMMA GivesUp ==
  ASSUME Inv, NEW w \in Workers, jobs' = [jobs EXCEPT ![w] = IdleJob],
         UNCHANGED <<accounts, credited>>
  PROVE  Inv'
<1>1. /\ jobs' \in [Workers -> Job] /\ jobs'[w].at = "idle"
      /\ \A v \in Workers : v # w => jobs'[v] = jobs[v]
  BY JobMoves, IdleIsJob DEF Inv
<1>2. TypeOK' /\ NeverOvercounts' /\ ClosedWhenFull'
  BY <1>1 DEF Inv, TypeOK, NeverOvercounts, ClosedWhenFull
<1>3. \A v \in Workers : jobs'[v].at # "idle" => jobs'[v] = jobs[v]
  BY <1>1
<1>4. LoadsBacked'
  BY <1>3 DEF Inv, LoadsBacked
<1>5. UpdatesBacked'
  BY <1>3 DEF Inv, UpdatesBacked, IsFull
<1>6. RowsHeldOnce'
  BY <1>3 DEF Inv, RowsHeldOnce
<1> QED
  BY <1>2, <1>4, <1>5, <1>6 DEF Inv

(* A step outside a transaction: a row that nobody holds changes its status. *)
LEMMA StatusChanges ==
  ASSUME Inv, NEW a \in Accounts, NEW s \in {"active", "closed"},
         RowFree(a), s = "closed" \/ ~(Expected[a] > 0 /\ accounts[a].paid >= Expected[a]),
         accounts' = [accounts EXCEPT ![a].status = s], UNCHANGED <<jobs, credited>>
  PROVE  Inv'
<1>1. accounts \in [Accounts -> Row] /\ accounts[a] \in Row
  BY RowFields DEF Inv, TypeOK
<1>2. /\ accounts' \in [Accounts -> Row]
      /\ accounts'[a].status = s
      /\ \A b \in Accounts : accounts'[b].paid = accounts[b].paid
      /\ \A b \in Accounts : b # a => accounts'[b] = accounts[b]
  BY <1>1 DEF Row
<1>3. TypeOK' /\ LoadsBacked' /\ RowsHeldOnce' /\ NeverOvercounts'
  BY <1>2 DEF Inv, TypeOK, LoadsBacked, RowsHeldOnce, NeverOvercounts
<1>4. ClosedWhenFull'
  BY <1>2 DEF Inv, ClosedWhenFull
<1>5. \A w \in Workers : jobs[w].at = "updated"
      => accounts'[jobs[w].account] = accounts[jobs[w].account]
  BY <1>2, JobFields DEF Inv, RowFree
<1>6. UpdatesBacked'
  BY <1>5 DEF Inv, UpdatesBacked, IsFull
<1> QED
  BY <1>3, <1>4, <1>6 DEF Inv

-----------------------------------------------------------------------------
(* No account is there and no request at work to begin with. *)
LEMMA Starts == Init => Inv
<1> SUFFICES ASSUME Init PROVE Inv
  OBVIOUS
<1>1. TypeOK
  BY IdleIsJob DEF Init, TypeOK, Row
<1>2. \A w \in Workers : jobs[w].at = "idle"
  BY IdleIsJob DEF Init
<1>3. \A a \in Accounts : accounts[a].paid = 0 /\ credited[a] = 0 /\ Expected[a] \in Nat
  BY AccountAssumption DEF Init
<1> QED
  BY <1>1, <1>2, <1>3
  DEF Inv, LoadsBacked, UpdatesBacked, RowsHeldOnce, NeverOvercounts, ClosedWhenFull

(* An account that is created has nothing paid in. *)
LEMMA CreateStep ==
  ASSUME Inv, NEW a \in Accounts, CreateVirtualAccount(a)
  PROVE  Inv'
<1>1. RowFree(a)
  BY DEF CreateVirtualAccount, Opened, RowFree, Inv, UpdatesBacked
<1>2. ~(Expected[a] > 0 /\ accounts[a].paid >= Expected[a])
  BY DEF CreateVirtualAccount, Opened, Inv, ClosedWhenFull
<1> QED
  BY <1>1, <1>2, StatusChanges DEF CreateVirtualAccount, Opened

(* Closing an account changes no amount. *)
LEMMA CloseStep ==
  ASSUME Inv, NEW w \in Workers, NEW a \in Accounts, CloseAccount(w, a)
  PROVE  Inv'
BY StatusChanges DEF CloseAccount, Closed

(* A request loads the row as it is committed. *)
LEMMA LoadStep ==
  ASSUME Inv, NEW w \in Workers, NEW a \in Accounts, NEW amount \in Amounts,
         LoadForCredit(w, a, amount)
  PROVE  Inv'
<1> DEFINE job == [at |-> "loaded", account |-> a, amount |-> amount, row |-> accounts[a]]
<1>1. job \in Job
  BY RowFields DEF Job, Inv
<1>2. /\ jobs' \in [Workers -> Job] /\ jobs'[w] = job
      /\ \A v \in Workers : v # w => jobs'[v] = jobs[v]
  BY <1>1, JobMoves DEF LoadForCredit, Inv
<1>3. UNCHANGED <<accounts, credited>>
  BY DEF LoadForCredit
<1>4. TypeOK' /\ NeverOvercounts' /\ ClosedWhenFull'
  BY <1>2, <1>3 DEF Inv, TypeOK, NeverOvercounts, ClosedWhenFull
<1>5. LoadsBacked'
  <2>1. accounts[a].status # "none" /\ accounts[a].paid <= credited[a]
    BY DEF LoadForCredit, Inv, NeverOvercounts
  <2>2. job.account = a /\ job.row = accounts[a]
    OBVIOUS
  <2> HIDE DEF job
  <2> QED
    BY <1>2, <1>3, <2>1, <2>2 DEF Inv, LoadsBacked
<1>6. \A v \in Workers : jobs'[v].at = "updated" => jobs'[v] = jobs[v]
  BY <1>2
<1>7. UpdatesBacked' /\ RowsHeldOnce'
  BY <1>3, <1>6 DEF Inv, UpdatesBacked, RowsHeldOnce, IsFull
<1> QED
  BY <1>4, <1>5, <1>7 DEF Inv

(* The first UPDATE takes the row: the status is read under the lock, the *)
(* amount was read before.                                                *)
LEMMA UpdateStep ==
  ASSUME Inv, NEW w \in Workers, UpdatePaid(w)
  PROVE  Inv'
<1> DEFINE a == jobs[w].account
           row == UpdatedRow(a, jobs[w].row, jobs[w].amount)
           job == [jobs[w] EXCEPT !.at = "updated", !.row = row]
<1>1. /\ jobs[w].at = "loaded" /\ RowFree(a) /\ UNCHANGED <<accounts, credited>>
      /\ jobs' = [jobs EXCEPT ![w] = job]
  BY DEF UpdatePaid, Inv, TypeOK
<1>2. /\ a \in Accounts /\ jobs[w].amount \in Amounts /\ jobs[w].amount \in Nat
      /\ jobs[w].row.paid \in Nat /\ jobs[w] \in Job
  BY <1>1, JobFields DEF Inv, TypeOK
<1>3. /\ row.paid = jobs[w].row.paid + jobs[w].amount
      /\ row.status = IF IsFull(a, row.paid) THEN "closed" ELSE accounts[a].status
      /\ row \in Row
  BY <1>2, RowFields DEF UpdatedRow, Row, Inv
<1>4. /\ job \in Job /\ job.at = "updated" /\ job.account = a
      /\ job.amount = jobs[w].amount /\ job.row = row
  BY <1>1, <1>2, <1>3 DEF Job
<1>5. /\ jobs' \in [Workers -> Job] /\ jobs'[w] = job
      /\ \A v \in Workers : v # w => jobs'[v] = jobs[v]
  BY <1>1, <1>4, JobMoves DEF Inv
<1>6. row.paid <= credited[a] + jobs[w].amount
  BY <1>1, <1>2, <1>3, RowFields DEF Inv, LoadsBacked
<1>7. accounts[a].status # "none"
  BY <1>1 DEF Inv, LoadsBacked
<1> HIDE DEF row, job, a
<1>8. TypeOK' /\ NeverOvercounts' /\ ClosedWhenFull'
  BY <1>1, <1>5 DEF Inv, TypeOK, NeverOvercounts, ClosedWhenFull
<1>9. LoadsBacked'
  <2>1. \A v \in Workers : jobs'[v].at = "loaded" => jobs'[v] = jobs[v]
    BY <1>4, <1>5
  <2> QED
    BY <1>1, <2>1 DEF Inv, LoadsBacked
<1>10. UpdatesBacked'
  <2>1. \A v \in Workers : v # w /\ jobs'[v].at = "updated" => jobs'[v] = jobs[v]
    BY <1>5
  <2> QED
    BY <1>1, <1>3, <1>4, <1>5, <1>6, <1>7, <2>1 DEF Inv, UpdatesBacked, IsFull
<1>11. RowsHeldOnce'
  BY <1>1, <1>4, <1>5 DEF Inv, RowsHeldOnce, RowFree
<1> QED
  BY <1>8, <1>9, <1>10, <1>11 DEF Inv

(* The transaction's version becomes the row; nobody else holds it. *)
LEMMA CommitStep ==
  ASSUME Inv, NEW w \in Workers, Commit(w)
  PROVE  Inv'
<1> DEFINE a == jobs[w].account
           row == jobs[w].row
<1>1. /\ jobs[w].at = "updated" /\ jobs' = [jobs EXCEPT ![w] = IdleJob]
      /\ accounts' = [accounts EXCEPT ![a] = row]
      /\ credited' = [credited EXCEPT ![a] = @ + jobs[w].amount]
  BY DEF Commit
<1>2. a \in Accounts /\ jobs[w].amount \in Nat /\ row \in Row /\ row.paid \in Nat
  BY <1>1, JobFields DEF Inv
<1>3. /\ row.paid <= credited[a] + jobs[w].amount
      /\ accounts[a].status # "none"
      /\ row.status = IF IsFull(a, row.paid) THEN "closed" ELSE accounts[a].status
  BY <1>1 DEF Inv, UpdatesBacked
<1>4. /\ accounts' \in [Accounts -> Row] /\ accounts'[a] = row
      /\ \A b \in Accounts : b # a => accounts'[b] = accounts[b]
  BY <1>1, <1>2 DEF Inv, TypeOK
<1>5. /\ credited' \in [Accounts -> Nat] /\ credited'[a] = credited[a] + jobs[w].amount
      /\ \A b \in Accounts : b # a => credited'[b] = credited[b]
  BY <1>1, <1>2 DEF Inv, TypeOK
<1>6. \A b \in Accounts : credited[b] \in Nat /\ credited'[b] \in Nat /\ credited[b] <= credited'[b]
  BY <1>2, <1>5, RowFields DEF Inv
<1>7. /\ jobs' \in [Workers -> Job]
      /\ \A v \in Workers : jobs'[v].at # "idle" => jobs'[v] = jobs[v] /\ v # w
  BY <1>1, JobMoves, IdleIsJob DEF Inv
<1> HIDE DEF a, row
<1>8. TypeOK'
  BY <1>4, <1>5, <1>7 DEF TypeOK
<1>9. NeverOvercounts'
  BY <1>3, <1>4, <1>5 DEF Inv, NeverOvercounts
<1>10. ClosedWhenFull'
  BY <1>3, <1>4 DEF Inv, ClosedWhenFull, IsFull
<1>11. \A b \in Accounts : accounts[b].status # "none" => accounts'[b].status # "none"
  BY <1>3, <1>4
<1>12. LoadsBacked'
  <2> SUFFICES ASSUME NEW v \in Workers, jobs'[v].at = "loaded"
               PROVE  /\ jobs'[v].row.paid <= credited'[jobs'[v].account]
                      /\ accounts'[jobs'[v].account].status # "none"
    BY DEF LoadsBacked
  <2>1. jobs'[v] = jobs[v] /\ jobs[v].account \in Accounts /\ jobs[v].row.paid \in Nat
    BY <1>7, JobFields DEF Inv
  <2> QED
    BY <2>1, <1>6, <1>11 DEF Inv, LoadsBacked
<1>13. UpdatesBacked'
  <2> SUFFICES ASSUME NEW v \in Workers, jobs'[v].at = "updated"
               PROVE  LET b == jobs'[v].account IN
                      /\ jobs'[v].row.paid <= credited'[b] + jobs'[v].amount
                      /\ accounts'[b].status # "none"
                      /\ jobs'[v].row.status = IF IsFull(b, jobs'[v].row.paid) THEN "closed"
                                                ELSE accounts'[b].status
    BY DEF UpdatesBacked, IsFull
  <2>1. jobs'[v] = jobs[v] /\ jobs[v].account \in Accounts /\ v # w
    BY <1>7, JobFields DEF Inv
  <2>2. jobs[v].account # a
    BY <1>1, <2>1 DEF Inv, RowsHeldOnce, a
  <2> QED
    BY <2>1, <2>2, <1>4, <1>5 DEF Inv, UpdatesBacked
<1>14. RowsHeldOnce'
  BY <1>7 DEF Inv, RowsHeldOnce
<1> QED
  BY <1>8, <1>9, <1>10, <1>12, <1>13, <1>14 DEF Inv

(* Every step keeps every part of the invariant. *)
LEMMA Step == Inv /\ [Next]_vars => Inv'
<1> SUFFICES ASSUME Inv, [Next]_vars PROVE Inv'
  OBVIOUS
<1>1. ASSUME NEW w \in Workers, RefuseCredit(w) \/ Crash(w) PROVE Inv'
  BY <1>1, GivesUp DEF RefuseCredit, Crash, Rollback
<1>2. CASE UNCHANGED vars
  BY <1>2
     DEF vars, Inv, TypeOK, LoadsBacked, UpdatesBacked, RowsHeldOnce, NeverOvercounts,
         ClosedWhenFull, IsFull
<1> QED
  BY <1>1, <1>2, CreateStep, CloseStep, LoadStep, UpdateStep, CommitStep DEF Next

(* The invariant of virtual accounts holds of every behaviour. *)
LEMMA Invariant == Spec => []Inv
<1>1. Init => Inv
  BY Starts
<1>2. Inv /\ [Next]_vars => Inv'
  BY Step
<1> QED
  BY <1>1, <1>2, PTL DEF Spec

(* However credits overlap and crash, amount_paid is backed by captured      *)
(* payments, and an account that has received what it expects is closed.     *)
THEOREM BalanceSafe == Spec => [](NeverOvercounts /\ ClosedWhenFull)
<1>1. Inv => NeverOvercounts /\ ClosedWhenFull
  BY DEF Inv
<1> QED
  BY <1>1, Invariant, PTL

-----------------------------------------------------------------------------
(* No credit in flight opens a closed account again: it writes the status it *)
(* read under the row lock, and closing waits for that lock.                 *)
THEOREM ClosedForGood == Spec => ClosedStaysClosed
<1>1. ASSUME Inv, [Next]_vars, NEW a \in Accounts, accounts[a].status = "closed"
      PROVE  accounts'[a].status = "closed"
  <2>1. CASE UNCHANGED accounts
    BY <1>1, <2>1
  <2>2. ASSUME NEW b \in Accounts, CreateVirtualAccount(b) PROVE accounts'[a].status = "closed"
    BY <1>1, <2>2 DEF CreateVirtualAccount, Opened, Inv, TypeOK
  <2>3. ASSUME NEW w \in Workers, NEW b \in Accounts, CloseAccount(w, b)
        PROVE  accounts'[a].status = "closed"
    BY <1>1, <2>3, RowFields DEF CloseAccount, Closed, Inv, TypeOK, Row
  <2>4. ASSUME NEW w \in Workers, Commit(w) PROVE accounts'[a].status = "closed"
    BY <1>1, <2>4, JobFields DEF Commit, Inv, TypeOK, UpdatesBacked
  <2> QED
    BY <1>1, <2>1, <2>2, <2>3, <2>4
    DEF Next, vars, LoadForCredit, RefuseCredit, UpdatePaid, Crash, Rollback
<1>2. Inv /\ [Next]_vars => [\A a \in Accounts : accounts[a].status = "closed"
                                                => accounts'[a].status = "closed"]_vars
  BY <1>1
<1> QED
  BY <1>2, Invariant, PTL DEF Spec, ClosedStaysClosed

-----------------------------------------------------------------------------
(* The ledger's view of a row. *)
LEMMA CommitIsCredit ==
  ASSUME Inv, NEW w \in Workers, Commit(w)
  PROVE  StaleCredit \/ Ledger!Next
<1> DEFINE a == jobs[w].account
           amount == jobs[w].amount
           row == jobs[w].row
<1>1. /\ jobs[w].at = "updated" /\ jobs'[w] = IdleJob
      /\ accounts' = [accounts EXCEPT ![a] = row]
  BY DEF Commit, Inv, TypeOK
<1>2. a \in Accounts /\ amount \in Amounts /\ amount \in Nat /\ row \in Row
      /\ accounts \in [Accounts -> Row]
  BY <1>1, JobFields DEF Inv, TypeOK
<1>3. row.status = IF IsFull(a, row.paid) THEN "closed" ELSE accounts[a].status
  BY <1>1 DEF Inv, UpdatesBacked
<1>4. CASE accounts[a].status # "active" \/ row.paid # accounts[a].paid + amount
  BY <1>1, <1>4 DEF StaleCredit
<1>5. CASE accounts[a].status = "active" /\ row.paid = accounts[a].paid + amount
  <2> HIDE DEF a, amount, row
  <2>1. PICK b \in Accounts, paid \in Amounts : b = a /\ paid = amount
    BY <1>2
  <2>2. Ledger!Credit(b, paid)
    BY <1>1, <1>2, <1>3, <1>5, <2>1 DEF Ledger!Credit, Ledger!Full, IsFull
  <2> QED
    BY <2>2 DEF Ledger!Next
<1> QED
  BY <1>4, <1>5

(* Every step of the virtual accounts is one of their ledger, or the commit of *)
(* a credit that was computed from a row which has changed since.              *)
THEOREM ImplementsLedger == Spec => FreshIsLedger
<1>1. Init => Ledger!Init
  BY DEF Init, Ledger!Init
<1>2. ASSUME Inv, [Next]_vars PROVE [Ledger!Next \/ StaleCredit]_(Ledger!vars)
  <2>1. CASE UNCHANGED accounts
    BY <2>1 DEF Ledger!vars
  <2>2. ASSUME NEW a \in Accounts, CreateVirtualAccount(a) PROVE Ledger!Next
    <3>1. Ledger!Open(a)
      BY <1>2, <2>2, RowFields DEF CreateVirtualAccount, Opened, Ledger!Open, Inv, TypeOK, Row
    <3> QED
      BY <3>1 DEF Ledger!Next
  <2>3. ASSUME NEW w \in Workers, NEW a \in Accounts, CloseAccount(w, a) PROVE Ledger!Next
    <3>1. Ledger!Close(a)
      BY <1>2, <2>3, RowFields DEF CloseAccount, Closed, Ledger!Close, Inv, TypeOK, Row
    <3> QED
      BY <3>1 DEF Ledger!Next
  <2>4. ASSUME NEW w \in Workers, Commit(w) PROVE Ledger!Next \/ StaleCredit
    BY <1>2, <2>4, CommitIsCredit
  <2> QED
    BY <1>2, <2>1, <2>2, <2>3, <2>4
    DEF Next, vars, LoadForCredit, RefuseCredit, UpdatePaid, Crash, Rollback
<1> QED
  BY <1>1, <1>2, Invariant, PTL DEF Spec, FreshIsLedger

-----------------------------------------------------------------------------
(* Payment links: they share no state with the virtual accounts. *)

Call == [at: {"idle", "loaded", "updated"}, id: Links \cup {Null}, link: Link]

(* What a call at work holds is a link, and no count of it is ahead of the *)
(* orders: the count grows only with an order of its own.                  *)
LinkLoadsBacked ==
  \A c \in Callers : calls[c].at # "idle" =>
    /\ calls[c].id \in Links
    /\ links[calls[c].id].status # "none"
    /\ calls[c].at = "loaded" => calls[c].link.uses <= orders[calls[c].id]

(* The uncommitted version of a row: one use more at most, and closed if and *)
(* only if that, or the committed row, says so.                              *)
LinkUpdatesBacked ==
  \A c \in Callers : calls[c].at = "updated" =>
    LET l == calls[c].id IN
    /\ calls[c].link.uses <= orders[l] + 1
    /\ calls[c].link.status = IF ReachesMax(l,
                                            calls[c].link.uses) THEN "paid" ELSE links[l].status

(* Two open transactions never hold the same row. *)
LinkRowsHeldOnce ==
  \A c, d \in Callers :
    calls[c].at = "updated" /\ calls[d].at = "updated" /\ calls[c].id = calls[d].id => c = d

(* An active link has uses left, and a missing one was not used. *)
ActiveHasUses ==
  \A l \in Links :
    /\ links[l].status = "active" => ~ReachesMax(l, links[l].uses)
    /\ links[l].status = "none" => links[l].uses = 0

LinkInv == PaidWasUsed /\ LinkLoadsBacked /\ LinkUpdatesBacked /\ LinkRowsHeldOnce
    /\ ActiveHasUses

-----------------------------------------------------------------------------
(* The columns of a link. *)
LEMMA LinkFields ==
  ASSUME LinkTypeOK, NEW l \in Links
  PROVE  /\ links[l] \in Link /\ links[l].uses \in Nat /\ links[l].status \in LinkStatus
         /\ orders[l] \in Nat /\ MaxUses[l] \in Nat
BY LinkAssumption DEF LinkTypeOK, Link

(* What a call holds of its link. *)
LEMMA CallFields ==
  ASSUME LinkTypeOK, NEW c \in Callers
  PROVE  calls[c] \in Call /\ calls[c].link \in Link /\ calls[c].link.uses \in Nat
BY DEF LinkTypeOK, Call, Link

(* The rows and calls the model begins with have their types. *)
LEMMA NoLinkIsLink == NoLink \in Link /\ NewLink \in Link /\ IdleCall \in Call
BY DEF NoLink, NewLink, Link, LinkStatus, IdleCall, Call

(* Only one call moves. *)
LEMMA CallMoves ==
  ASSUME LinkTypeOK, NEW c \in Callers, NEW call \in Call, calls' = [calls EXCEPT ![c] = call]
  PROVE  /\ calls' \in [Callers -> Call]
         /\ calls'[c] = call
         /\ \A d \in Callers : d # c => calls'[d] = calls[d]
BY DEF LinkTypeOK, Call

(* A call that gives up leaves the rows as they are. *)
LEMMA LinkGivesUp ==
  ASSUME LinkInv, NEW c \in Callers, calls' = [calls EXCEPT ![c] = IdleCall],
         UNCHANGED <<links, expired, orders>>
  PROVE  LinkInv'
<1>1. /\ calls' \in [Callers -> Call] /\ calls'[c].at = "idle"
      /\ \A d \in Callers : d # c => calls'[d] = calls[d]
  BY CallMoves, NoLinkIsLink DEF LinkInv, PaidWasUsed, IdleCall
<1>2. \A d \in Callers : calls'[d].at # "idle" => calls'[d] = calls[d]
  BY <1>1
<1>3. PaidWasUsed' /\ ActiveHasUses'
  BY <1>1 DEF LinkInv, PaidWasUsed, ActiveHasUses, LinkTypeOK, Call, ReachesMax
<1>4. LinkLoadsBacked' /\ LinkRowsHeldOnce'
  BY <1>2 DEF LinkInv, LinkLoadsBacked, LinkRowsHeldOnce
<1>5. LinkUpdatesBacked'
  BY <1>2 DEF LinkInv, LinkUpdatesBacked, ReachesMax
<1> QED
  BY <1>3, <1>4, <1>5 DEF LinkInv

(* A step outside a transaction: a row that nobody holds changes its status, *)
(* to active only when it is new.                                            *)
LEMMA LinkStatusChanges ==
  ASSUME LinkInv, NEW l \in Links, NEW s \in {"active", "disabled"},
         LinkRowFree(l), s = "active" => links[l].status = "none",
         links' = [links EXCEPT ![l].status = s], UNCHANGED <<expired, calls, orders>>
  PROVE  LinkInv'
<1>1. LinkTypeOK
  BY DEF LinkInv, PaidWasUsed
<1>2. links \in [Links -> Link] /\ links[l] \in Link
  BY <1>1, LinkFields DEF LinkTypeOK
<1>3. /\ links' \in [Links -> Link]
      /\ links'[l].status = s
      /\ \A k \in Links : links'[k].uses = links[k].uses
      /\ \A k \in Links : k # l => links'[k] = links[k]
  BY <1>2 DEF Link, LinkStatus
<1>4. LinkLoadsBacked' /\ LinkRowsHeldOnce'
  BY <1>3 DEF LinkInv, LinkLoadsBacked, LinkRowsHeldOnce
<1>5. PaidWasUsed'
  BY <1>1, <1>3 DEF LinkInv, PaidWasUsed, LinkTypeOK
<1>6. s = "active" => ~ReachesMax(l, links[l].uses)
  BY <1>1, LinkFields DEF LinkInv, ActiveHasUses, ReachesMax
<1>7. ActiveHasUses'
  BY <1>3, <1>6 DEF LinkInv, ActiveHasUses, ReachesMax
<1>8. \A c \in Callers : calls[c].at = "updated" => links'[calls[c].id] = links[calls[c].id]
  BY <1>3 DEF LinkRowFree, LinkInv, LinkLoadsBacked
<1>9. LinkUpdatesBacked'
  BY <1>8 DEF LinkInv, LinkUpdatesBacked, ReachesMax
<1> QED
  BY <1>4, <1>5, <1>7, <1>9 DEF LinkInv

-----------------------------------------------------------------------------
(* No link is there and no call at work to begin with. *)
LEMMA LinkStarts == LinkInit => LinkInv
<1> SUFFICES ASSUME LinkInit PROVE LinkInv
  OBVIOUS
<1>1. LinkTypeOK
  BY NoLinkIsLink DEF LinkInit, LinkTypeOK, Call
<1>2. /\ \A c \in Callers : calls[c].at = "idle"
      /\ \A l \in Links : links[l].status = "none" /\ links[l].uses = 0 /\ orders[l] = 0
  BY DEF LinkInit, IdleCall, NoLink
<1> QED
  BY <1>1, <1>2
  DEF LinkInv, PaidWasUsed, LinkLoadsBacked, LinkUpdatesBacked, LinkRowsHeldOnce, ActiveHasUses

(* A link that is created has its uses before it. *)
LEMMA LinkCreateStep ==
  ASSUME LinkInv, NEW l \in Links, CreateLink(l)
  PROVE  LinkInv'
<1>1. links[l] = NoLink /\ NoLink.status = "none"
  BY DEF CreateLink, NoLink
<1>2. LinkRowFree(l)
  BY <1>1 DEF LinkRowFree, LinkInv, LinkLoadsBacked
<1>3. links' = [links EXCEPT ![l].status = "active"]
  BY <1>1 DEF CreateLink, NewLink
<1> QED
  BY <1>1, <1>2, <1>3, LinkStatusChanges DEF CreateLink

(* Disabling a link changes no count. *)
LEMMA DisableStep ==
  ASSUME LinkInv, NEW l \in Links, DisableLink(l)
  PROVE  LinkInv'
BY LinkStatusChanges DEF DisableLink, Disabled

(* A call loads the row as it is committed. *)
LEMMA LinkLoadStep ==
  ASSUME LinkInv, NEW c \in Callers, NEW l \in Links, LoadLink(c, l)
  PROVE  LinkInv'
<1> DEFINE call == [at |-> "loaded", id |-> l, link |-> links[l]]
<1>1. LinkTypeOK /\ call \in Call /\ links[l].uses <= orders[l] /\ links[l].status # "none"
  BY LinkFields DEF LinkInv, PaidWasUsed, Call, ActiveHasUses, LoadLink, NoLink, Link
<1>2. /\ calls' \in [Callers -> Call] /\ calls'[c] = call
      /\ \A d \in Callers : d # c => calls'[d] = calls[d]
      /\ UNCHANGED <<links, expired, orders>>
  BY <1>1, CallMoves DEF LoadLink, GetLink
<1>3. PaidWasUsed' /\ ActiveHasUses'
  BY <1>2 DEF LinkInv, PaidWasUsed, ActiveHasUses, LinkTypeOK, Call, ReachesMax
<1>4. LinkLoadsBacked'
  BY <1>1, <1>2 DEF LinkInv, LinkLoadsBacked
<1>5. LinkUpdatesBacked' /\ LinkRowsHeldOnce'
  BY <1>2 DEF LinkInv, LinkUpdatesBacked, LinkRowsHeldOnce, ReachesMax
<1> QED
  BY <1>3, <1>4, <1>5 DEF LinkInv

(* A call takes the row lock and counts on from the row it loaded. *)
LEMMA RecordStep ==
  ASSUME LinkInv, NEW c \in Callers, RecordPayment(c)
  PROVE  LinkInv'
<1> DEFINE l == calls[c].id
           seen == calls[c].link
           row == UsedRow(l, seen)
           call == [calls[c] EXCEPT !.at = "updated", !.link = row]
<1>1. LinkTypeOK /\ l \in Links /\ calls[c].at = "loaded" /\ seen.uses <= orders[l]
  BY DEF LinkInv, PaidWasUsed, LinkLoadsBacked, RecordPayment
<1>2. /\ links[l].status \in LinkStatus /\ seen.uses \in Nat /\ seen \in Link
      /\ orders[l] \in Nat /\ calls[c] \in Call
  BY <1>1, LinkFields, CallFields
<1>3. /\ row \in Link /\ row.uses = seen.uses + 1
      /\ row.status = IF ReachesMax(l, row.uses) THEN "paid" ELSE links[l].status
  BY <1>2 DEF UsedRow, Link, LinkStatus
<1>4. call \in Call /\ call.at = "updated" /\ call.id = l /\ call.link = row
  BY <1>1, <1>2, <1>3 DEF Call
<1>5. calls' = [calls EXCEPT ![c] = call]
  BY DEF RecordPayment
<1> HIDE DEF call, row
<1>6. /\ calls' \in [Callers -> Call] /\ calls'[c] = call
      /\ \A d \in Callers : d # c => calls'[d] = calls[d]
      /\ UNCHANGED <<links, expired, orders>>
  BY <1>1, <1>4, <1>5, CallMoves DEF RecordPayment
<1>7. PaidWasUsed' /\ ActiveHasUses'
  BY <1>6 DEF LinkInv, PaidWasUsed, ActiveHasUses, LinkTypeOK, Call, ReachesMax
<1>8. LinkLoadsBacked'
  BY <1>1, <1>4, <1>6 DEF LinkInv, LinkLoadsBacked
<1>9. LinkUpdatesBacked'
  BY <1>1, <1>2, <1>3, <1>4, <1>6 DEF LinkInv, LinkUpdatesBacked, ReachesMax
<1>10. LinkRowsHeldOnce'
  BY <1>4, <1>6 DEF LinkInv, LinkRowsHeldOnce, RecordPayment, LinkRowFree
<1> QED
  BY <1>7, <1>8, <1>9, <1>10 DEF LinkInv

(* With its commit a call adds the use that its order stands for. *)
LEMMA LinkCommitStep ==
  ASSUME LinkInv, NEW c \in Callers, LinkCommit(c)
  PROVE  LinkInv'
<1> DEFINE l == calls[c].id
           row == calls[c].link
<1>1. LinkTypeOK /\ l \in Links /\ calls[c].at = "updated" /\ links[l].status # "none"
  BY DEF LinkInv, PaidWasUsed, LinkLoadsBacked, LinkCommit
<1>2. /\ row \in Link /\ row.uses \in Nat /\ row.uses <= orders[l] + 1
      /\ row.status = IF ReachesMax(l, row.uses) THEN "paid" ELSE links[l].status
      /\ orders[l] \in Nat /\ MaxUses[l] \in Nat
  BY <1>1, CallFields, LinkFields DEF LinkInv, LinkUpdatesBacked
<1>3. /\ calls' \in [Callers -> Call] /\ calls'[c].at = "idle"
      /\ \A d \in Callers : d # c => calls'[d] = calls[d]
  BY <1>1, CallMoves, NoLinkIsLink DEF LinkCommit, IdleCall
<1>4. /\ links' \in [Links -> Link] /\ links'[l] = row
      /\ \A k \in Links : k # l => links'[k] = links[k]
      /\ orders' \in [Links -> Nat] /\ orders'[l] = orders[l] + 1
      /\ \A k \in Links : k # l => orders'[k] = orders[k]
      /\ UNCHANGED expired
  BY <1>1, <1>2 DEF LinkCommit, LinkTypeOK
<1> HIDE DEF l, row
<1>5. LinkTypeOK'
  BY <1>1, <1>3, <1>4 DEF LinkTypeOK, Call
<1>6. /\ row.status = "paid" => MaxUses[l] > 0 /\ orders[l] + 1 >= MaxUses[l]
      /\ row.status # "none"
      /\ row.status = "active" => ~ReachesMax(l, row.uses)
  BY <1>1, <1>2 DEF LinkInv, PaidWasUsed, ReachesMax
<1>7. PaidWasUsed'
  BY <1>2, <1>4, <1>5, <1>6 DEF LinkInv, PaidWasUsed
<1>8. ActiveHasUses'
  BY <1>4, <1>6 DEF LinkInv, ActiveHasUses, ReachesMax
<1>9. \A d \in Callers : calls'[d].at # "idle" =>
        /\ d # c /\ calls'[d] = calls[d]
        /\ calls[d].id \in Links /\ links'[calls[d].id].status # "none"
        /\ calls[d].at = "updated" => calls[d].id # l
  BY <1>1, <1>3, <1>4, <1>6 DEF LinkInv, LinkLoadsBacked, LinkRowsHeldOnce, l
<1>10. \A k \in Links : orders'[k] \in Nat /\ orders[k] \in Nat /\ orders[k] <= orders'[k]
  BY <1>1, <1>4, LinkFields
<1>11. LinkLoadsBacked'
  <2> SUFFICES ASSUME NEW d \in Callers, calls'[d].at = "loaded"
               PROVE  calls'[d].link.uses <= orders'[calls'[d].id]
    BY <1>9 DEF LinkLoadsBacked
  <2>1. calls[d].link.uses <= orders[calls[d].id] /\ calls[d].link.uses \in Nat
    BY <1>1, <1>9, CallFields DEF LinkInv, LinkLoadsBacked
  <2> QED
    BY <1>9, <1>10, <2>1
<1>12. LinkUpdatesBacked'
  BY <1>4, <1>9 DEF LinkInv, LinkUpdatesBacked, ReachesMax
<1>13. LinkRowsHeldOnce'
  BY <1>9 DEF LinkInv, LinkRowsHeldOnce
<1> QED
  BY <1>7, <1>8, <1>11, <1>12, <1>13 DEF LinkInv

(* Every step keeps every part of the invariant. *)
LEMMA LinkStep ==
  LinkInv /\ [LinkNext]_linkVars => LinkInv'
<1> SUFFICES ASSUME LinkInv, [LinkNext]_linkVars PROVE LinkInv'
  OBVIOUS
<1>1. CASE UNCHANGED linkVars
  BY <1>1
     DEF linkVars, LinkInv, PaidWasUsed, LinkTypeOK, LinkLoadsBacked, LinkUpdatesBacked,
         LinkRowsHeldOnce, ActiveHasUses, ReachesMax
<1>2. ASSUME NEW l \in Links, ExpiresAtPasses(l) PROVE LinkInv'
  BY <1>2
     DEF ExpiresAtPasses, LinkInv, PaidWasUsed, LinkTypeOK, LinkLoadsBacked, LinkUpdatesBacked,
         LinkRowsHeldOnce, ActiveHasUses, ReachesMax
<1>3. ASSUME NEW c \in Callers, RefusePayment(c) \/ LinkCrash(c) PROVE LinkInv'
  BY <1>3, LinkGivesUp DEF RefusePayment, LinkCrash, LinkRollback
<1> QED
  BY <1>1, <1>2, <1>3, LinkCreateStep, DisableStep, LinkLoadStep, RecordStep, LinkCommitStep
     DEF LinkNext

(* The invariant of payment links holds of every behaviour. *)
LEMMA LinkInvariant ==
  LinkSpec => []LinkInv
BY LinkStarts, LinkStep, PTL DEF LinkSpec

-----------------------------------------------------------------------------
(* For any number of overlapping payments, lost uses and crashes: what       *)
(* use_count shows was paid for by an order each, and a link is closed as    *)
(* paid only after max_uses orders.                                          *)
THEOREM PaidLinksUsed ==
  LinkSpec => []PaidWasUsed
BY LinkInvariant, PTL DEF LinkInv

(* An expired, disabled or used-up link is never usable again, although the *)
(* count of a stale payment may take use_count back.                        *)
THEOREM UnusableForGood ==
  LinkSpec => UnusableStaysUnusable
<1>1. ASSUME LinkInv, [LinkNext]_linkVars, NEW l \in Links, links[l] # NoLink,
      ~IsUsable(l, links[l])
      PROVE  ~IsUsable(l, links[l])'
  <2>1. LinkTypeOK
    BY <1>1 DEF LinkInv, PaidWasUsed
  <2>2. links[l].status # "none"
    BY <1>1, <2>1, LinkFields DEF LinkInv, ActiveHasUses, NoLink, Link
  <2>3. expired \subseteq expired'
    BY <1>1
       DEF LinkNext, linkVars, CreateLink, ExpiresAtPasses, DisableLink, LoadLink, RefusePayment,
           RecordPayment, LinkCommit, LinkCrash
  <2>4. CASE links[l].status = "active"
    <3>1. l \in expired
      BY <1>1, <2>1, <2>4, LinkFields DEF IsUsable, LinkInv, ActiveHasUses, ReachesMax
    <3> QED
      BY <2>3, <3>1 DEF IsUsable
  <2>5. CASE links[l].status # "active"
    <3>1. ASSUME NEW k \in Links, CreateLink(k) PROVE links'[l].status # "active"
      BY <2>1, <2>2, <2>5, <3>1 DEF CreateLink, NoLink, LinkTypeOK
    <3>2. ASSUME NEW k \in Links, DisableLink(k) PROVE links'[l].status # "active"
      BY <2>1, <2>5, <3>2, LinkFields DEF DisableLink, Disabled, LinkTypeOK, Link
    <3>3. ASSUME NEW c \in Callers, LinkCommit(c) PROVE links'[l].status # "active"
      BY <1>1, <2>1, <2>5, <3>3 DEF LinkCommit, LinkInv, LinkUpdatesBacked, LinkTypeOK
    <3>4. ASSUME UNCHANGED links PROVE links'[l].status # "active"
      BY <2>5, <3>4
    <3>5. links'[l].status # "active"
      BY <1>1, <3>1, <3>2, <3>3, <3>4
      DEF LinkNext, linkVars, ExpiresAtPasses, LoadLink, RefusePayment, RecordPayment, LinkCrash,
          LinkRollback
    <3> QED
      BY <3>5 DEF IsUsable
  <2> QED
    BY <2>4, <2>5
<1>2. ASSUME LinkInv, [LinkNext]_linkVars
      PROVE  [\A l \in Links : links[l] # NoLink /\ ~IsUsable(l, links[l])
                                => ~IsUsable(l, links[l])']_linkVars
  BY <1>1, <1>2
<1> QED
  BY <1>2, LinkInvariant, PTL DEF LinkSpec, UnusableStaysUnusable

=============================================================================
