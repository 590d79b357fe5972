--------------------------- MODULE VirtualAccounts ---------------------------
(***************************************************************************)
(* Virtual accounts: VirtualAccountService and the three views that call   *)
(* it.  A credit reads the account before its transaction, adds to the     *)
(* amount it read, and holds the row from its first UPDATE to the commit,  *)
(* the webhook's HTTP request included.                                    *)
(***************************************************************************)
EXTENDS Naturals

CONSTANTS
  Accounts,
  Expected,   \* amount_expected, 0 where it is null (the code tests its truth)
  Amounts,    \* amounts of the bank's credits; "0" passes the view's test
  Workers,    \* requests served at the same time
  MaxCredited,\* bound on the money credited to one account
  None

ASSUME AccountAssumption ==
  /\ Expected \in [Accounts -> Nat]
  /\ Amounts \subseteq Nat
  /\ MaxCredited \in Nat
  /\ None \notin Accounts

VARIABLES
  accounts,   \* VirtualAccount rows, as committed
  jobs,       \* what each request is doing
  credited    \* history: the captured payments of each account, added up

vars == <<accounts, jobs, credited>>

-----------------------------------------------------------------------------
Row == [status: {"none", "active", "closed"}, paid: Nat]

(* row: the object in memory while at = "loaded", the transaction's own *)
(* uncommitted version of the row afterwards.                           *)
IdleJob == [at |-> "idle", account |-> None, amount |-> 0, row |-> [status |-> "none", paid |-> 0]]

Job == [at: {"idle"}, account: {None}, amount: {0}, row: {IdleJob.row}]
         \cup [at: {"loaded", "updated"}, account: Accounts, amount: Amounts, row: Row]

TypeOK ==
  /\ accounts \in [Accounts -> Row]
  /\ jobs \in [Workers -> Job]
  /\ credited \in [Accounts -> Nat]

Init ==
  /\ accounts = [a \in Accounts |-> [status |-> "none", paid |-> 0]]
  /\ jobs = [w \in Workers |-> IdleJob]
  /\ credited = [a \in Accounts |-> 0]

(* No open transaction has updated the row. *)
RowFree(a) == \A w \in Workers : ~(jobs[w].at = "updated" /\ jobs[w].account = a)

-----------------------------------------------------------------------------
Opened(a) == [accounts EXCEPT ![a].status = "active"]

CreateVirtualAccount(a) ==
  /\ accounts[a].status = "none"
  /\ accounts' = Opened(a)
  /\ UNCHANGED <<jobs, credited>>

(* The view's get(), outside the transaction. *)
LoadForCredit(w, a, amount) ==
  /\ jobs[w] = IdleJob
  /\ accounts[a].status # "none"
  /\ credited[a] + amount <= MaxCredited
  /\ jobs' = [jobs EXCEPT ![w] = [at |-> "loaded", account |-> a, amount |-> amount,
                                  row |-> accounts[a]]]
  /\ UNCHANGED <<accounts, credited>>

(* 'Virtual account is closed.' *)
RefuseCredit(w) ==
  /\ jobs[w].at = "loaded"
  /\ jobs[w].row.status # "active"
  /\ jobs' = [jobs EXCEPT ![w] = IdleJob]
  /\ UNCHANGED <<accounts, credited>>

(* Mutant: the account closes only when more than expected has come in. *)
IsFullLate(a, paid) == Expected[a] > 0 /\ paid > Expected[a]

IsFull(a, paid) == Expected[a] > 0 /\ paid >= Expected[a]

(* Mutant: the whole object is saved, with the status it was loaded with. *)
UpdatedRowSaved(a, seen, amount) ==
  [status |-> IF IsFull(a, seen.paid + amount) THEN "closed" ELSE seen.status,
   paid |-> seen.paid + amount]

(* The two UPDATEs and the refresh between them: the sum is of the amount in *)
(* memory, the status is the row's own.                                      *)
UpdatedRow(a, seen, amount) ==
  [status |-> IF IsFull(a, seen.paid + amount) THEN "closed" ELSE accounts[a].status,
   paid |-> seen.paid + amount]

UpdatePaid(w) ==
  LET job == jobs[w] IN
  /\ job.at = "loaded"
  /\ job.row.status = "active"
  /\ RowFree(job.account)
  /\ jobs' = [jobs EXCEPT ![w].at = "updated",
                          ![w].row = UpdatedRow(job.account, job.row, job.amount)]
  /\ UNCHANGED <<accounts, credited>>

(* Order, payment and account row become visible together. *)
Commit(w) ==
  LET job == jobs[w] IN
  /\ job.at = "updated"
  /\ accounts' = [accounts EXCEPT ![job.account] = job.row]
  /\ credited' = [credited EXCEPT ![job.account] = @ + job.amount]
  /\ jobs' = [jobs EXCEPT ![w] = IdleJob]

(* Mutant: autocommit, without transaction.atomic the UPDATE stays. *)
RollbackKeepsUpdate(w) ==
  accounts' = IF jobs[w].at = "updated"
              THEN [accounts EXCEPT ![jobs[w].account] = jobs[w].row] ELSE accounts
Rollback(w) == UNCHANGED accounts

(* The process dies or a statement raises: the transaction is rolled back. *)
Crash(w) ==
  /\ jobs[w] # IdleJob
  /\ jobs' = [jobs EXCEPT ![w] = IdleJob]
  /\ Rollback(w)
  /\ UNCHANGED credited

(* One UPDATE by id, whatever the status; it waits for the row. *)
Closed(a) == [accounts EXCEPT ![a].status = "closed"]

CloseAccount(w, a) ==
  /\ jobs[w] = IdleJob
  /\ accounts[a].status # "none"
  /\ RowFree(a)
  /\ accounts' = Closed(a)
  /\ UNCHANGED <<jobs, credited>>

Next ==
  \/ \E a \in Accounts : CreateVirtualAccount(a)
  \/ \E w \in Workers, a \in Accounts :
       CloseAccount(w, a) \/ \E amount \in Amounts : LoadForCredit(w, a, amount)
  \/ \E w \in Workers : RefuseCredit(w) \/ UpdatePaid(w) \/ Commit(w) \/ Crash(w)

Spec == Init /\ [][Next]_vars

-----------------------------------------------------------------------------
(* What the races leave intact *)

(* However credits overlap and crash, amount_paid never shows money that no *)
(* captured payment stands for.                                             *)
NeverOvercounts == \A a \in Accounts : accounts[a].paid <= credited[a]

(* An account whose amount_paid has reached amount_expected is closed. *)
ClosedWhenFull ==
  \A a \in Accounts :
    Expected[a] > 0 /\ accounts[a].paid >= Expected[a] => accounts[a].status = "closed"

(* A credit in flight does not open an account again that was closed meanwhile. *)
ClosedStaysClosed ==
  [][\A a \in Accounts : accounts[a].status = "closed" => accounts'[a].status = "closed"]_vars

(* The credit that commits was computed from a row that is not the current one. *)
StaleCredit ==
  \E w \in Workers :
    LET job == jobs[w] IN
    /\ job.at = "updated" /\ jobs'[w] = IdleJob
    /\ \/ accounts[job.account].status # "active"
       \/ job.row.paid # accounts[job.account].paid + job.amount

(* Every step, races and crashes included, is a step of AccountLedger or the *)
(* commit of a stale credit: those are the only thing between this code and  *)
(* that ledger.                                                              *)
Ledger == INSTANCE AccountLedger WITH
  phase <- [a \in Accounts |-> CASE accounts[a].status = "none" -> "unborn"
                                 [] accounts[a].status = "active" -> "open"
                                 [] OTHER -> "closed"],
  balance <- [a \in Accounts |-> accounts[a].paid]
FreshIsLedger == Ledger!Init /\ [][Ledger!Next \/ StaleCredit]_(Ledger!vars)

-----------------------------------------------------------------------------
(* What tests and messages say and concurrent requests break *)

(* test_two_credits_accumulate_amount_paid: amount_paid is all the money credited. *)
AmountPaidIsSum == \A a \in Accounts : accounts[a].paid = credited[a]

(* 'Virtual account is closed.': no payment is captured on a closed account. *)
ClosedNotCredited ==
  [][\A a \in Accounts : accounts[a].status = "closed" => credited'[a] = credited[a]]_vars

=============================================================================
