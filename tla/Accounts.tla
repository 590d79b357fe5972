-------------------------------- MODULE Accounts --------------------------------
(***************************************************************************)
(* Registration, e-mail verification, login and test keys of merchants:    *)
(* merchants/views.py, authentication.py and the mail tasks.  Registration *)
(* is three INSERTs and a message to the broker, each committed by itself; *)
(* the mail is sent by a Celery worker, which takes a message off the      *)
(* queue before it runs it.                                                *)
(***************************************************************************)
EXTENDS Naturals, FiniteSets

CONSTANTS
  Addresses,   \* e-mail addresses, in lower case
  Workers,     \* clients, each served by a request at a time
  Consumed,    \* the queues the workers are started with (-Q)
  MaxKeys,     \* bound: test keys of a merchant
  MaxRetries,  \* max_retries of the mail tasks
  MaxBounces,  \* bound: failures of the mail server
  MaxFaults,   \* bound: killed processes and failures of the broker
  None

ASSUME AccountAssumption ==
  /\ MaxKeys \in Nat \ {0} /\ MaxRetries \in Nat /\ MaxBounces \in Nat /\ MaxFaults \in Nat
  /\ IsFiniteSet(Workers) /\ None \notin Workers \cup Addresses

VARIABLES
  users,      \* Django users: state, and the client whose password it has
  merchants,  \* Merchant rows: state, and the client whose details it has
  keys,       \* APIKey rows: how many test keys a merchant has, active and disabled
  mails,      \* mail tasks in the queue
  links,      \* the verification link a merchant has in its inbox
  answered,   \* history: the client that was told its account is created
  late,       \* history: keys created for a merchant while it is suspended
  jobs,       \* what each request is doing
  bounces, faults

vars == <<users, merchants, keys, mails, links, answered, late, jobs, bounces, faults>>

-----------------------------------------------------------------------------
(* No task is routed anywhere: every message is sent to Celery's default queue. *)
MessageQueue == "celery"

NoRow == [state |-> "none", by |-> None]
UserRow == [state: {"inactive", "active"}, by: Workers] \cup {NoRow}
MerchantRow == [state: {"active", "suspended"}, by: Workers] \cup {NoRow}
Keys == [active: 0..MaxKeys, disabled: 0..MaxKeys]

Mail == [task: {"verification", "kyc"}, to: Addresses, retries: 0..MaxRetries]

Places == {"idle", "user", "merchant", "key", "mail", "login", "page", "touch", "newkey"}
IdleJob == [at |-> "idle", email |-> None]

TypeOK ==
  /\ users \in [Addresses -> UserRow]
  /\ merchants \in [Addresses -> MerchantRow]
  /\ keys \in [Addresses -> Keys]
  /\ mails \subseteq Mail
  /\ links \in [Addresses -> {"none", "valid", "expired"}]
  /\ answered \in [Addresses -> Workers \cup {None}]
  /\ late \in [Addresses -> 0..MaxKeys]
  /\ jobs \in [Workers -> [at: Places, email: Addresses \cup {None}]]
  /\ bounces \in 0..MaxBounces
  /\ faults \in 0..MaxFaults

Init ==
  /\ users = [e \in Addresses |-> NoRow]
  /\ merchants = [e \in Addresses |-> NoRow]
  /\ keys = [e \in Addresses |-> [active |-> 0, disabled |-> 0]]
  /\ mails = {}
  /\ links = [e \in Addresses |-> "none"]
  /\ answered = [e \in Addresses |-> None]
  /\ late = [e \in Addresses |-> 0]
  /\ jobs = [w \in Workers |-> IdleJob]
  /\ bounces = 0
  /\ faults = 0

Go(w, place) == jobs' = [jobs EXCEPT ![w].at = place]
Done(w) == jobs' = [jobs EXCEPT ![w] = IdleJob]
Begin(w, e, place) ==
  /\ jobs[w] = IdleJob
  /\ jobs' = [jobs EXCEPT ![w] = [IdleJob EXCEPT !.at = place, !.email = e]]
Fault == faults < MaxFaults /\ faults' = faults + 1

Taken(row) == row.state # "none"
KeysOf(e) == keys[e].active + keys[e].disabled

-----------------------------------------------------------------------------
(* MerchantRegistrationView *)

(* The serializer looks for a merchant under the address as it was typed, *)
(* and only then makes it lower case: in capitals it may not be found,    *)
(* depending on the database's collation.                                 *)
Validated(e, asTyped) == asTyped = "capitals" \/ ~Taken(merchants[e])

Register(w, e, asTyped) ==
  /\ Validated(e, asTyped)
  /\ Begin(w, e, "user")
  /\ UNCHANGED <<users, merchants, keys, mails, links, answered, late, bounces, faults>>

(* Mutant: get_or_create, which takes the row that is there. *)
UserNameFreeOrShared(e) == TRUE
(* The user name is unique; the IntegrityError is not handled. *)
UserNameFree(e) == ~Taken(users[e])

(* Mutant: the account is active at once. *)
NewUserActive(w) == [state |-> "active", by |-> w]
NewUser(w) == [state |-> "inactive", by |-> w]

CreateUser(w) ==
  LET e == jobs[w].email IN
  /\ jobs[w].at = "user"
  /\ IF UserNameFree(e)
     THEN /\ users' = IF Taken(users[e]) THEN users ELSE [users EXCEPT ![e] = NewUser(w)]
          /\ Go(w, "merchant")
     ELSE Done(w) /\ UNCHANGED users
  /\ UNCHANGED <<merchants, keys, mails, links, answered, late, bounces, faults>>

(* Mutant: the first key is forgotten. *)
CreateMerchantNoKey(w) ==
  LET e == jobs[w].email IN
  /\ jobs[w].at = "merchant"
  /\ IF ~Taken(merchants[e])
     THEN /\ merchants' = [merchants EXCEPT ![e] = [state |-> "active", by |-> w]]
          /\ Go(w, "mail")
     ELSE Done(w) /\ UNCHANGED merchants
  /\ UNCHANGED <<users, keys, mails, links, answered, late, bounces, faults>>

(* Merchant.email is unique, too. *)
CreateMerchant(w) ==
  LET e == jobs[w].email IN
  /\ jobs[w].at = "merchant"
  /\ IF ~Taken(merchants[e])
     THEN /\ merchants' = [merchants EXCEPT ![e] = [state |-> "active", by |-> w]]
          /\ Go(w, "key")
     ELSE Done(w) /\ UNCHANGED merchants
  /\ UNCHANGED <<users, keys, mails, links, answered, late, bounces, faults>>

InsertKey(e) ==
  /\ KeysOf(e) < MaxKeys
  /\ keys' = [keys EXCEPT ![e].active = @ + 1]

CreateFirstKey(w) ==
  /\ jobs[w].at = "key"
  /\ InsertKey(jobs[w].email)
  /\ Go(w, "mail")
  /\ UNCHANGED <<users, merchants, mails, links, answered, late, bounces, faults>>

Queued(task, e) == mails \cup {[task |-> task, to |-> e, retries |-> 0]}

Answer(w) ==
  /\ answered' = [answered EXCEPT ![jobs[w].email] = w]
  /\ Done(w)

(* send_verification_email.delay, and 201. *)
QueueVerification(w) ==
  /\ jobs[w].at = "mail"
  /\ mails' = Queued("verification", jobs[w].email)
  /\ Answer(w)
  /\ UNCHANGED <<users, merchants, keys, links, late, bounces, faults>>

(* The broker is down: "Don't fail registration if email fails". *)
QueueFails(w) ==
  /\ jobs[w].at = "mail"
  /\ Fault
  /\ Answer(w)
  /\ UNCHANGED <<users, merchants, keys, mails, links, late, bounces>>

-----------------------------------------------------------------------------
(* The Celery worker *)

(* autodiscover_tasks imports the modules named tasks; kyc_tasks is imported *)
(* only by the functions of KYCService that queue its tasks.                 *)
Registered == {"verification"}

(* The link carries a token that is good for 24 hours. *)
SendMail(m) ==
  /\ m \in mails
  /\ MessageQueue \in Consumed
  /\ m.task \in Registered
  /\ mails' = mails \ {m}
  /\ links' = [links EXCEPT ![m.to] = "valid"]
  /\ UNCHANGED <<users, merchants, keys, answered, late, jobs, bounces, faults>>

(* Mutant: one retry too few. *)
MayRetryLess(m) == m.retries + 1 < MaxRetries
MayRetry(m) == m.retries < MaxRetries

(* send_mail raises: self.retry puts the task back, MaxRetries times. *)
MailFails(m) ==
  /\ m \in mails
  /\ MessageQueue \in Consumed
  /\ m.task \in Registered
  /\ bounces < MaxBounces
  /\ bounces' = bounces + 1
  /\ mails' = (mails \ {m}) \cup (IF MayRetry(m) THEN {[m EXCEPT !.retries = @ + 1]} ELSE {})
  /\ UNCHANGED <<users, merchants, keys, links, answered, late, jobs, faults>>

(* A message whose task the worker does not know is logged and thrown away. *)
Discard(m) ==
  /\ m \in mails
  /\ MessageQueue \in Consumed
  /\ m.task \notin Registered
  /\ mails' = mails \ {m}
  /\ UNCHANGED <<users, merchants, keys, links, answered, late, jobs, bounces, faults>>

(* The worker is killed with the task it has taken off the queue. *)
WorkerKilled(m) ==
  /\ m \in mails
  /\ MessageQueue \in Consumed
  /\ Fault
  /\ mails' = mails \ {m}
  /\ UNCHANGED <<users, merchants, keys, links, answered, late, jobs, bounces>>

(* KYCService queues the mail of a submission or a review. *)
QueueKycMail(e) ==
  /\ Taken(merchants[e])
  /\ mails' = Queued("kyc", e)
  /\ UNCHANGED <<users, merchants, keys, links, answered, late, jobs, bounces, faults>>

-----------------------------------------------------------------------------
(* EmailVerificationView: the token is good as often as it is presented. *)
VerifyEmail(e) ==
  /\ links[e] = "valid"
  /\ users' = [users EXCEPT ![e].state = "active"]
  /\ UNCHANGED <<merchants, keys, mails, links, answered, late, jobs, bounces, faults>>

LinkExpires(e) ==
  /\ links[e] = "valid"
  /\ links' = [links EXCEPT ![e] = "expired"]
  /\ UNCHANGED <<users, merchants, keys, mails, answered, late, jobs, bounces, faults>>

(* MerchantLoginView: authenticate() knows only active users, so its own *)
(* test of is_active never fails; then the merchant is looked up.        *)
Authenticate(w, e) ==
  /\ users[e].state = "active"
  /\ Begin(w, e, "login")
  /\ UNCHANGED <<users, merchants, keys, mails, links, answered, late, bounces, faults>>

Login(w) ==
  /\ jobs[w].at = "login"
  /\ Done(w)
  /\ UNCHANGED <<users, merchants, keys, mails, links, answered, late, bounces, faults>>

(* dashboard_login: the session is that of the Django user. *)
DashboardLogin(w, e) ==
  /\ users[e].state = "active"
  /\ Begin(w, e, "page")
  /\ UNCHANGED <<users, merchants, keys, mails, links, answered, late, bounces, faults>>

(* dashboard_home: a user without a merchant is sent to the login page, and *)
(* from there, being logged in, back to this one.                           *)
OpenDashboard(w) ==
  /\ jobs[w].at = "page"
  /\ Taken(merchants[jobs[w].email])
  /\ Done(w)
  /\ UNCHANGED <<users, merchants, keys, mails, links, answered, late, bounces, faults>>

-----------------------------------------------------------------------------
(* APIKeyAuthentication *)

(* Mutant: the merchant's own flag is forgotten. *)
KeyValidAlone(e) == keys[e].active > 0
KeyValid(e) == keys[e].active > 0 /\ merchants[e].state = "active"

(* One query loads the key and its merchant. *)
ValidateKey(w, e) ==
  /\ KeyValid(e)
  /\ Begin(w, e, "touch")
  /\ UNCHANGED <<users, merchants, keys, mails, links, answered, late, bounces, faults>>

(* last_used_at; a request that changes nothing here ends with it. *)
TouchKey(w) ==
  /\ jobs[w].at = "touch"
  /\ Go(w, "newkey") \/ Done(w)
  /\ UNCHANGED <<users, merchants, keys, mails, links, answered, late, bounces, faults>>

(* GenerateAPIKeyView; live keys are Onboarding's. *)
GenerateKey(w) ==
  LET e == jobs[w].email IN
  /\ jobs[w].at = "newkey"
  /\ InsertKey(e)
  /\ late' = IF merchants[e].state = "suspended" THEN [late EXCEPT ![e] = @ + 1] ELSE late
  /\ Done(w)
  /\ UNCHANGED <<users, merchants, mails, links, answered, bounces, faults>>

(* The administrator: APIKeyAdmin's form, suspend_merchant, unsuspend_merchant. *)
SetKeyActive(e, active) ==
  /\ IF active THEN keys[e].disabled > 0 ELSE keys[e].active > 0
  /\ keys' = [keys EXCEPT ![e] = IF active THEN [active |-> @.active + 1, disabled |-> @.disabled - 1]
                                           ELSE [active |-> @.active - 1, disabled |-> @.disabled + 1]]
  /\ UNCHANGED <<users, merchants, mails, links, answered, late, jobs, bounces, faults>>

SetSuspended(e, suspended) ==
  /\ Taken(merchants[e])
  /\ (merchants[e].state = "suspended") # suspended
  /\ merchants' = [merchants EXCEPT ![e].state = IF suspended THEN "suspended" ELSE "active"]
  /\ late' = [late EXCEPT ![e] = 0]
  /\ UNCHANGED <<users, keys, mails, links, answered, jobs, bounces, faults>>

Killed(w) ==
  /\ jobs[w] # IdleJob
  /\ Fault
  /\ Done(w)
  /\ UNCHANGED <<users, merchants, keys, mails, links, answered, late, bounces>>

(* The bound on keys is reached. *)
NoKeyLeft(w) ==
  /\ jobs[w].at \in {"key", "newkey"}
  /\ KeysOf(jobs[w].email) = MaxKeys
  /\ Done(w)
  /\ UNCHANGED <<users, merchants, keys, mails, links, answered, late, bounces, faults>>

-----------------------------------------------------------------------------
Work(w) ==
  \/ CreateUser(w)
  \/ CreateMerchant(w)
  \/ CreateFirstKey(w)
  \/ QueueVerification(w)
  \/ Login(w)
  \/ OpenDashboard(w)
  \/ TouchKey(w)
  \/ GenerateKey(w)
  \/ NoKeyLeft(w)

Next ==
  \/ \E w \in Workers :
       \/ \E e \in Addresses :
            \/ \E asTyped \in {"small", "capitals"} : Register(w, e, asTyped)
            \/ Authenticate(w, e)
            \/ DashboardLogin(w, e)
            \/ ValidateKey(w, e)
       \/ Work(w)
       \/ QueueFails(w)
       \/ Killed(w)
  \/ \E m \in mails : SendMail(m) \/ MailFails(m) \/ Discard(m) \/ WorkerKilled(m)
  \/ \E e \in Addresses :
       \/ QueueKycMail(e)
       \/ VerifyEmail(e)
       \/ LinkExpires(e)
       \/ \E active \in BOOLEAN : SetKeyActive(e, active) \/ SetSuspended(e, ~active)

(* Requests that have begun are carried on, and a worker that consumes       *)
(* MessageQueue takes its messages.  The workers of the deployment do not:   *)
(* for their queues SendMail and Discard are never enabled, and their        *)
(* fairness says nothing.                                                    *)
Fairness ==
  /\ \A w \in Workers : WF_vars(Work(w))
  /\ \A m \in Mail : WF_vars(SendMail(m) \/ Discard(m))

Spec == Init /\ [][Next]_vars /\ Fairness

-----------------------------------------------------------------------------
(* However registrations of one address overlap, in whatever spelling, the  *)
(* client that is told its account is created is the one whose password     *)
(* logs in to it and whose details the merchant has.                        *)
AccountIsWhole ==
  /\ TypeOK
  /\ \A e \in Addresses : answered[e] # None =>
       users[e].by = answered[e] /\ merchants[e].by = answered[e] /\ KeysOf(e) > 0

(* A user without a merchant, or a merchant without a key, is one whose     *)
(* registration is still going on, unless its process was killed: losing a  *)
(* race for the address leaves nothing behind.                              *)
HalfAccountOnlyByFault ==
  faults = 0 =>
    \A e \in Addresses :
      LET going(place) == \E w \in Workers : jobs[w].email = e /\ jobs[w].at = place IN
      /\ Taken(users[e]) /\ ~Taken(merchants[e]) => going("merchant")
      /\ Taken(merchants[e]) /\ KeysOf(e) = 0 => going("key")

(* Who can log in has a merchant, so that "Merchant not found" of the login *)
(* and the dashboard that redirects for ever never happen, killed           *)
(* registrations included: the link is only sent when the account is        *)
(* complete.                                                                *)
ActiveUserHasMerchant ==
  \A e \in Addresses :
    users[e].state = "active" => Taken(merchants[e]) /\ KeysOf(e) > 0

(* A suspension ends the making of keys: only requests that were already    *)
(* authenticated may still make one each (APIKeyAuthentication).            *)
LateKeysBounded == \A e \in Addresses : late[e] <= Cardinality(Workers)

(* The account is made, and its mail neither arrived nor waits to be sent. *)
Unmailed ==
  {e \in Addresses :
     /\ answered[e] # None
     /\ links[e] = "none"
     /\ ~\E m \in mails : m.task = "verification" /\ m.to = e}

(* Nothing sends a verification mail a second time.  Each failure of the     *)
(* broker and each killed worker loses the mail of at most one account, and  *)
(* nothing else does while the mail server has failed MaxRetries times at    *)
(* most: the last retry is still in the queue then (tasks.py).               *)
MailNotLost == bounces <= MaxRetries => Cardinality(Unmailed) <= faults

-----------------------------------------------------------------------------
(* What is promised and not kept *)

(* "Creates merchant account + Django user + sends verification email"       *)
(* (MerchantRegistrationView): without faults, who is told that its account  *)
(* is created gets the mail.                                                 *)
VerificationArrives ==
  \A e \in Addresses : answered[e] # None ~> links[e] # "none" \/ faults > 0

(* A killed registration can be made again: its address comes free, or is   *)
(* completed.                                                               *)
AddressNotStranded ==
  \A e \in Addresses : Taken(users[e]) ~> answered[e] # None \/ ~Taken(users[e])

=============================================================================
