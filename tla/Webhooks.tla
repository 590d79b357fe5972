------------------------------ MODULE Webhooks ------------------------------
(***************************************************************************)
(* Webhook delivery: WebhookService, the administrator's two actions and   *)
(* the Celery task of webhooks/tasks.py.  A delivery reads the event,      *)
(* posts it to the merchant, which takes up to ten seconds, and stores the *)
(* outcome by id with the number of attempts it read plus one.             *)
(***************************************************************************)
EXTENDS Naturals, FiniteSets

CONSTANTS
  Endpoints,
  Subscribed,   \* the endpoints whose event_types list the event
  Wildcards,    \* the endpoints whose event_types list '*'
  EventIds,     \* uuid4
  MaxAttempts,  \* MAX_ATTEMPTS, 6
  Services,     \* requests in which WebhookService dispatches an event
  Retriers,     \* calls of retry_pending at the same time
  Admins,       \* administrators forcing retries
  MaxPosts,     \* bound on how often one event is posted
  MaxCrashes,   \* bound on killed processes
  None

ASSUME WebhookAssumption ==
  /\ Subscribed \subseteq Endpoints /\ Wildcards \subseteq Endpoints
  /\ MaxAttempts \in Nat \ {0}
  /\ MaxPosts \in Nat /\ MaxCrashes \in Nat
  /\ Services \cap Retriers = {} /\ (Services \cup Retriers) \cap Admins = {}
  /\ None \notin EventIds

VARIABLES
  active,    \* the endpoints: not registered, active or inactive
  events,    \* WebhookEvent rows
  jobs,      \* what each process is doing
  messages,  \* a dispatch_webhook_event message waits
  unrecorded,\* history: such a message was handled, and no event came of it
  posts,     \* history: how often each event was posted
  moved,     \* history: the events an administrator moved to dead letter
  crashes

vars == <<active, events, jobs, messages, unrecorded, posts, moved, crashes>>

-----------------------------------------------------------------------------
Deliverers == Services \cup Retriers \cup Admins
EndpointStatus == {"none", "active", "inactive"}
EventStatus == {"none", "pending", "delivered", "failed", "dead_letter"}

(* next_retry_at: null, in the future, or past. *)
RetryTimes == {"null", "later", "due"}

NoEvent == [status |-> "none", attempts |-> 0, retry |-> "null"]
IdleJob == [at |-> "idle", endpoints |-> {}, rows |-> {}, event |-> None, seen |-> 0, answer |-> "none"]

TypeOK ==
  /\ active \in [Endpoints -> EndpointStatus]
  /\ events \in [EventIds -> [status: EventStatus, attempts: Nat, retry: RetryTimes]]
  /\ \A d \in Deliverers :
       /\ jobs[d].at \in {"idle", "work", "save", "post", "store"}
       /\ jobs[d].endpoints \subseteq Endpoints
       /\ jobs[d].rows \subseteq [event: EventIds, attempts: Nat]
       /\ jobs[d].event \in EventIds \cup {None}
       /\ jobs[d].answer \in {"none", "2xx", "other", "lost"}
  /\ messages \in BOOLEAN /\ unrecorded \in BOOLEAN
  /\ posts \in [EventIds -> 0..MaxPosts]
  /\ moved \subseteq EventIds
  /\ crashes \in 0..MaxCrashes

Init ==
  /\ active = [x \in Endpoints |-> "none"]
  /\ events = [e \in EventIds |-> NoEvent]
  /\ jobs = [d \in Deliverers |-> IdleJob]
  /\ messages = FALSE
  /\ unrecorded = FALSE
  /\ posts = [e \in EventIds |-> 0]
  /\ moved = {}
  /\ crashes = 0

(* The rows a query returned, as objects with the attempts they had then. *)
Loaded(E) == {[event |-> e, attempts |-> events[e].attempts] : e \in E}

Active(x) == active[x] = "active"
Targets == {x \in Subscribed : Active(x)}

-----------------------------------------------------------------------------
(* WebhookEndpointCreateView: a new endpoint is active. *)
RegisterEndpoint(x) ==
  /\ active[x] = "none"
  /\ active' = [active EXCEPT ![x] = "active"]
  /\ UNCHANGED <<events, jobs, messages, unrecorded, posts, moved, crashes>>

(* One event for each endpoint in T, as far as there are unused event ids. *)
Notify(d, T) ==
  /\ jobs[d] = IdleJob
  /\ T # {}
  /\ Cardinality(T) + Cardinality(UNION {jobs[s].endpoints : s \in Services})
       <= Cardinality({e \in EventIds : events[e] = NoEvent})
  /\ jobs' = [jobs EXCEPT ![d].at = "work", ![d].endpoints = T]
  /\ UNCHANGED <<active, events, messages, unrecorded, posts, moved, crashes>>

(* dispatch_event, called by record_credit: the endpoints are loaded in one   *)
(* query, and one that is deactivated afterwards is notified all the same.    *)
DispatchEvent(d) == Notify(d, Targets)

(* WebhookTestView: one endpoint, subscribed or not. *)
TestEndpoint(d, x) == Active(x) /\ Notify(d, {x})

CreateEvent(d, e) ==
  /\ jobs[d].at = "work"
  /\ events[e] = NoEvent
  /\ events' = [events EXCEPT ![e] = [status |-> "pending", attempts |-> 0, retry |-> "due"]]
  /\ \E x \in jobs[d].endpoints :
       jobs' = [jobs EXCEPT ![d].at = "post", ![d].endpoints = @ \ {x},
                            ![d].event = e, ![d].seen = 0]
  /\ UNCHANGED <<active, messages, unrecorded, posts, moved, crashes>>

(* retry_pending: one query for all events that are due. *)
LoadDueEvents(d) ==
  LET due == {e \in EventIds : events[e].status = "failed" /\ events[e].retry = "due"} IN
  /\ jobs[d] = IdleJob
  /\ due # {}
  /\ jobs' = [jobs EXCEPT ![d].at = "work", ![d].rows = Loaded(due)]
  /\ UNCHANGED <<active, events, messages, unrecorded, posts, moved, crashes>>

(* retry_delivery, of the events in E that have failed or are dead letters. *)
LoadForcedRetries(d, E) ==
  LET forced == {e \in E : events[e].status \in {"failed", "dead_letter"}} IN
  /\ jobs[d] = IdleJob
  /\ forced # {}
  /\ jobs' = [jobs EXCEPT ![d].at = "work", ![d].rows = Loaded(forced)]
  /\ UNCHANGED <<active, events, messages, unrecorded, posts, moved, crashes>>

TakeRow(d) ==
  /\ jobs[d].at = "work"
  /\ \E row \in jobs[d].rows :
       jobs' = [jobs EXCEPT ![d].at = IF d \in Admins THEN "save" ELSE "post",
                            ![d].rows = @ \ {row},
                            ![d].event = row.event, ![d].seen = row.attempts]
  /\ UNCHANGED <<active, events, messages, unrecorded, posts, moved, crashes>>

(* event.save() writes the whole object, also the attempts it was loaded with. *)
SaveForced(d) ==
  /\ jobs[d].at = "save"
  /\ events' = [events EXCEPT ![jobs[d].event] =
                  [status |-> "failed", attempts |-> jobs[d].seen, retry |-> "null"]]
  /\ jobs' = [jobs EXCEPT ![d].at = "post"]
  /\ UNCHANGED <<active, messages, unrecorded, posts, moved, crashes>>

FinishJob(d) ==
  /\ jobs[d].at = "work"
  /\ jobs[d].endpoints = {} /\ jobs[d].rows = {}
  /\ jobs' = [jobs EXCEPT ![d] = IdleJob]
  /\ UNCHANGED <<active, events, messages, unrecorded, posts, moved, crashes>>

-----------------------------------------------------------------------------
(* _attempt_delivery *)

(* The merchant's answer: 2xx, another status, or none that arrives in time; *)
(* a post without an answer may have been handled all the same.              *)
Post(d) ==
  LET e == jobs[d].event IN
  /\ jobs[d].at = "post"
  /\ posts[e] < MaxPosts
  /\ posts' = [posts EXCEPT ![e] = @ + 1]
  /\ \E answer \in {"2xx", "other", "lost"} :
       jobs' = [jobs EXCEPT ![d].at = "store", ![d].answer = answer]
  /\ UNCHANGED <<active, events, messages, unrecorded, moved, crashes>>

Success(answer) == answer = "2xx"

(* Mutant: the attempt is counted twice. *)
AttemptNumTwice(seen) == seen + 2
AttemptNum(seen) == seen + 1

(* Mutants: one attempt too few, one too many. *)
GivesUpEarly(attempts) == attempts + 1 >= MaxAttempts
GivesUpLate(attempts) == attempts > MaxAttempts
GivesUp(attempts) == attempts >= MaxAttempts

(* Mutant: a failed attempt leaves the status as it was. *)
OutcomeKeepsPending(answer, attempts) ==
  CASE Success(answer) ->
         [status |-> "delivered", attempts |-> attempts, retry |-> "null"]
    [] ~Success(answer) /\ GivesUp(attempts) ->
         [status |-> "dead_letter", attempts |-> attempts, retry |-> "null"]
    [] OTHER ->
         [status |-> "pending", attempts |-> attempts, retry |-> "later"]

Outcome(answer, attempts) ==
  CASE Success(answer) ->
         [status |-> "delivered", attempts |-> attempts, retry |-> "null"]
    [] ~Success(answer) /\ GivesUp(attempts) ->
         [status |-> "dead_letter", attempts |-> attempts, retry |-> "null"]
    [] OTHER ->
         [status |-> "failed", attempts |-> attempts, retry |-> "later"]

Store(d) ==
  LET job == jobs[d] IN
  /\ job.at = "store"
  /\ events' = [events EXCEPT ![job.event] = Outcome(job.answer, AttemptNum(job.seen))]
  /\ jobs' = [jobs EXCEPT ![d] = [IdleJob EXCEPT !.at = "work", !.endpoints = job.endpoints,
                                                 !.rows = job.rows]]
  /\ UNCHANGED <<active, messages, unrecorded, posts, moved, crashes>>

(* next_retry_at comes. *)
RetryTimeComes(e) ==
  /\ events[e].retry = "later"
  /\ events' = [events EXCEPT ![e].retry = "due"]
  /\ UNCHANGED <<active, jobs, messages, unrecorded, posts, moved, crashes>>

Crash(d) ==
  /\ jobs[d] # IdleJob
  /\ crashes < MaxCrashes
  /\ crashes' = crashes + 1
  /\ jobs' = [jobs EXCEPT ![d] = IdleJob]
  /\ UNCHANGED <<active, events, messages, unrecorded, posts, moved>>

-----------------------------------------------------------------------------
(* The administrator *)

MoveToDeadLetter(E) ==
  LET open == {e \in E : events[e].status \notin {"none", "dead_letter"}} IN
  /\ Admins # {}
  /\ open # {}
  /\ events' = [e \in EventIds |-> IF e \in open THEN [events[e] EXCEPT !.status = "dead_letter"]
                                                 ELSE events[e]]
  /\ moved' = moved \cup open
  /\ UNCHANGED <<active, jobs, messages, unrecorded, posts, crashes>>

DeactivateEndpoint(x) ==
  /\ Active(x)
  /\ active' = [active EXCEPT ![x] = "inactive"]
  /\ UNCHANGED <<events, jobs, messages, unrecorded, posts, moved, crashes>>

-----------------------------------------------------------------------------
(* The Celery task that captures, settlements and payouts send. *)

EventFields == {"id", "endpoint", "event_type", "payload", "status", "attempts", "last_attempt_at",
                "next_retry_at", "response_status", "response_body", "failure_reason", "created_at"}
TaskFields == {"webhook", "event_type", "payload", "status"}

SendDispatchTask ==
  /\ ~messages
  /\ messages' = TRUE
  /\ UNCHANGED <<active, events, jobs, unrecorded, posts, moved, crashes>>

(* The task, and not dispatch_event, takes '*' for every event. *)
TaskTargets == {x \in Subscribed \cup Wildcards : Active(x)}

(* create() takes no field the model does not have: the task raises TypeError *)
(* at the first endpoint it should notify, and ends there.                    *)
RunDispatchTask ==
  /\ messages
  /\ messages' = FALSE
  /\ unrecorded' = (unrecorded \/ (TaskTargets # {} /\ ~(TaskFields \subseteq EventFields)))
  /\ UNCHANGED <<active, events, jobs, posts, moved, crashes>>

-----------------------------------------------------------------------------
Work(d) ==
  \/ \E e \in EventIds : CreateEvent(d, e)
  \/ TakeRow(d)
  \/ SaveForced(d)
  \/ Post(d)
  \/ Store(d)
  \/ FinishJob(d)

Quiescent == (\A d \in Deliverers : jobs[d].at \in {"idle", "post"}) /\ UNCHANGED vars

Next ==
  \/ \E x \in Endpoints : RegisterEndpoint(x)
  \/ \E d \in Services : DispatchEvent(d)
  \/ \E d \in Services, x \in Endpoints : TestEndpoint(d, x)
  \/ \E d \in Retriers : LoadDueEvents(d)
  \/ \E d \in Admins, E \in SUBSET EventIds : LoadForcedRetries(d, E)
  \/ \E d \in Deliverers : Work(d) \/ Crash(d)
  \/ \E e \in EventIds : RetryTimeComes(e)
  \/ \E E \in SUBSET EventIds : MoveToDeadLetter(E)
  \/ \E x \in Endpoints : DeactivateEndpoint(x)
  \/ SendDispatchTask
  \/ RunDispatchTask
  \/ Quiescent

(* Work that has begun is carried on, and time passes.  Nothing in the       *)
(* repository calls retry_pending: Beat's schedule does not name it; and     *)
(* dispatch_webhook_event waits in a queue that no deployed worker consumes. *)
Fairness ==
  /\ \A d \in Deliverers : WF_vars(Work(d))
  /\ \A e \in EventIds : WF_vars(RetryTimeComes(e))

Spec == Init /\ [][Next]_vars /\ Fairness

-----------------------------------------------------------------------------
(* Overlapping deliveries can lose an attempt, they never invent one, and no *)
(* interleaving of them writes an outcome the row cannot have.               *)
AttemptsWerePosts == TypeOK /\ \A e \in EventIds : events[e].attempts <= posts[e]

(* retry_pending never looks at pending events, so whoever created one must  *)
(* see it through: unless a process was killed, somebody is still at it,     *)
(* whatever administrators and retry runs do meanwhile.                      *)
PendingHasOwner ==
  crashes = 0 => \A e \in EventIds : events[e].status = "pending" =>
    \E d \in Services : jobs[d].event = e /\ jobs[d].at \in {"post", "store"}

(* Nobody gives up on an event before MAX_ATTEMPTS posts, except an *)
(* administrator by hand.                                           *)
DeadLetterEarned ==
  \A e \in EventIds :
    events[e].status = "dead_letter" => e \in moved \/ posts[e] >= MaxAttempts

(* No first delivery and no retry, whatever it overlaps with, starts from an *)
(* event that has used up its attempts.                                      *)
RetriesWithinMax ==
  [][\A d \in Services \cup Retriers :
       jobs[d].at = "post" /\ jobs'[d].at = "store" => jobs[d].seen < MaxAttempts]_vars

(* test_dead_letter_after_max_attempts: an event is posted MAX_ATTEMPTS times *)
(* at most (administrators apart).                                            *)
AtMostMaxAttempts == \A e \in EventIds : posts[e] <= MaxAttempts

(* Called "by Celery Beat": a failed event that is due is tried again. *)
DueIsRetried ==
  \A e \in EventIds :
    events[e].status = "failed" /\ events[e].retry = "due" ~> events[e].retry # "due"

(* "Finds all active webhook endpoints ... creates WebhookEvent records"  *)
(* (tasks.py): no message of the payment core is handled without a trace. *)
TaskRecordsEvents == ~unrecorded

=============================================================================
