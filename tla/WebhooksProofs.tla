--------------------------- MODULE WebhooksProofs ---------------------------
(***************************************************************************)
(* Theorems about the delivery of webhooks, for any endpoints and events,  *)
(* any number of deliveries, retry runs and administrators at once, and    *)
(* any limit on attempts.                                                  *)
(***************************************************************************)
EXTENDS Webhooks, TLAPS

Row == [event: EventIds, attempts: Nat]
Event == [status: EventStatus, attempts: Nat, retry: RetryTimes]
Job == [at: {"idle", "work", "save", "post", "store"}, endpoints: SUBSET Endpoints, rows: SUBSET Row,
        event: EventIds \cup {None}, seen: Nat, answer: {"none", "2xx", "other", "lost"}]

(* Endpoints are notified by services alone, and only administrators save;  *)
(* whoever saves, posts or stores does it for an event.                     *)
JobOK(d) ==
  /\ jobs[d].endpoints # {} => d \in Services
  /\ jobs[d].at = "save" => d \in Admins
  /\ jobs[d].at \in {"save", "post", "store"} => jobs[d].event \in EventIds

(* No attempt that a delivery has read, or will store, is without a post. *)
Backed(d) ==
  /\ \A row \in jobs[d].rows : row.attempts <= posts[row.event]
  /\ jobs[d].at \in {"save", "post"} => jobs[d].seen <= posts[jobs[d].event]
  /\ jobs[d].at = "store" => jobs[d].seen + 1 <= posts[jobs[d].event]

(* What a delivery works on has attempts left, unless it is forced. *)
Within(d) ==
  d \notin Admins =>
    /\ \A row \in jobs[d].rows : row.attempts < MaxAttempts
    /\ jobs[d].at = "post" => jobs[d].seen < MaxAttempts

JobInv(d) == JobOK(d) /\ Backed(d) /\ Within(d)

(* Attempts are posts, a failed event that waits for its retry has attempts *)
(* left, a dead letter has none or was moved by hand.                       *)
EventInv(e) ==
  /\ events[e].attempts <= posts[e]
  /\ events[e].status = "failed" /\ events[e].retry # "null" => events[e].attempts < MaxAttempts
  /\ events[e].status = "dead_letter" => e \in moved \/ posts[e] >= MaxAttempts

(* What no delivery writes. *)
Others ==
  /\ active \in [Endpoints -> EndpointStatus]
  /\ messages \in BOOLEAN /\ unrecorded \in BOOLEAN
  /\ moved \subseteq EventIds
  /\ crashes \in 0..MaxCrashes

TypeInv ==
  /\ Others
  /\ events \in [EventIds -> Event]
  /\ jobs \in [Deliverers -> Job]
  /\ posts \in [EventIds -> 0..MaxPosts]

Inv ==
  /\ TypeInv
  /\ \A d \in Deliverers : JobInv(d)
  /\ \A e \in EventIds : EventInv(e)

-----------------------------------------------------------------------------
(* What a step leaves of the jobs: the others' are as they were. *)
OthersStay(d) == \A c \in Deliverers : c # d => jobs'[c] = jobs[c]

(* The types of what is looked up. *)
LEMMA Fields ==
  ASSUME TypeInv
  PROVE  /\ \A d \in Deliverers : jobs[d] \in Job
         /\ \A e \in EventIds : events[e] \in Event /\ posts[e] \in 0..MaxPosts /\ posts[e] \in Nat
BY WebhookAssumption DEF TypeInv

(* One job is written. *)
LEMMA JobWritten ==
  ASSUME TypeInv, NEW d \in Deliverers, NEW k \in Job, jobs' = [jobs EXCEPT ![d] = k]
  PROVE  jobs' \in [Deliverers -> Job] /\ jobs'[d] = k /\ OthersStay(d)
BY DEF TypeInv, OthersStay

(* One event is written. *)
LEMMA EventWritten ==
  ASSUME TypeInv, NEW e \in EventIds, NEW r \in Event, events' = [events EXCEPT ![e] = r]
  PROVE  /\ events' \in [EventIds -> Event] /\ events'[e] = r
         /\ \A f \in EventIds : f # e => events'[f] = events[f]
BY DEF TypeInv

(* The idle job, and those that go on from it. *)
LEMMA IdleIsJob ==
  IdleJob \in Job /\ IdleJob.at = "idle" /\ IdleJob.endpoints = {} /\ IdleJob.rows = {} /\ IdleJob.seen = 0
BY DEF IdleJob, Job

(* A post is never taken back: what was backed stays so. *)
LEMMA JobStays ==
  ASSUME TypeInv, NEW d \in Deliverers, JobInv(d), jobs'[d] = jobs[d],
         \A e \in EventIds : posts'[e] \in Nat /\ posts[e] <= posts'[e]
  PROVE  JobInv(d)'
<1>1. jobs[d] \in Job /\ \A row \in jobs[d].rows : row.event \in EventIds /\ row.attempts \in Nat
  BY Fields DEF Job, Row
<1>2. JobOK(d)' /\ Within(d)'
  BY DEF JobInv, JobOK, Within
<1>3. \A e \in EventIds : posts[e] \in Nat /\ posts'[e] \in Nat /\ posts[e] <= posts'[e]
  BY Fields
<1>4. \A row \in jobs[d].rows : row.attempts <= posts'[row.event]
  <2> SUFFICES ASSUME NEW row \in jobs[d].rows PROVE row.attempts <= posts'[row.event]
    OBVIOUS
  <2>1. row.attempts <= posts[row.event]
    BY DEF JobInv, Backed
  <2> QED
    BY <1>1, <1>3, <2>1
<1>5. jobs[d].at \in {"save", "post", "store"} => jobs[d].event \in EventIds
  BY DEF JobInv, JobOK
<1>6. jobs[d].seen \in Nat
  BY <1>1 DEF Job
<1>7. jobs[d].at \in {"save", "post"} => jobs[d].seen <= posts'[jobs[d].event]
  BY <1>3, <1>5, <1>6 DEF JobInv, Backed
<1>8. jobs[d].at = "store" => jobs[d].seen + 1 <= posts'[jobs[d].event]
  BY <1>3, <1>5, <1>6 DEF JobInv, Backed
<1> QED
  BY <1>2, <1>4, <1>7, <1>8 DEF JobInv, Backed

(* So is an event that is left alone. *)
LEMMA EventStays ==
  ASSUME TypeInv, NEW e \in EventIds, EventInv(e), events'[e] = events[e], moved \subseteq moved',
         posts'[e] \in Nat, posts[e] <= posts'[e]
  PROVE  EventInv(e)'
<1>1. events[e].attempts \in Nat /\ posts[e] \in Nat /\ MaxAttempts \in Nat
  BY Fields, WebhookAssumption DEF Event
<1> QED
  BY <1>1 DEF EventInv

-----------------------------------------------------------------------------
(* The steps there are *)

(* A process looks for work, or is done with it. *)
Prepares(d) ==
  /\ jobs' \in [Deliverers -> Job] /\ OthersStay(d)
  /\ jobs[d].at \notin {"post", "store"}
  /\ JobInv(d)'
  /\ UNCHANGED <<events, posts, moved>>

(* A new job of a service: endpoints to notify. *)
LEMMA NotifyPrepares ==
  ASSUME Inv, NEW d \in Services, NEW T \in SUBSET Endpoints, Notify(d, T)
  PROVE  Prepares(d)
<1>1. d \in Deliverers /\ d \notin Admins
  BY WebhookAssumption DEF Deliverers
<1> DEFINE k == [IdleJob EXCEPT !.at = "work", !.endpoints = T]
<1>2. k \in Job /\ k.at = "work" /\ k.rows = {}
  BY IdleIsJob DEF Job
<1>3. jobs' = [jobs EXCEPT ![d] = k] /\ jobs[d].at = "idle" /\ UNCHANGED <<events, posts, moved>>
  BY <1>1, IdleIsJob DEF Notify
<1> HIDE DEF k
<1>4. jobs' \in [Deliverers -> Job] /\ jobs'[d] = k /\ OthersStay(d)
  BY <1>1, <1>2, <1>3, JobWritten DEF Inv
<1>5. JobInv(d)'
  BY <1>2, <1>4 DEF JobInv, JobOK, Backed, Within
<1> QED
  BY <1>3, <1>4, <1>5 DEF Prepares

(* A query loads rows: with as many attempts as were posted, and when the *)
(* events are due, with attempts left.                                    *)
LEMMA LoadPrepares ==
  ASSUME Inv, NEW d \in Deliverers, NEW E \in SUBSET EventIds, jobs[d] = IdleJob,
         jobs' = [jobs EXCEPT ![d].at = "work", ![d].rows = Loaded(E)],
         UNCHANGED <<events, posts, moved>>,
         d \in Admins \/ \A e \in E : events[e].status = "failed" /\ events[e].retry = "due"
  PROVE  Prepares(d)
<1>1. \A row \in Loaded(E) : row \in Row /\ row.event \in E /\ row.attempts = events[row.event].attempts
  BY Fields DEF Loaded, Row, Event, Inv
<1> DEFINE k == [IdleJob EXCEPT !.at = "work", !.rows = Loaded(E)]
<1>2. k \in Job /\ k.at = "work" /\ k.rows = Loaded(E) /\ k.endpoints = {}
  BY <1>1, IdleIsJob DEF Job
<1>3. jobs' = [jobs EXCEPT ![d] = k] /\ jobs[d].at = "idle"
  BY IdleIsJob
<1> HIDE DEF k
<1>4. jobs' \in [Deliverers -> Job] /\ jobs'[d] = k /\ OthersStay(d)
  BY <1>2, <1>3, JobWritten DEF Inv
<1>5. ASSUME NEW row \in Loaded(E)
      PROVE  row.attempts <= posts[row.event] /\ (d \notin Admins => row.attempts < MaxAttempts)
  <2>1. row.event \in E /\ row.attempts = events[row.event].attempts /\ EventInv(row.event)
    BY <1>1, <1>5 DEF Inv
  <2> QED
    BY <2>1 DEF EventInv
<1>6. JobInv(d)'
  BY <1>2, <1>4, <1>5 DEF JobInv, JobOK, Backed, Within
<1> QED
  BY <1>3, <1>4, <1>6 DEF Prepares

(* The next row of a query. *)
LEMMA RowPrepares ==
  ASSUME Inv, NEW d \in Deliverers, TakeRow(d)
  PROVE  Prepares(d)
<1>1. jobs[d] \in Job /\ JobInv(d)
  BY Fields DEF Inv
<1>2. PICK row \in jobs[d].rows :
        jobs' = [jobs EXCEPT ![d].at = IF d \in Admins THEN "save" ELSE "post", ![d].rows = @ \ {row},
                             ![d].event = row.event, ![d].seen = row.attempts]
  BY DEF TakeRow
<1>3. row \in Row /\ row.event \in EventIds /\ row.attempts \in Nat
  BY <1>1, <1>2 DEF Job, Row
<1>4. PICK at \in {"save", "post"} :
        at = (IF d \in Admins THEN "save" ELSE "post") /\ (at = "save" => d \in Admins)
  OBVIOUS
<1> DEFINE k == [jobs[d] EXCEPT !.at = at, !.rows = jobs[d].rows \ {row},
                                !.event = row.event, !.seen = row.attempts]
<1>5. /\ k \in Job /\ k.at = at /\ k.rows = jobs[d].rows \ {row} /\ k.endpoints = jobs[d].endpoints
      /\ k.event = row.event /\ k.seen = row.attempts
  BY <1>1, <1>3 DEF Job
<1>6. jobs' = [jobs EXCEPT ![d] = k]
  BY <1>1, <1>2, <1>4
<1> HIDE DEF k
<1>7. jobs' \in [Deliverers -> Job] /\ jobs'[d] = k /\ OthersStay(d)
  BY <1>5, <1>6, JobWritten DEF Inv
<1>8. UNCHANGED <<events, posts, moved>> /\ jobs[d].at = "work"
  BY DEF TakeRow
<1>9. JobOK(d)' /\ Backed(d)'
  BY <1>1, <1>3, <1>4, <1>5, <1>7, <1>8 DEF JobInv, JobOK, Backed
<1>10. Within(d)'
  BY <1>1, <1>5, <1>7 DEF JobInv, Within
<1> QED
  BY <1>7, <1>8, <1>9, <1>10 DEF Prepares, JobInv

(* A process that ends, or is killed, has nothing left. *)
LEMMA EndLeaves ==
  ASSUME Inv, NEW d \in Deliverers, jobs' = [jobs EXCEPT ![d] = IdleJob], UNCHANGED posts
  PROVE  jobs' \in [Deliverers -> Job] /\ OthersStay(d) /\ JobInv(d)'
<1>1. jobs' \in [Deliverers -> Job] /\ jobs'[d] = IdleJob /\ OthersStay(d)
  BY IdleIsJob, JobWritten DEF Inv
<1> QED
  BY <1>1, IdleIsJob DEF JobInv, JobOK, Backed, Within

(* A new event is pending and its creator is about to post it. *)
LEMMA CreateEffect ==
  ASSUME Inv, NEW d \in Deliverers, NEW e \in EventIds, CreateEvent(d, e)
  PROVE  /\ d \in Services /\ jobs[d].at = "work"
         /\ jobs' \in [Deliverers -> Job] /\ OthersStay(d) /\ JobInv(d)'
         /\ jobs'[d].at = "post" /\ jobs'[d].event = e
         /\ events' \in [EventIds -> Event] /\ (\A f \in EventIds : EventInv(f)')
         /\ \A f \in EventIds : f # e => events'[f] = events[f]
<1>0. jobs[d] \in Job /\ JobInv(d) /\ MaxAttempts \in Nat /\ MaxAttempts > 0 /\ posts[e] \in Nat
  BY Fields, WebhookAssumption DEF Inv
<1>1. PICK x \in jobs[d].endpoints :
        jobs' = [jobs EXCEPT ![d].at = "post", ![d].endpoints = @ \ {x}, ![d].event = e, ![d].seen = 0]
  BY DEF CreateEvent
<1>2. d \in Services
  BY <1>0, <1>1 DEF JobInv, JobOK
<1> DEFINE k == [jobs[d] EXCEPT !.at = "post", !.endpoints = jobs[d].endpoints \ {x}, !.event = e, !.seen = 0]
           r == [status |-> "pending", attempts |-> 0, retry |-> "due"]
<1>3. k \in Job /\ k.at = "post" /\ k.rows = jobs[d].rows /\ k.event = e /\ k.seen = 0
  BY <1>0 DEF Job
<1>4. jobs' = [jobs EXCEPT ![d] = k]
  BY <1>0, <1>1
<1>5. r \in Event /\ r.status = "pending" /\ r.attempts = 0
  BY DEF Event, EventStatus, RetryTimes
<1>6. events' = [events EXCEPT ![e] = r] /\ UNCHANGED <<posts, moved>> /\ jobs[d].at = "work"
  BY DEF CreateEvent
<1> HIDE DEF k, r
<1>7. jobs' \in [Deliverers -> Job] /\ jobs'[d] = k /\ OthersStay(d)
  BY <1>3, <1>4, JobWritten DEF Inv
<1>8. /\ events' \in [EventIds -> Event] /\ events'[e] = r
      /\ \A f \in EventIds : f # e => events'[f] = events[f]
  BY <1>5, <1>6, EventWritten DEF Inv
<1>9. \A f \in EventIds : EventInv(f)'
  <2> SUFFICES ASSUME NEW f \in EventIds PROVE EventInv(f)'
    OBVIOUS
  <2>1. CASE f = e
    BY <1>0, <1>5, <1>6, <1>8, <2>1 DEF EventInv
  <2>2. CASE f # e
    BY <1>6, <1>8, <2>2, EventStays, Fields DEF Inv
  <2> QED
    BY <2>1, <2>2
<1>10. JobInv(d)'
  BY <1>0, <1>2, <1>3, <1>6, <1>7 DEF JobInv, JobOK, Backed, Within
<1> QED
  BY <1>2, <1>3, <1>6, <1>7, <1>8, <1>9, <1>10

(* A forced retry saves the event as failed, with the attempts it had. *)
LEMMA SaveEffect ==
  ASSUME Inv, NEW d \in Deliverers, SaveForced(d)
  PROVE  /\ jobs[d].event \in EventIds /\ jobs[d].at = "save"
         /\ jobs' \in [Deliverers -> Job] /\ OthersStay(d) /\ JobInv(d)'
         /\ events' \in [EventIds -> Event] /\ \A f \in EventIds : EventInv(f)'
         /\ events'[jobs[d].event].status = "failed"
         /\ \A f \in EventIds : f # jobs[d].event => events'[f] = events[f]
<1>0. jobs[d] \in Job /\ JobInv(d) /\ jobs[d].at = "save" /\ jobs[d].seen \in Nat
  BY Fields DEF Inv, SaveForced, Job
<1>1. PICK e \in EventIds : e = jobs[d].event
  BY <1>0 DEF JobInv, JobOK
<1>2. PICK seen \in Nat : seen = jobs[d].seen
  BY <1>0
<1> DEFINE k == [jobs[d] EXCEPT !.at = "post"]
           r == [status |-> "failed", attempts |-> seen, retry |-> "null"]
<1>3. /\ k \in Job /\ k.at = "post" /\ k.rows = jobs[d].rows /\ k.endpoints = jobs[d].endpoints
      /\ k.event = e /\ k.seen = seen
  BY <1>0, <1>1, <1>2 DEF Job
<1>4. jobs' = [jobs EXCEPT ![d] = k] /\ UNCHANGED <<posts, moved>>
  BY DEF SaveForced
<1>5. r \in Event /\ r.status = "failed" /\ r.attempts = seen /\ r.retry = "null"
  BY DEF Event, EventStatus, RetryTimes
<1>6. events' = [events EXCEPT ![e] = r]
  BY <1>1, <1>2 DEF SaveForced
<1> HIDE DEF k, r
<1>7. jobs' \in [Deliverers -> Job] /\ jobs'[d] = k /\ OthersStay(d)
  BY <1>3, <1>4, JobWritten DEF Inv
<1>8. /\ events' \in [EventIds -> Event] /\ events'[e] = r
      /\ \A f \in EventIds : f # e => events'[f] = events[f]
  BY <1>5, <1>6, EventWritten DEF Inv
<1>9. seen <= posts[e]
  BY <1>0, <1>1, <1>2 DEF JobInv, Backed
<1>10. \A f \in EventIds : EventInv(f)'
  <2> SUFFICES ASSUME NEW f \in EventIds PROVE EventInv(f)'
    OBVIOUS
  <2>1. CASE f = e
    BY <1>4, <1>5, <1>8, <1>9, <2>1 DEF EventInv
  <2>2. CASE f # e
    BY <1>4, <1>8, <2>2, EventStays, Fields DEF Inv
  <2> QED
    BY <2>1, <2>2
<1>11. d \in Admins
  BY <1>0 DEF JobInv, JobOK
<1>12. JobInv(d)'
  BY <1>0, <1>1, <1>3, <1>4, <1>7, <1>9, <1>11 DEF JobInv, JobOK, Backed, Within
<1> QED
  BY <1>0, <1>1, <1>5, <1>7, <1>8, <1>10, <1>12

(* A post counts, whatever its answer. *)
LEMMA PostEffect ==
  ASSUME Inv, NEW d \in Deliverers, Post(d)
  PROVE  /\ jobs[d].event \in EventIds /\ jobs[d].at = "post"
         /\ jobs' \in [Deliverers -> Job] /\ OthersStay(d) /\ JobInv(d)'
         /\ jobs'[d].at = "store" /\ jobs'[d].event = jobs[d].event
         /\ posts' \in [EventIds -> 0..MaxPosts]
         /\ \A f \in EventIds : posts'[f] \in Nat /\ posts[f] <= posts'[f]
<1>0. jobs[d] \in Job /\ JobInv(d) /\ jobs[d].at = "post" /\ jobs[d].seen \in Nat
  BY Fields DEF Inv, Post, Job
<1>1. PICK e \in EventIds : e = jobs[d].event
  BY <1>0 DEF JobInv, JobOK
<1>2. PICK answer \in {"2xx", "other", "lost"} :
        jobs' = [jobs EXCEPT ![d].at = "store", ![d].answer = answer]
  BY DEF Post
<1> DEFINE k == [jobs[d] EXCEPT !.at = "store", !.answer = answer]
<1>3. /\ k \in Job /\ k.at = "store" /\ k.rows = jobs[d].rows /\ k.endpoints = jobs[d].endpoints
      /\ k.event = e /\ k.seen = jobs[d].seen
  BY <1>0, <1>1 DEF Job
<1>4. jobs' = [jobs EXCEPT ![d] = k]
  BY <1>2
<1> HIDE DEF k
<1>5. jobs' \in [Deliverers -> Job] /\ jobs'[d] = k /\ OthersStay(d)
  BY <1>3, <1>4, JobWritten DEF Inv
<1>6. posts[e] < MaxPosts /\ posts' = [posts EXCEPT ![e] = @ + 1]
  BY <1>1 DEF Post
<1>7. posts \in [EventIds -> 0..MaxPosts] /\ MaxPosts \in Nat
  BY WebhookAssumption DEF Inv, TypeInv
<1>8. posts[e] + 1 \in 0..MaxPosts
  BY <1>6, <1>7
<1>9. posts' \in [EventIds -> 0..MaxPosts] /\ posts'[e] = posts[e] + 1
  BY <1>6, <1>7, <1>8
<1>10. \A f \in EventIds : posts'[f] \in Nat /\ posts[f] \in Nat /\ posts[f] <= posts'[f]
  BY <1>6, <1>7
<1>11. \A row \in jobs[d].rows : row.attempts <= posts'[row.event]
  <2> SUFFICES ASSUME NEW row \in jobs[d].rows PROVE row.attempts <= posts'[row.event]
    OBVIOUS
  <2>1. row.event \in EventIds /\ row.attempts \in Nat /\ row.attempts <= posts[row.event]
    BY <1>0 DEF Job, Row, JobInv, Backed
  <2> QED
    BY <1>10, <2>1
<1>12. jobs[d].seen + 1 <= posts'[e]
  <2>1. jobs[d].seen <= posts[e]
    BY <1>0, <1>1 DEF JobInv, Backed
  <2> QED
    BY <1>0, <1>9, <1>10, <2>1
<1>13. JobInv(d)'
  BY <1>0, <1>3, <1>5, <1>11, <1>12 DEF JobInv, JobOK, Backed, Within
<1> QED
  BY <1>0, <1>1, <1>3, <1>5, <1>9, <1>10, <1>13

(* An outcome is stored: delivered, failed or given up, never pending. *)
LEMMA StoreEffect ==
  ASSUME Inv, NEW d \in Deliverers, Store(d)
  PROVE  /\ jobs[d].event \in EventIds /\ jobs[d].at = "store"
         /\ jobs' \in [Deliverers -> Job] /\ OthersStay(d) /\ JobInv(d)'
         /\ events' \in [EventIds -> Event] /\ \A f \in EventIds : EventInv(f)'
         /\ events'[jobs[d].event].status # "pending"
         /\ \A f \in EventIds : f # jobs[d].event => events'[f] = events[f]
<1>0. jobs[d] \in Job /\ JobInv(d) /\ jobs[d].at = "store" /\ jobs[d].seen \in Nat
  BY Fields DEF Inv, Store, Job
<1>1. PICK e \in EventIds : e = jobs[d].event
  BY <1>0 DEF JobInv, JobOK
<1>2. PICK n \in Nat : n = jobs[d].seen + 1
  BY <1>0
<1> DEFINE k == [IdleJob EXCEPT !.at = "work", !.endpoints = jobs[d].endpoints, !.rows = jobs[d].rows]
           r == Outcome(jobs[d].answer, n)
<1>3. k \in Job /\ k.at = "work" /\ k.rows = jobs[d].rows /\ k.endpoints = jobs[d].endpoints
  BY <1>0, IdleIsJob DEF Job
<1>4. jobs' = [jobs EXCEPT ![d] = k] /\ UNCHANGED <<posts, moved>>
  BY DEF Store
<1>5. /\ r \in Event /\ r.attempts = n /\ r.status # "pending"
      /\ r.status = "failed" => ~(n >= MaxAttempts)
      /\ r.status = "dead_letter" => n >= MaxAttempts
  BY DEF Outcome, GivesUp, Success, Event, EventStatus, RetryTimes
<1>6. events' = [events EXCEPT ![e] = r]
  BY <1>1, <1>2 DEF Store, AttemptNum
<1> HIDE DEF k, r
<1>7. jobs' \in [Deliverers -> Job] /\ jobs'[d] = k /\ OthersStay(d)
  BY <1>3, <1>4, JobWritten DEF Inv
<1>8. /\ events' \in [EventIds -> Event] /\ events'[e] = r
      /\ \A f \in EventIds : f # e => events'[f] = events[f]
  BY <1>5, <1>6, EventWritten DEF Inv
<1>9. n <= posts[e] /\ posts[e] \in Nat /\ MaxAttempts \in Nat
  BY <1>0, <1>1, <1>2, Fields, WebhookAssumption DEF JobInv, Backed, Inv
<1>10. \A f \in EventIds : EventInv(f)'
  <2> SUFFICES ASSUME NEW f \in EventIds PROVE EventInv(f)'
    OBVIOUS
  <2>1. CASE f = e
    BY <1>4, <1>5, <1>8, <1>9, <2>1 DEF EventInv
  <2>2. CASE f # e
    BY <1>4, <1>8, <2>2, EventStays, Fields DEF Inv
  <2> QED
    BY <2>1, <2>2
<1>11. JobInv(d)'
  BY <1>0, <1>3, <1>4, <1>7 DEF JobInv, JobOK, Backed, Within
<1> QED
  BY <1>0, <1>1, <1>5, <1>7, <1>8, <1>10, <1>11

(* next_retry_at comes: nothing else changes of the event. *)
LEMMA TimeEffect ==
  ASSUME Inv, NEW e \in EventIds, RetryTimeComes(e)
  PROVE  /\ events' \in [EventIds -> Event]
         /\ \A f \in EventIds : EventInv(f)' /\ events'[f].status = events[f].status
<1>0. events[e] \in Event /\ events[e].retry = "later" /\ EventInv(e)
  BY Fields DEF Inv, RetryTimeComes
<1> DEFINE r == [events[e] EXCEPT !.retry = "due"]
<1>1. /\ r \in Event /\ r.status = events[e].status /\ r.attempts = events[e].attempts
      /\ events' = [events EXCEPT ![e] = r] /\ UNCHANGED <<posts, moved>>
  BY <1>0 DEF Event, RetryTimes, RetryTimeComes
<1> HIDE DEF r
<1>2. /\ events' \in [EventIds -> Event] /\ events'[e] = r
      /\ \A f \in EventIds : f # e => events'[f] = events[f]
  BY <1>1, EventWritten DEF Inv
<1>3. EventInv(e)'
  BY <1>0, <1>1, <1>2 DEF EventInv
<1>4. ASSUME NEW f \in EventIds, f # e PROVE EventInv(f)'
  BY <1>1, <1>2, <1>4, EventStays, Fields DEF Inv
<1> QED
  BY <1>1, <1>2, <1>3, <1>4

(* Events moved to dead letter are recorded as such. *)
LEMMA MoveEffect ==
  ASSUME Inv, NEW E \in SUBSET EventIds, MoveToDeadLetter(E)
  PROVE  /\ events' \in [EventIds -> Event] /\ moved' \subseteq EventIds
         /\ \A f \in EventIds : EventInv(f)' /\ (events'[f].status = "pending" => events[f].status = "pending")
<1> DEFINE open == {e \in E : events[e].status \notin {"none", "dead_letter"}}
<1>1. /\ events' = [e \in EventIds |-> IF e \in open THEN [events[e] EXCEPT !.status = "dead_letter"]
                                                     ELSE events[e]]
      /\ moved' = moved \cup open /\ UNCHANGED <<posts, jobs>> /\ open \subseteq EventIds
  BY DEF MoveToDeadLetter
<1>2. moved \subseteq EventIds /\ \A f \in EventIds : events[f] \in Event /\ posts[f] \in Nat /\ EventInv(f)
  BY Fields DEF Inv, TypeInv, Others
<1> HIDE DEF open
<1>3. ASSUME NEW f \in EventIds
      PROVE  /\ events'[f] \in Event /\ EventInv(f)'
             /\ events'[f].status = "pending" => events[f].status = "pending"
  <2>1. CASE f \in open
    <3> DEFINE r == [events[f] EXCEPT !.status = "dead_letter"]
    <3>1. r \in Event /\ r.status = "dead_letter" /\ r.attempts = events[f].attempts
      BY <1>2 DEF Event, EventStatus
    <3>2. events'[f] = r
      BY <1>1, <2>1
    <3> HIDE DEF r
    <3>3. f \in moved'
      BY <1>1, <2>1
    <3> QED
      BY <1>1, <1>2, <3>1, <3>2, <3>3 DEF EventInv
  <2>2. CASE f \notin open
    <3>1. events'[f] = events[f]
      BY <1>1, <2>2
    <3>2. EventInv(f)'
      BY <1>1, <1>2, <3>1, EventStays DEF Inv
    <3> QED
      BY <1>2, <3>1, <3>2
  <2> QED
    BY <2>1, <2>2
<1>4. events' \in [EventIds -> Event]
  BY <1>1, <1>3
<1> QED
  BY <1>1, <1>2, <1>3, <1>4

(* Every step is of one of these kinds. *)
Step ==
  \/ \E d \in Deliverers : Prepares(d)
  \/ \E d \in Deliverers, e \in EventIds : CreateEvent(d, e)
  \/ \E d \in Deliverers : SaveForced(d) \/ Post(d) \/ Store(d) \/ Crash(d)
  \/ \E e \in EventIds : RetryTimeComes(e)
  \/ \E E \in SUBSET EventIds : MoveToDeadLetter(E)
  \/ UNCHANGED <<events, jobs, posts, moved>>

(* There are no other steps. *)
LEMMA Steps == ASSUME Inv, [Next]_vars PROVE Step
<1>1. ASSUME NEW d \in Services, NEW T \in SUBSET Endpoints, Notify(d, T) PROVE Step
  BY <1>1, NotifyPrepares DEF Step, Deliverers
<1>2. ASSUME NEW d \in Services, DispatchEvent(d) PROVE Step
  <2>1. Targets \in SUBSET Endpoints
    BY WebhookAssumption DEF Targets
  <2> QED
    BY <1>1, <1>2, <2>1 DEF DispatchEvent
<1>3. ASSUME NEW d \in Services, NEW x \in Endpoints, TestEndpoint(d, x) PROVE Step
  BY <1>1, <1>3 DEF TestEndpoint
<1>4. ASSUME NEW d \in Retriers, LoadDueEvents(d) PROVE Step
  <2> DEFINE due == {e \in EventIds : events[e].status = "failed" /\ events[e].retry = "due"}
  <2>1. /\ d \in Deliverers /\ jobs[d] = IdleJob /\ UNCHANGED <<events, posts, moved>>
        /\ jobs' = [jobs EXCEPT ![d].at = "work", ![d].rows = Loaded(due)]
    BY <1>4 DEF LoadDueEvents, Deliverers
  <2>2. due \in SUBSET EventIds /\ \A e \in due : events[e].status = "failed" /\ events[e].retry = "due"
    OBVIOUS
  <2> HIDE DEF due
  <2> QED
    BY <2>1, <2>2, LoadPrepares DEF Step
<1>5. ASSUME NEW d \in Admins, NEW E \in SUBSET EventIds, LoadForcedRetries(d, E) PROVE Step
  <2> DEFINE forced == {e \in E : events[e].status \in {"failed", "dead_letter"}}
  <2>1. /\ d \in Deliverers /\ jobs[d] = IdleJob /\ UNCHANGED <<events, posts, moved>>
        /\ jobs' = [jobs EXCEPT ![d].at = "work", ![d].rows = Loaded(forced)]
    BY <1>5 DEF LoadForcedRetries, Deliverers
  <2>2. forced \in SUBSET EventIds
    OBVIOUS
  <2> HIDE DEF forced
  <2> QED
    BY <2>1, <2>2, LoadPrepares DEF Step
<1>6. ASSUME NEW d \in Deliverers, Work(d) PROVE Step
  <2>1. CASE TakeRow(d)
    BY <2>1, RowPrepares DEF Step
  <2>2. CASE FinishJob(d)
    <3>1. jobs' = [jobs EXCEPT ![d] = IdleJob] /\ jobs[d].at = "work" /\ UNCHANGED <<events, posts, moved>>
      BY <2>2 DEF FinishJob
    <3>2. Prepares(d)
      BY <3>1, EndLeaves DEF Prepares
    <3> QED
      BY <3>2 DEF Step
  <2> QED
    BY <1>6, <2>1, <2>2 DEF Work, Step
<1>7. ASSUME UNCHANGED <<events, jobs, posts, moved>> PROVE Step
  BY <1>7 DEF Step
<1>8. ASSUME NEW x \in Endpoints, RegisterEndpoint(x) \/ DeactivateEndpoint(x) PROVE Step
  BY <1>7, <1>8 DEF RegisterEndpoint, DeactivateEndpoint
<1>9. CASE SendDispatchTask \/ RunDispatchTask \/ Quiescent \/ UNCHANGED vars
  BY <1>7, <1>9 DEF SendDispatchTask, RunDispatchTask, Quiescent, vars
<1>10. ASSUME NEW d \in Deliverers, Crash(d) PROVE Step
  BY <1>10 DEF Step
<1>11. CASE (\E e \in EventIds : RetryTimeComes(e)) \/ \E E \in SUBSET EventIds : MoveToDeadLetter(E)
  BY <1>11 DEF Step
<1> QED
  BY <1>2, <1>3, <1>4, <1>5, <1>6, <1>8, <1>9, <1>10, <1>11 DEF Next

(* The rest keeps its types. *)
LEMMA OthersTyped == ASSUME Inv, [Next]_vars PROVE Others'
<1>0. Others /\ MaxCrashes \in Nat
  BY WebhookAssumption DEF Inv, TypeInv
<1>1. ASSUME UNCHANGED <<active, messages, unrecorded, moved, crashes>> PROVE Others'
  BY <1>0, <1>1 DEF Others
<1>2. ASSUME NEW d \in Services, DispatchEvent(d) \/ \E x \in Endpoints : TestEndpoint(d, x) PROVE Others'
  BY <1>1, <1>2 DEF DispatchEvent, TestEndpoint, Notify
<1>3. ASSUME NEW d \in Deliverers, LoadDueEvents(d) \/ \E E \in SUBSET EventIds : LoadForcedRetries(d, E)
      PROVE  Others'
  BY <1>1, <1>3 DEF LoadDueEvents, LoadForcedRetries
<1>4. ASSUME NEW d \in Deliverers, Work(d) PROVE Others'
  BY <1>1, <1>4 DEF Work, CreateEvent, TakeRow, SaveForced, Post, Store, FinishJob
<1>5. CASE (\E e \in EventIds : RetryTimeComes(e)) \/ Quiescent \/ UNCHANGED vars
  BY <1>1, <1>5 DEF RetryTimeComes, Quiescent, vars
<1>6. ASSUME NEW x \in Endpoints, RegisterEndpoint(x) \/ DeactivateEndpoint(x) PROVE Others'
  <2>1. \/ active' = [active EXCEPT ![x] = "active"]
        \/ active' = [active EXCEPT ![x] = "inactive"]
    BY <1>6 DEF RegisterEndpoint, DeactivateEndpoint
  <2>2. active' \in [Endpoints -> EndpointStatus]
    BY <1>0, <2>1 DEF Others, EndpointStatus
  <2>3. UNCHANGED <<messages, unrecorded, moved, crashes>>
    BY <1>6 DEF RegisterEndpoint, DeactivateEndpoint
  <2> QED
    BY <1>0, <2>2, <2>3 DEF Others
<1>7. ASSUME NEW d \in Deliverers, Crash(d) PROVE Others'
  <2>1. crashes' \in 0..MaxCrashes
    BY <1>0, <1>7 DEF Crash, Others
  <2>2. UNCHANGED <<active, messages, unrecorded, moved>>
    BY <1>7 DEF Crash
  <2> QED
    BY <1>0, <2>1, <2>2 DEF Others
<1>8. ASSUME NEW E \in SUBSET EventIds, MoveToDeadLetter(E) PROVE Others'
  <2>1. UNCHANGED <<active, messages, unrecorded, crashes>>
    BY <1>8 DEF MoveToDeadLetter
  <2> QED
    BY <1>0, <1>8, <2>1, MoveEffect DEF Others
<1>9. CASE SendDispatchTask \/ RunDispatchTask
  <2>1. messages' \in BOOLEAN
    BY <1>9 DEF SendDispatchTask, RunDispatchTask
  <2>2. unrecorded' \in BOOLEAN
    BY <1>0, <1>9, Zenon DEF SendDispatchTask, RunDispatchTask, Others
  <2>3. UNCHANGED <<active, moved, crashes>>
    BY <1>9 DEF SendDispatchTask, RunDispatchTask
  <2> QED
    BY <1>0, <2>1, <2>2, <2>3 DEF Others
<1> QED
  BY <1>2, <1>3, <1>4, <1>5, <1>6, <1>7, <1>8, <1>9 DEF Next, Deliverers

(* At first there is nothing. *)
LEMMA InvInit == Init => Inv
<1> SUFFICES ASSUME Init PROVE Inv
  OBVIOUS
<1>0. MaxPosts \in Nat /\ MaxCrashes \in Nat
  BY WebhookAssumption
<1>1. TypeInv
  <2>1. NoEvent \in Event /\ "none" \in EndpointStatus /\ 0 \in 0..MaxPosts /\ 0 \in 0..MaxCrashes
    BY <1>0 DEF NoEvent, Event, EventStatus, RetryTimes, EndpointStatus
  <2>2. Others
    BY <2>1 DEF Init, Others
  <2>3. jobs \in [Deliverers -> Job]
    BY IdleIsJob DEF Init
  <2>4. events \in [EventIds -> Event] /\ posts \in [EventIds -> 0..MaxPosts]
    BY <2>1 DEF Init
  <2> QED
    BY <2>2, <2>3, <2>4 DEF TypeInv
<1>2. \A d \in Deliverers : JobInv(d)
  BY IdleIsJob DEF Init, JobInv, JobOK, Backed, Within
<1>3. \A e \in EventIds : EventInv(e)
  BY DEF Init, NoEvent, EventInv
<1> QED
  BY <1>1, <1>2, <1>3 DEF Inv

(* Every step keeps the invariant. *)
LEMMA InvStep == ASSUME Inv, [Next]_vars PROVE Inv'
<1>0. Step /\ Others'
  BY Steps, OthersTyped
<1>1. /\ events \in [EventIds -> Event] /\ jobs \in [Deliverers -> Job] /\ posts \in [EventIds -> 0..MaxPosts]
      /\ (\A d \in Deliverers : JobInv(d)) /\ (\A e \in EventIds : EventInv(e) /\ posts[e] \in Nat)
  BY Fields DEF Inv, TypeInv
<1>2. ASSUME UNCHANGED posts, NEW d \in Deliverers, jobs'[d] = jobs[d] PROVE JobInv(d)'
  BY <1>1, <1>2, JobStays DEF Inv
<1>3. ASSUME UNCHANGED <<events, posts>>, moved \subseteq moved', NEW e \in EventIds PROVE EventInv(e)'
  BY <1>1, <1>3, EventStays DEF Inv
<1>4. ASSUME NEW d \in Deliverers, Prepares(d) PROVE Inv'
  <2>1. jobs' \in [Deliverers -> Job] /\ OthersStay(d) /\ JobInv(d)' /\ UNCHANGED <<events, posts, moved>>
    BY <1>4 DEF Prepares
  <2>2. \A c \in Deliverers : JobInv(c)'
    BY <1>2, <2>1 DEF OthersStay
  <2> QED
    BY <1>0, <1>1, <1>3, <2>1, <2>2 DEF Inv, TypeInv
<1>5. ASSUME NEW d \in Deliverers, NEW e \in EventIds, CreateEvent(d, e) PROVE Inv'
  <2>1. /\ jobs' \in [Deliverers -> Job] /\ OthersStay(d) /\ JobInv(d)'
        /\ events' \in [EventIds -> Event] /\ \A f \in EventIds : EventInv(f)'
    BY <1>5, CreateEffect
  <2>2. UNCHANGED posts
    BY <1>5 DEF CreateEvent
  <2>3. \A c \in Deliverers : JobInv(c)'
    BY <1>2, <2>1, <2>2 DEF OthersStay
  <2> QED
    BY <1>0, <1>1, <2>1, <2>2, <2>3 DEF Inv, TypeInv
<1>6. ASSUME NEW d \in Deliverers, SaveForced(d) \/ Store(d) PROVE Inv'
  <2>1. /\ jobs' \in [Deliverers -> Job] /\ OthersStay(d) /\ JobInv(d)'
        /\ events' \in [EventIds -> Event] /\ \A f \in EventIds : EventInv(f)'
    BY <1>6, SaveEffect, StoreEffect
  <2>2. UNCHANGED posts
    BY <1>6 DEF SaveForced, Store
  <2>3. \A c \in Deliverers : JobInv(c)'
    BY <1>2, <2>1, <2>2 DEF OthersStay
  <2> QED
    BY <1>0, <1>1, <2>1, <2>2, <2>3 DEF Inv, TypeInv
<1>7. ASSUME NEW d \in Deliverers, Post(d) PROVE Inv'
  <2>1. /\ jobs' \in [Deliverers -> Job] /\ OthersStay(d) /\ JobInv(d)'
        /\ posts' \in [EventIds -> 0..MaxPosts]
        /\ \A f \in EventIds : posts'[f] \in Nat /\ posts[f] <= posts'[f]
    BY <1>7, PostEffect
  <2>2. UNCHANGED <<events, moved>>
    BY <1>7 DEF Post
  <2>3. ASSUME NEW c \in Deliverers, c # d PROVE JobInv(c)'
    BY <1>1, <2>1, <2>3, JobStays DEF OthersStay, Inv
  <2>4. ASSUME NEW f \in EventIds PROVE EventInv(f)'
    BY <1>1, <2>1, <2>2, EventStays DEF Inv
  <2>5. \A c \in Deliverers : JobInv(c)'
    BY <2>1, <2>3
  <2> QED
    BY <1>0, <1>1, <2>1, <2>2, <2>4, <2>5 DEF Inv, TypeInv
<1>8. ASSUME NEW d \in Deliverers, Crash(d) PROVE Inv'
  <2>1. jobs' = [jobs EXCEPT ![d] = IdleJob] /\ UNCHANGED <<events, posts, moved>>
    BY <1>8 DEF Crash
  <2>2. jobs' \in [Deliverers -> Job] /\ OthersStay(d) /\ JobInv(d)'
    BY <2>1, EndLeaves
  <2>3. \A c \in Deliverers : JobInv(c)'
    BY <1>2, <2>1, <2>2 DEF OthersStay
  <2> QED
    BY <1>0, <1>1, <1>3, <2>1, <2>2, <2>3 DEF Inv, TypeInv
<1>9. ASSUME UNCHANGED <<jobs, posts>>, events' \in [EventIds -> Event], \A f \in EventIds : EventInv(f)'
      PROVE  Inv'
  <2>1. \A c \in Deliverers : JobInv(c)'
    BY <1>2, <1>9
  <2> QED
    BY <1>0, <1>1, <1>9, <2>1 DEF Inv, TypeInv
<1>10. ASSUME NEW e \in EventIds, RetryTimeComes(e) PROVE Inv'
  BY <1>9, <1>10, TimeEffect DEF RetryTimeComes
<1>11. ASSUME NEW E \in SUBSET EventIds, MoveToDeadLetter(E) PROVE Inv'
  BY <1>9, <1>11, MoveEffect DEF MoveToDeadLetter
<1>12. CASE UNCHANGED <<events, jobs, posts, moved>>
  BY <1>1, <1>3, <1>9, <1>12
<1> QED
  BY <1>0, <1>4, <1>5, <1>6, <1>7, <1>8, <1>10, <1>11, <1>12 DEF Step

(* What is known of deliveries and events is so in every state. *)
LEMMA Invariant == Spec => []Inv
<1>1. Inv /\ [Next]_vars => Inv'
  BY InvStep
<1> QED
  BY <1>1, InvInit, PTL DEF Spec

-----------------------------------------------------------------------------
(* The theorems *)

(* The model's type invariant says no more than this one. *)
LEMMA Typed == ASSUME TypeInv PROVE TypeOK
<1>1. ASSUME NEW d \in Deliverers
      PROVE  /\ jobs[d].at \in {"idle", "work", "save", "post", "store"}
             /\ jobs[d].endpoints \subseteq Endpoints
             /\ jobs[d].rows \subseteq [event: EventIds, attempts: Nat]
             /\ jobs[d].event \in EventIds \cup {None}
             /\ jobs[d].answer \in {"none", "2xx", "other", "lost"}
  BY Fields DEF Job, Row
<1>2. Others /\ events \in [EventIds -> [status: EventStatus, attempts: Nat, retry: RetryTimes]]
      /\ posts \in [EventIds -> 0..MaxPosts]
  BY DEF TypeInv, Event
<1> QED
  BY <1>1, <1>2 DEF TypeOK, Others

(* Overlapping deliveries, retry runs and forced retries, killed or not, can *)
(* lose an attempt and never invent one.                                     *)
THEOREM AttemptsWerePostsCorrect == Spec => []AttemptsWerePosts
<1>1. Inv => AttemptsWerePosts
  BY Typed DEF Inv, EventInv, AttemptsWerePosts
<1> QED
  BY <1>1, Invariant, PTL

(* Nobody gives up on an event before MAX_ATTEMPTS posts, whatever deliveries *)
(* overlap, unless an administrator moved it.                                 *)
THEOREM DeadLetterEarnedCorrect == Spec => []DeadLetterEarned
<1>1. Inv => DeadLetterEarned
  BY DEF Inv, EventInv, DeadLetterEarned
<1> QED
  BY <1>1, Invariant, PTL

(* No first delivery and no retry run posts an event that has used up its *)
(* attempts, however long ago it read it.                                 *)
THEOREM RetriesWithinMaxCorrect == Spec => RetriesWithinMax
<1> DEFINE Kept == \A d \in Services \cup Retriers :
                     jobs[d].at = "post" /\ jobs'[d].at = "store" => jobs[d].seen < MaxAttempts
<1>1. Inv => Kept
  <2> SUFFICES ASSUME Inv, NEW d \in Services \cup Retriers, jobs[d].at = "post"
               PROVE  jobs[d].seen < MaxAttempts
    OBVIOUS
  <2>1. d \in Deliverers /\ d \notin Admins
    BY WebhookAssumption DEF Deliverers
  <2> QED
    BY <2>1 DEF Inv, JobInv, Within
<1>2. Inv => [Kept]_vars
  BY <1>1
<1>3. []Inv => [][Kept]_vars
  BY <1>2, PTL
<1> QED
  BY <1>3, Invariant, PTL DEF RetriesWithinMax

-----------------------------------------------------------------------------
(* Whoever created a pending event is still at it *)

Owns(d, e) == jobs[d].event = e /\ jobs[d].at \in {"post", "store"}
Owned(e) == \E d \in Services : Owns(d, e)

(* A pending event stays owned while no service that is posting or storing *)
(* moves.                                                                  *)
LEMMA OwnedStays ==
  ASSUME NEW d \in Deliverers, jobs[d].at \notin {"post", "store"}, OthersStay(d), NEW e, Owned(e)
  PROVE  Owned(e)'
<1>1. PICK c \in Services : Owns(c, e)
  BY DEF Owned
<1>2. c # d /\ c \in Deliverers
  BY <1>1 DEF Owns, Deliverers
<1>3. jobs'[c] = jobs[c]
  BY <1>2 DEF OthersStay
<1> QED
  BY <1>1, <1>3 DEF Owns, Owned

(* Every step leaves a pending event with an owner: its creator posts and  *)
(* stores it, and only a killed process goes without having stored.        *)
LEMMA OwnerStep ==
  ASSUME Inv, PendingHasOwner, [Next]_vars
  PROVE  PendingHasOwner'
<1> SUFFICES ASSUME crashes' = 0, NEW e \in EventIds, events'[e].status = "pending"
             PROVE  Owned(e)'
  BY DEF PendingHasOwner, Owned, Owns
<1>0. crashes \in Nat /\ crashes = 0
  <2>1. crashes \in Nat
    BY WebhookAssumption DEF Inv, TypeInv, Others
  <2>2. crashes' = crashes \/ crashes' = crashes + 1
    BY DEF Next, vars, RegisterEndpoint, DispatchEvent, TestEndpoint, Notify, LoadDueEvents, LoadForcedRetries, Work,
           CreateEvent, TakeRow, SaveForced, Post, Store, FinishJob, Crash, RetryTimeComes, MoveToDeadLetter,
           DeactivateEndpoint, SendDispatchTask, RunDispatchTask, Quiescent
  <2> QED
    BY <2>1, <2>2
<1>1. ASSUME events[e].status = "pending" PROVE Owned(e)
  BY <1>0, <1>1 DEF PendingHasOwner, Owned, Owns
<1>2. ASSUME NEW d \in Deliverers, Prepares(d) PROVE Owned(e)'
  BY <1>1, <1>2, OwnedStays DEF Prepares
<1>3. ASSUME NEW d \in Deliverers, NEW f \in EventIds, CreateEvent(d, f) PROVE Owned(e)'
  <2>1. /\ d \in Services /\ jobs[d].at = "work" /\ OthersStay(d)
        /\ jobs'[d].at = "post" /\ jobs'[d].event = f
        /\ \A g \in EventIds : g # f => events'[g] = events[g]
    BY <1>3, CreateEffect
  <2>2. CASE e = f
    BY <2>1, <2>2 DEF Owned, Owns
  <2>3. CASE e # f
    BY <1>1, <2>1, <2>3, OwnedStays
  <2> QED
    BY <2>2, <2>3
<1>4. ASSUME NEW d \in Deliverers, SaveForced(d) PROVE Owned(e)'
  <2>1. /\ jobs[d].event \in EventIds /\ jobs[d].at = "save" /\ OthersStay(d)
        /\ events'[jobs[d].event].status = "failed"
        /\ \A f \in EventIds : f # jobs[d].event => events'[f] = events[f]
    BY <1>4, SaveEffect
  <2>2. events[e].status = "pending"
    BY <2>1
  <2> QED
    BY <1>1, <2>1, <2>2, OwnedStays
<1>5. ASSUME NEW d \in Deliverers, Post(d) PROVE Owned(e)'
  <2>1. /\ jobs[d].at = "post" /\ OthersStay(d) /\ jobs'[d].at = "store" /\ jobs'[d].event = jobs[d].event
        /\ events' = events
    BY <1>5, PostEffect DEF Post
  <2>2. PICK c \in Services : Owns(c, e)
    BY <1>1, <2>1 DEF Owned
  <2>3. CASE c = d
    BY <2>1, <2>2, <2>3 DEF Owned, Owns
  <2>4. CASE c # d
    <3>1. jobs'[c] = jobs[c]
      BY <2>1, <2>4 DEF OthersStay, Deliverers
    <3> QED
      BY <2>2, <3>1 DEF Owned, Owns
  <2> QED
    BY <2>3, <2>4
<1>6. ASSUME NEW d \in Deliverers, Store(d) PROVE Owned(e)'
  <2>1. /\ jobs[d].event \in EventIds /\ OthersStay(d) /\ events'[jobs[d].event].status # "pending"
        /\ \A f \in EventIds : f # jobs[d].event => events'[f] = events[f]
    BY <1>6, StoreEffect
  <2>2. e # jobs[d].event /\ events[e].status = "pending"
    BY <2>1
  <2>3. PICK c \in Services : Owns(c, e)
    BY <1>1, <2>2 DEF Owned
  <2>4. c # d /\ c \in Deliverers
    BY <2>2, <2>3 DEF Owns, Deliverers
  <2>5. jobs'[c] = jobs[c]
    BY <2>1, <2>4 DEF OthersStay
  <2> QED
    BY <2>3, <2>5 DEF Owned, Owns
<1>7. ASSUME NEW d \in Deliverers, Crash(d) PROVE FALSE
  BY <1>0, <1>7 DEF Crash
<1>8. ASSUME UNCHANGED jobs, events[e].status = "pending" PROVE Owned(e)'
  BY <1>1, <1>8 DEF Owned, Owns
<1>9. ASSUME NEW f \in EventIds, RetryTimeComes(f) PROVE Owned(e)'
  BY <1>8, <1>9, TimeEffect DEF RetryTimeComes
<1>10. ASSUME NEW E \in SUBSET EventIds, MoveToDeadLetter(E) PROVE Owned(e)'
  BY <1>8, <1>10, MoveEffect DEF MoveToDeadLetter
<1>11. CASE UNCHANGED <<events, jobs, posts, moved>>
  BY <1>8, <1>11
<1> QED
  BY <1>2, <1>3, <1>4, <1>5, <1>6, <1>7, <1>9, <1>10, <1>11, Steps DEF Step

(* Unless a process was killed, whoever created a pending event is about to *)
(* post it or to store the outcome: retry_pending need not look for it.     *)
THEOREM PendingHasOwnerCorrect == Spec => []PendingHasOwner
<1>1. Init => PendingHasOwner
  BY DEF Init, NoEvent, PendingHasOwner
<1>2. Inv /\ PendingHasOwner /\ [Next]_vars => PendingHasOwner'
  BY OwnerStep
<1> QED
  BY <1>1, <1>2, Invariant, PTL DEF Spec

=============================================================================
