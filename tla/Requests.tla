------------------------------- MODULE Requests -------------------------------
(***************************************************************************)
(* The way of a POST /v1/orders/create/ through the middleware, in the     *)
(* order of settings.MIDDLEWARE: APIKeyRateLimitMiddleware, then           *)
(* IdempotencyMiddleware, then OrderCreateView with its own look for a     *)
(* duplicate.  An order without a body key (the serializer invents a       *)
(* uuid4) also stands for what any other POST creates.                     *)
(***************************************************************************)
EXTENDS Naturals, FiniteSets

CONSTANTS
  ApiKeys,
  Owner,     \* Owner[k]: the merchant of API key k
  Calls,     \* what clients send and send again: [api, header, body]
  RateLimit, \* RATE_LIMIT
  Handlers,  \* requests served at the same time
  OrderIds,  \* uuid4
  MaxErrors, \* bound: Redis errors and killed processes
  Null

Headers == {c.header : c \in Calls} \ {Null}
BodyKeys == {c.body : c \in Calls} \ {Null}

(* A client uses one Idempotency-Key header for one body. *)
ASSUME RequestAssumption ==
  /\ Calls \subseteq [api: ApiKeys, header: Headers \cup {Null}, body: BodyKeys \cup {Null}]
  /\ RateLimit \in Nat \ {0} /\ MaxErrors \in Nat
  /\ IsFiniteSet(Handlers) /\ IsFiniteSet(OrderIds)
  /\ Null \notin OrderIds \cup ApiKeys
  /\ \A c, d \in Calls : c.header = d.header /\ c.header # Null /\ Owner[c.api] = Owner[d.api]
                           => c.body = d.body

VARIABLES
  counter,   \* ratelimit:{key} in Redis, 0 when absent, no higher than RateLimit + 1
  expires,   \* whether that key has a TTL
  cache,     \* idempotency:{key}:{header} in Redis: the order that was answered
  orders,    \* Order rows
  requests,  \* what each request is doing
  answers,   \* history: the 2xx answers
  forgotten, \* history: a cached answer has expired
  errors

requestVars == <<counter, expires, cache, orders, requests, answers, forgotten, errors>>

-----------------------------------------------------------------------------
RequestPlaces == {"idle", "expire", "limit", "cache", "view", "insert", "store"}
NoCall == [api |-> Null, header |-> Null, body |-> Null]
IdleRequest == [at |-> "idle", call |-> NoCall, count |-> 0, order |-> Null]
NoOrder == [merchant |-> Null, key |-> Null, call |-> NoCall]

RequestTypeOK ==
  /\ counter \in [ApiKeys -> 0..RateLimit + 1]
  /\ expires \in [ApiKeys -> BOOLEAN]
  /\ cache \in [ApiKeys -> [Headers -> OrderIds \cup {Null}]]
  /\ orders \in [OrderIds ->
                   [merchant: {Owner[k] : k \in ApiKeys}, key: BodyKeys \cup {Null}, call: Calls]
                     \cup {NoOrder}]
  /\ requests \in [Handlers -> [at: RequestPlaces, call: Calls \cup {NoCall}, count: 0..RateLimit + 1,
                                order: OrderIds \cup {Null}]]
  /\ answers \subseteq [call: Calls, order: OrderIds]
  /\ forgotten \in BOOLEAN
  /\ errors \in 0..MaxErrors

RequestInit ==
  /\ counter = [k \in ApiKeys |-> 0]
  /\ expires = [k \in ApiKeys |-> FALSE]
  /\ cache = [k \in ApiKeys |-> [h \in Headers |-> Null]]
  /\ orders = [o \in OrderIds |-> NoOrder]
  /\ requests = [w \in Handlers |-> IdleRequest]
  /\ answers = {}
  /\ forgotten = FALSE
  /\ errors = 0

RequestGo(w, place) == requests' = [requests EXCEPT ![w].at = place]
RequestDone(w) == requests' = [requests EXCEPT ![w] = IdleRequest]
RequestFault == errors < MaxErrors /\ errors' = errors + 1

(* Where a request goes that the rate limiter lets through. *)
Inside(call) == IF call.header = Null THEN "view" ELSE "cache"

-----------------------------------------------------------------------------
(* APIKeyRateLimitMiddleware *)

(* Mutant: the second request of a window sets its end. *)
OpensWindowLate(count) == count = 2
OpensWindow(count) == count = 1

(* INCR *)
Arrive(w, call) ==
  LET k == call.api
      count == IF counter[k] > RateLimit THEN counter[k] ELSE counter[k] + 1 IN
  /\ requests[w] = IdleRequest
  /\ counter' = [counter EXCEPT ![k] = count]
  /\ requests' = [requests EXCEPT ![w] = [IdleRequest EXCEPT
                !.at = IF OpensWindow(count) THEN "expire" ELSE "limit",
                !.call = call, !.count = count]]
  /\ UNCHANGED <<expires, cache, orders, answers, forgotten, errors>>

(* Redis is down: "fail open (don't block payments)". *)
ArriveUncounted(w, call) ==
  /\ requests[w] = IdleRequest
  /\ RequestFault
  /\ requests' = [requests EXCEPT ![w] = [IdleRequest EXCEPT !.at = Inside(call), !.call = call]]
  /\ UNCHANGED <<counter, expires, cache, orders, answers, forgotten>>

(* EXPIRE *)
SetExpiry(w) ==
  /\ requests[w].at = "expire"
  /\ expires' = [expires EXCEPT ![requests[w].call.api] = counter[requests[w].call.api] > 0]
  /\ RequestGo(w, "limit")
  /\ UNCHANGED <<counter, cache, orders, answers, forgotten, errors>>

(* 429, or on to the next middleware. *)
ApplyLimit(w) ==
  /\ requests[w].at = "limit"
  /\ IF requests[w].count > RateLimit THEN RequestDone(w)
     ELSE RequestGo(w, Inside(requests[w].call))
  /\ UNCHANGED <<counter, expires, cache, orders, answers, forgotten, errors>>

WindowEnds(k) ==
  /\ expires[k]
  /\ counter' = [counter EXCEPT ![k] = 0]
  /\ expires' = [expires EXCEPT ![k] = FALSE]
  /\ UNCHANGED <<cache, orders, requests, answers, forgotten, errors>>

-----------------------------------------------------------------------------
(* IdempotencyMiddleware, before and after the view *)

Scope(call) == call.api

Answered(w, order) ==
  /\ answers' = answers \cup {[call |-> requests[w].call, order |-> order]}
  /\ RequestDone(w)

(* The stored response, or the view. *)
CheckCache(w) ==
  LET call == requests[w].call
      cached == cache[Scope(call)][call.header] IN
  /\ requests[w].at = "cache"
  /\ IF cached # Null THEN Answered(w, cached) ELSE RequestGo(w, "view") /\ UNCHANGED answers
  /\ UNCHANGED <<counter, expires, cache, orders, forgotten, errors>>

(* Mutant: of the 2xx answers only 200, which a duplicate gets. *)
CacheableOnly200(w) == \E a \in answers : a.order = requests[w].order
Cacheable(w) == TRUE

StoreResponse(w) ==
  LET call == requests[w].call IN
  /\ requests[w].at = "store"
  /\ cache' = IF call.header # Null /\ Cacheable(w)
              THEN [cache EXCEPT ![Scope(call)][call.header] = requests[w].order] ELSE cache
  /\ Answered(w, requests[w].order)
  /\ UNCHANGED <<counter, expires, orders, forgotten, errors>>

(* CACHE_TTL *)
CachedResponseExpires(k, h) ==
  /\ cache[k][h] # Null
  /\ cache' = [cache EXCEPT ![k][h] = Null]
  /\ forgotten' = TRUE
  /\ UNCHANGED <<counter, expires, orders, requests, answers, errors>>

-----------------------------------------------------------------------------
(* OrderCreateView *)

Duplicates(call) ==
  {o \in OrderIds :
     call.body # Null /\ orders[o].merchant = Owner[call.api] /\ orders[o].key = call.body}

LookForDuplicate(w) ==
  LET found == Duplicates(requests[w].call) IN
  /\ requests[w].at = "view"
  /\ IF found = {} THEN RequestGo(w, "insert")
     ELSE \E o \in found : requests' = [requests EXCEPT ![w].at = "store", ![w].order = o]
  /\ UNCHANGED <<counter, expires, cache, orders, answers, forgotten, errors>>

(* Mutant: idempotency_key is not unique. *)
KeyTakenNever(call) == FALSE
(* unique=True, over all merchants. *)
KeyTaken(call) == call.body # Null /\ \E o \in OrderIds : orders[o].key = call.body

InsertOrder(w) ==
  LET call == requests[w].call IN
  /\ requests[w].at = "insert"
  /\ ~KeyTaken(call)
  /\ \E o \in OrderIds :
       /\ orders[o] = NoOrder
       /\ orders' = [orders EXCEPT ![o] =
                        [merchant |-> Owner[call.api], key |-> call.body, call |-> call]]
       /\ requests' = [requests EXCEPT ![w].at = "store", ![w].order = o]
  /\ UNCHANGED <<counter, expires, cache, answers, forgotten, errors>>

(* An answer that is not 2xx and that nothing stores: the request is not valid *)
(* or not authenticated, or the insertion raises (IntegrityError among others, *)
(* and the bound on order ids).                                                *)
Refuse(w) ==
  /\ requests[w].at \in {"view", "insert"}
  /\ RequestDone(w)
  /\ UNCHANGED <<counter, expires, cache, orders, answers, forgotten, errors>>

-----------------------------------------------------------------------------
(* A Redis error: the limiter lets the request through, cache.get raises, and *)
(* the failure of cache.set is swallowed.                                     *)
RequestRedisFails(w) ==
  /\ RequestFault
  /\ \/ requests[w].at = "expire" /\ RequestGo(w, Inside(requests[w].call)) /\ UNCHANGED answers
     \/ requests[w].at = "limit" /\ requests[w].count > RateLimit
          /\ RequestGo(w, Inside(requests[w].call)) /\ UNCHANGED answers
     \/ requests[w].at = "cache" /\ RequestDone(w) /\ UNCHANGED answers
     \/ requests[w].at = "store" /\ requests[w].call.header # Null /\ Answered(w, requests[w].order)
  /\ UNCHANGED <<counter, expires, cache, orders, forgotten>>

RequestKilled(w) ==
  /\ requests[w] # IdleRequest
  /\ RequestFault
  /\ RequestDone(w)
  /\ UNCHANGED <<counter, expires, cache, orders, answers, forgotten>>

RequestNext ==
  \/ \E w \in Handlers :
       \/ \E call \in Calls : Arrive(w, call) \/ ArriveUncounted(w, call)
       \/ SetExpiry(w)
       \/ ApplyLimit(w)
       \/ CheckCache(w)
       \/ LookForDuplicate(w)
       \/ InsertOrder(w)
       \/ StoreResponse(w)
       \/ Refuse(w)
       \/ RequestRedisFails(w)
       \/ RequestKilled(w)
  \/ \E k \in ApiKeys : WindowEnds(k) \/ \E h \in Headers : CachedResponseExpires(k, h)

RequestSpec == RequestInit /\ [][RequestNext]_requestVars

-----------------------------------------------------------------------------
(* INCR and EXPIRE are two commands: a counter without a TTL, which would  *)
(* block its merchant for ever, has a request that is about to set one,    *)
(* unless Redis failed or a process was killed in between.                 *)
CounterWillExpire ==
  /\ RequestTypeOK
  /\ \A k \in ApiKeys :
       counter[k] > 0 /\ ~expires[k] =>
         errors > 0 \/ \E w \in Handlers : requests[w].at = "expire" /\ requests[w].call.api = k

(* test_idempotency_prevents_double_order, for requests that overlap, fail   *)
(* and come again: whichever layer answers, replay, duplicate or new order,  *)
(* a merchant that repeats an idempotency_key is always shown the same order. *)
SameKeySameOrder ==
  \A a, b \in answers :
    a.call.body # Null /\ a.call.body = b.call.body /\ Owner[a.call.api] = Owner[b.call.api]
      => a.order = b.order

(* "zero double processing": true of requests that follow one another; those *)
(* served at the same time are each processed, one per worker at most, as    *)
(* long as the answer is cached.                                             *)
DoubleProcessingBounded ==
  ~forgotten /\ errors = 0 =>
    \A call \in Calls : call.header # Null =>
      Cardinality({o \in OrderIds : orders[o].call = call}) <= Cardinality(Handlers)

(* "zero double processing" (middleware.py), to the letter. *)
ZeroDoubleProcessing ==
  \A o, p \in OrderIds :
    orders[o].call = orders[p].call /\ orders[o].call.header # Null => o = p

=============================================================================
