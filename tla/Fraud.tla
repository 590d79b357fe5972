--------------------------------- MODULE Fraud ---------------------------------
(***************************************************************************)
(* FraudEngine: the velocity counters, blocks and BIN blacklist in Redis,  *)
(* the evaluation of a payment against them and the signals it leaves.     *)
(* Every Redis command is a step of its own, so evaluations and recorded   *)
(* failures interleave and keys expire between two commands.  The callers  *)
(* of the engine are external: nothing under src/ calls it but the views   *)
(* of the blacklist.                                                       *)
(***************************************************************************)
EXTENDS Naturals, FiniteSetsExt

CONSTANTS
  Bins, Ips,    \* first six digits of cards, customers' addresses
  Attempts,     \* the payment_data callers pass: [bin, ip], None when empty
  CardLimit, IpLimit,               \* CARD_VELOCITY_LIMIT, IP_VELOCITY_LIMIT
  CardWindow, IpWindow, BlockTTL,   \* CARD_VELOCITY_WINDOW, ..., in ticks
  Workers,      \* requests served at the same time
  MaxFaults,    \* bound: Redis errors and killed processes
  None

ASSUME FraudAssumption ==
  /\ Attempts \subseteq [bin: Bins \cup {None}, ip: Ips \cup {None}]
  /\ {CardLimit, IpLimit, CardWindow, IpWindow, BlockTTL} \subseteq Nat \ {0}
  /\ MaxFaults \in Nat
  /\ None \notin Bins \cup Ips

VARIABLES
  blacklist,  \* fraud:bin_blacklist
  cards,      \* fraud:card_velocity:{bin}: [n, ttl], n = 0 when absent, ttl = 0 for none
  blocked,    \* fraud:card_blocked:{bin}: the TTL left, 0 when absent
  ips,        \* fraud:ip_velocity:{ip}, like cards
  jobs,       \* what each request is doing
  faults

vars == <<blacklist, cards, blocked, ips, jobs, faults>>

-----------------------------------------------------------------------------
Rules == {"bin_blacklist", "card_velocity_blocked", "card_velocity", "ip_velocity"}
Reasons == {"blacklist", "blocked", "count"}

Places == {"idle", "blacklist", "exists", "count", "block", "ip", "judge", "signals",
           "card_incr", "card_expire", "ip_incr", "ip_expire"}

Counter(limit, window) == [n: 0..limit, ttl: 0..window]
Absent == [n |-> 0, ttl |-> 0]

(* fired: triggered_rules; signals: the FraudSignal rows the payment has so *)
(* far; why: what spoke for a block since the evaluation began and without  *)
(* a break.                                                                 *)
IdleJob == [at |-> "idle", bin |-> None, ip |-> None, fired |-> {}, signals |-> {}, why |-> {}]

TypeOK ==
  /\ blacklist \subseteq Bins
  /\ cards \in [Bins -> Counter(CardLimit, CardWindow)]
  /\ blocked \in [Bins -> 0..BlockTTL]
  /\ ips \in [Ips -> Counter(IpLimit, IpWindow)]
  /\ jobs \in [Workers -> [at: Places, bin: Bins \cup {None}, ip: Ips \cup {None},
                           fired: SUBSET Rules, signals: SUBSET Rules, why: SUBSET Reasons]]
  /\ faults \in 0..MaxFaults

Init ==
  /\ blacklist = {}
  /\ cards = [b \in Bins |-> Absent]
  /\ blocked = [b \in Bins |-> 0]
  /\ ips = [i \in Ips |-> Absent]
  /\ jobs = [w \in Workers |-> IdleJob]
  /\ faults = 0

Go(w, place) == jobs' = [jobs EXCEPT ![w].at = place]
Fire(w, rule, place) == jobs' = [jobs EXCEPT ![w].at = place, ![w].fired = @ \cup {rule}]
Done(w) == jobs' = [jobs EXCEPT ![w] = IdleJob]
Fault == faults < MaxFaults /\ faults' = faults + 1

Redis == <<blacklist, cards, blocked, ips>>

-----------------------------------------------------------------------------
(* What a triggered rule says. *)

Score(rule) == CASE rule \in {"bin_blacklist", "card_velocity_blocked"} -> 100
                 [] rule = "card_velocity" -> 90
                 [] rule = "ip_velocity"   -> 60

Action(rule) == IF rule = "ip_velocity" THEN "flag" ELSE "block"

Total(fired) == MapThenSumSet(Score, fired)

(* BLOCK_THRESHOLD, REVIEW_THRESHOLD, and only then the rules' own actions, *)
(* which with these scores never decide.                                    *)
ActionOf(fired) ==
  LET said == {Action(r) : r \in fired} IN
  CASE Total(fired) >= 80       -> "block"
    [] Total(fired) \in 50..79  -> "flag"
    [] OTHER -> IF "block" \in said THEN "block"
                ELSE IF "step_up" \in said THEN "step_up"
                ELSE IF fired # {} THEN "flag" ELSE "allow"

(* What speaks for a block of a BIN, in one state of Redis. *)
ReasonsIn(list, counters, blocks, b) ==
  IF b = None THEN {}
  ELSE {r \in Reasons : CASE r = "blacklist" -> b \in list
                          [] r = "blocked"   -> blocks[b] > 0
                          [] r = "count"     -> counters[b].n >= CardLimit}

(* Of the reasons a job began with, those the step leaves standing. *)
Recheck ==
  jobs' = [w \in Workers |->
             [jobs[w] EXCEPT !.why = @ \cap ReasonsIn(blacklist', cards', blocked', jobs[w].bin)]]

-----------------------------------------------------------------------------
(* evaluate: the three checks, in order; an empty key skips its check. *)

FirstCheck(attempt) == IF attempt.bin = None THEN "ip" ELSE "blacklist"

Evaluate(w, attempt) ==
  /\ jobs[w] = IdleJob
  /\ jobs' = [jobs EXCEPT ![w] =
       [IdleJob EXCEPT !.at = FirstCheck(attempt), !.bin = attempt.bin, !.ip = attempt.ip,
                       !.why = ReasonsIn(blacklist, cards, blocked, attempt.bin)]]
  /\ UNCHANGED <<Redis, faults>>

(* SISMEMBER *)
CheckBinBlacklist(w) ==
  /\ jobs[w].at = "blacklist"
  /\ IF jobs[w].bin \in blacklist THEN Fire(w, "bin_blacklist", "exists") ELSE Go(w, "exists")
  /\ UNCHANGED <<Redis, faults>>

(* EXISTS *)
CheckCardBlocked(w) ==
  /\ jobs[w].at = "exists"
  /\ IF blocked[jobs[w].bin] > 0 THEN Fire(w, "card_velocity_blocked", "ip") ELSE Go(w, "count")
  /\ UNCHANGED <<Redis, faults>>

(* Mutant: > for >=. *)
AtCardLimitStrict(n) == n > CardLimit
AtCardLimit(n) == n >= CardLimit

(* GET *)
CheckCardVelocity(w) ==
  /\ jobs[w].at = "count"
  /\ Go(w, IF AtCardLimit(cards[jobs[w].bin].n) THEN "block" ELSE "ip")
  /\ UNCHANGED <<Redis, faults>>

(* SETEX *)
BlockCard(w) ==
  /\ jobs[w].at = "block"
  /\ blocked' = [blocked EXCEPT ![jobs[w].bin] = BlockTTL]
  /\ Fire(w, "card_velocity", "ip")
  /\ UNCHANGED <<blacklist, cards, ips, faults>>

(* GET *)
CheckIpVelocity(w) ==
  /\ jobs[w].at = "ip"
  /\ IF jobs[w].ip # None /\ ips[jobs[w].ip].n >= IpLimit
     THEN Fire(w, "ip_velocity", "judge") ELSE Go(w, "judge")
  /\ UNCHANGED <<Redis, faults>>

(* The result goes to the caller, which may have the signals recorded. *)
Judge(w) ==
  /\ jobs[w].at = "judge"
  /\ Go(w, "signals") \/ Done(w)
  /\ UNCHANGED <<Redis, faults>>

(* Mutant: in the order of the rules' names. *)
NextSignalByName(fired) == IF "ip_velocity" \in fired THEN "ip_velocity" ELSE CHOOSE r \in fired : TRUE
(* triggered_rules is in the order of the checks. *)
NextSignal(fired) ==
  CHOOSE r \in fired : \/ r = "bin_blacklist"
                       \/ r \in {"card_velocity_blocked", "card_velocity"} /\ "bin_blacklist" \notin fired
                       \/ fired = {"ip_velocity"}

Recorded(w) == jobs[w].fired \subseteq jobs[w].signals

(* record_signals: one INSERT per triggered rule, outside any transaction. *)
RecordSignal(w) ==
  /\ jobs[w].at = "signals"
  /\ IF Recorded(w) THEN Done(w)
     ELSE jobs' = [jobs EXCEPT ![w].signals = @ \cup {NextSignal(jobs[w].fired \ @)}]
  /\ UNCHANGED <<Redis, faults>>

-----------------------------------------------------------------------------
(* record_failed_attempt: INCR and EXPIRE, for the card and for the address. *)

RecordFailedAttempt(w, attempt) ==
  /\ jobs[w] = IdleJob
  /\ attempt # [bin |-> None, ip |-> None]
  /\ jobs' = [jobs EXCEPT ![w] =
       [IdleJob EXCEPT !.at = IF attempt.bin # None THEN "card_incr" ELSE "ip_incr",
                       !.bin = attempt.bin, !.ip = attempt.ip]]
  /\ UNCHANGED <<Redis, faults>>

Incremented(c, limit) == [c EXCEPT !.n = IF c.n < limit THEN c.n + 1 ELSE limit]

(* Mutant: only the first failure of a window sets its end, unless it is there. *)
ExpiringOnce(c, window) == IF c.n = 1 THEN [c EXCEPT !.ttl = window] ELSE c
(* EXPIRE renews the TTL; on a key that has gone it does nothing. *)
Expiring(c, window) == IF c.n = 0 THEN c ELSE [c EXCEPT !.ttl = window]

IncrCard(w) ==
  /\ jobs[w].at = "card_incr"
  /\ cards' = [cards EXCEPT ![jobs[w].bin] = Incremented(@, CardLimit)]
  /\ Go(w, "card_expire")
  /\ UNCHANGED <<blacklist, blocked, ips, faults>>

ExpireCard(w) ==
  /\ jobs[w].at = "card_expire"
  /\ cards' = [cards EXCEPT ![jobs[w].bin] = Expiring(@, CardWindow)]
  /\ IF jobs[w].ip = None THEN Done(w) ELSE Go(w, "ip_incr")
  /\ UNCHANGED <<blacklist, blocked, ips, faults>>

IncrIp(w) ==
  /\ jobs[w].at = "ip_incr"
  /\ ips' = [ips EXCEPT ![jobs[w].ip] = Incremented(@, IpLimit)]
  /\ Go(w, "ip_expire")
  /\ UNCHANGED <<blacklist, cards, blocked, faults>>

ExpireIp(w) ==
  /\ jobs[w].at = "ip_expire"
  /\ ips' = [ips EXCEPT ![jobs[w].ip] = Expiring(@, IpWindow)]
  /\ Done(w)
  /\ UNCHANGED <<blacklist, cards, blocked, faults>>

-----------------------------------------------------------------------------
(* BINBlacklistView, POST and DELETE. *)
SetBlacklisted(b, listed) ==
  /\ (b \in blacklist) # listed
  /\ blacklist' = IF listed THEN blacklist \cup {b} ELSE blacklist \ {b}
  /\ UNCHANGED <<cards, blocked, ips>>
  /\ Recheck
  /\ UNCHANGED faults

(* Time passes: every key with a TTL comes one tick nearer to its end. *)
Aged(c) == CASE c.ttl = 0 -> c
             [] c.ttl = 1 -> Absent
             [] OTHER     -> [c EXCEPT !.ttl = @ - 1]

Tick ==
  /\ \/ \E b \in Bins : blocked[b] > 0 \/ cards[b].ttl > 0
     \/ \E i \in Ips : ips[i].ttl > 0
  /\ cards' = [b \in Bins |-> Aged(cards[b])]
  /\ ips' = [i \in Ips |-> Aged(ips[i])]
  /\ blocked' = [b \in Bins |-> IF blocked[b] > 0 THEN blocked[b] - 1 ELSE 0]
  /\ UNCHANGED blacklist
  /\ Recheck
  /\ UNCHANGED faults

(* A Redis error: the check it hits finds nothing ("fail open"), the failure *)
(* is not recorded any further.                                              *)
RedisFails(w) ==
  /\ Fault
  /\ \/ /\ jobs[w].at \in {"blacklist", "exists", "count", "block", "ip"}
        /\ jobs' = [jobs EXCEPT ![w].why = {},
                                ![w].at = CASE @ = "blacklist" -> "exists"
                                            [] @ = "ip"        -> "judge"
                                            [] OTHER           -> "ip"]
     \/ jobs[w].at \in {"card_incr", "card_expire", "ip_incr", "ip_expire"} /\ Done(w)
  /\ UNCHANGED Redis

Killed(w) ==
  /\ jobs[w] # IdleJob
  /\ Fault
  /\ Done(w)
  /\ UNCHANGED Redis

-----------------------------------------------------------------------------
Work(w) ==
  \/ CheckBinBlacklist(w)
  \/ CheckCardBlocked(w)
  \/ CheckCardVelocity(w)
  \/ BlockCard(w)
  \/ CheckIpVelocity(w)
  \/ Judge(w)
  \/ RecordSignal(w)
  \/ IncrCard(w)
  \/ ExpireCard(w)
  \/ IncrIp(w)
  \/ ExpireIp(w)

Next ==
  \/ \E w \in Workers :
       \/ \E attempt \in Attempts :
            \/ Evaluate(w, attempt)
            \/ RecordFailedAttempt(w, attempt)
       \/ Work(w)
       \/ RedisFails(w)
       \/ Killed(w)
  \/ \E b \in Bins, listed \in BOOLEAN : SetBlacklisted(b, listed)
  \/ Tick

(* A request that has begun is carried on, and time passes. *)
Fairness == WF_vars(Tick) /\ \A w \in Workers : WF_vars(Work(w))

Spec == Init /\ [][Next]_vars /\ Fairness

-----------------------------------------------------------------------------
(* An evaluation never misses what was there all along: if the BIN was      *)
(* blacklisted, blocked or at its limit from the evaluation's first command *)
(* to its last, and Redis answered, the verdict is to block, whatever other *)
(* evaluations, failures and expiries came between the commands.            *)
StandingReasonBlocks ==
  \A w \in Workers :
    jobs[w].at = "judge" /\ jobs[w].why # {}
      => ActionOf(jobs[w].fired) = "block"

(* INCR and EXPIRE are two commands: a counter without a TTL, which would   *)
(* be counted on for ever, has a request that is about to set one, unless   *)
(* Redis failed or a process was killed in between.                         *)
CountersWillExpire ==
  /\ TypeOK
  /\ faults = 0 =>
       /\ \A b \in Bins : cards[b].n > 0 /\ cards[b].ttl = 0 =>
            \E w \in Workers : jobs[w].at = "card_expire" /\ jobs[w].bin = b
       /\ \A i \in Ips : ips[i].n > 0 /\ ips[i].ttl = 0 =>
            \E w \in Workers : jobs[w].at = "ip_expire" /\ jobs[w].ip = i

Severity(action) == CASE action = "block" -> 3 [] action = "flag" -> 2
                      [] action = "step_up" -> 1 [] OTHER -> 0

(* As soon as one signal of a payment is recorded, the strictest of its     *)
(* signals is the verdict, also when the process is killed before the rest: *)
(* who reviews a half-recorded payment is not misled (record_signals).      *)
SignalsKeepVerdict ==
  \A w \in Workers : jobs[w].signals # {} =>
    Severity(ActionOf(jobs[w].fired)) = Max({Severity(Action(r)) : r \in jobs[w].signals})

Held(b) == blocked[b] > 0 \/ cards[b].n >= CardLimit
Failing(b) == \E w \in Workers : jobs[w].at = "card_incr" /\ jobs[w].bin = b

(* "Card temporarily blocked due to velocity": once failures of a BIN are   *)
(* recorded no more, it comes free again, however often it is evaluated     *)
(* meanwhile, unless a fault left its counter without a TTL.                *)
BlockIsTemporary ==
  \A b \in Bins : <>[]~Failing(b) => []<>(~Held(b) \/ faults > 0)

=============================================================================
