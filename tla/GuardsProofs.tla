---------------------------- MODULE GuardsProofs ----------------------------
(***************************************************************************)
(* Theorems about what every payment request passes: the fraud engine,     *)
(* and, in the second part, the rate limiter, the idempotency cache and    *)
(* the check for duplicate orders; for any numbers of requests, cards,     *)
(* addresses, keys, orders and faults.                                     *)
(***************************************************************************)
EXTENDS Fraud, Requests, FiniteSums

(* The rules whose action is to block. *)
Blocking == {"bin_blacklist", "card_velocity_blocked", "card_velocity"}

CardPlaces == {"blacklist", "exists", "count", "block", "card_incr", "card_expire"}
Job == [at: Places, bin: Bins \cup {None}, ip: Ips \cup {None},
        fired: SUBSET Rules, signals: SUBSET Rules, why: SUBSET Reasons]

(* A command on a key is sent by a request that has the key. *)
Keyed(w) ==
  /\ jobs[w].at \in CardPlaces => jobs[w].bin \in Bins
  /\ jobs[w].at \in {"ip_incr", "ip_expire"} => jobs[w].ip \in Ips

(* What still speaks for a block does so in Redis. *)
Standing(w) == jobs[w].why \subseteq ReasonsIn(blacklist, cards, blocked, jobs[w].bin)

(* A check that is past has caught what spoke for a block all along. *)
Caught(w) ==
  /\ jobs[w].at \in {"exists", "count", "block"} /\ "blacklist" \in jobs[w].why
       => "bin_blacklist" \in jobs[w].fired
  /\ jobs[w].at \in {"count", "block"} => "blocked" \notin jobs[w].why
  /\ jobs[w].at \in {"ip", "judge"} /\ jobs[w].why # {} => jobs[w].fired \cap Blocking # {}

(* The first signal recorded is one of the strictest. *)
StrictestFirst(w) ==
  /\ jobs[w].signals \subseteq jobs[w].fired
  /\ jobs[w].signals # {} =>
       /\ jobs[w].at = "signals"
       /\ jobs[w].signals \cap Blocking # {} \/ jobs[w].fired = {"ip_velocity"}

Right(w) == Keyed(w) /\ Standing(w) /\ Caught(w) /\ StrictestFirst(w)

IInv == CountersWillExpire /\ \A w \in Workers : Right(w)

-----------------------------------------------------------------------------
(* What the operators of the model compute. *)

(* The settings of the engine are positive, and None is no key. *)
LEMMA Limits ==
  /\ CardLimit \in Nat \ {0} /\ IpLimit \in Nat \ {0}
  /\ CardWindow \in Nat \ {0} /\ IpWindow \in Nat \ {0} /\ BlockTTL \in Nat \ {0}
  /\ MaxFaults \in Nat /\ None \notin Bins /\ None \notin Ips
BY FraudAssumption

(* What speaks for a block of a BIN, reason by reason. *)
LEMMA ReasonsAre ==
  ASSUME NEW list, NEW counters, NEW blocks, NEW b
  PROVE  LET found == ReasonsIn(list, counters, blocks, b) IN
         /\ found \subseteq Reasons
         /\ b = None => found = {}
         /\ b # None => /\ "blacklist" \in found <=> b \in list
                        /\ "blocked" \in found <=> blocks[b] > 0
                        /\ "count" \in found <=> counters[b].n >= CardLimit
BY DEF ReasonsIn, Reasons

(* Counting, expiring and ageing keep a counter one; only counting can make *)
(* one that has no TTL.                                                     *)
LEMMA CounterSteps ==
  ASSUME NEW limit \in Nat \ {0}, NEW window \in Nat \ {0}, NEW c \in Counter(limit, window)
  PROVE  /\ Incremented(c, limit) \in Counter(limit, window)
         /\ Incremented(c, limit).n >= c.n /\ Incremented(c, limit).ttl = c.ttl
         /\ Expiring(c, window) \in Counter(limit, window)
         /\ Expiring(c, window).n = c.n
         /\ Expiring(c, window).n > 0 => Expiring(c, window).ttl > 0
         /\ Aged(c) \in Counter(limit, window)
         /\ Aged(c).n > 0 /\ Aged(c).ttl = 0 => c.n > 0 /\ c.ttl = 0
<1>1. /\ Incremented(c, limit) \in Counter(limit, window)
      /\ Incremented(c, limit).n >= c.n /\ Incremented(c, limit).ttl = c.ttl
  BY DEF Incremented, Counter
<1>2. /\ Expiring(c, window) \in Counter(limit, window)
      /\ Expiring(c, window).n = c.n
      /\ Expiring(c, window).n > 0 => Expiring(c, window).ttl > 0
  BY DEF Expiring, Counter
<1>3. CASE c.ttl = 0
  <2>1. Aged(c) = c
    BY <1>3 DEF Aged
  <2> QED
    BY <1>1, <1>2, <1>3, <2>1
<1>4. CASE c.ttl = 1
  <2>1. Aged(c) = Absent
    BY <1>4 DEF Aged
  <2> QED
    BY <1>1, <1>2, <2>1 DEF Absent, Counter
<1>5. CASE c.ttl # 0 /\ c.ttl # 1
  <2>1. Aged(c) = [c EXCEPT !.ttl = @ - 1]
    BY <1>5 DEF Aged
  <2> QED
    BY <1>1, <1>2, <1>5, <2>1 DEF Counter
<1> QED
  BY <1>3, <1>4, <1>5

Scores == [r \in Rules |-> Score(r)]

(* A blocking rule alone reaches the threshold for a block. *)
LEMMA ScoreValues ==
  /\ \A r \in Rules : Scores[r] \in Nat
  /\ \A r \in Blocking : r \in Rules /\ Scores[r] >= 80
  /\ Scores["ip_velocity"] = 60
BY DEF Scores, Score, Rules, Blocking

(* The rules are four. *)
LEMMA RulesFinite == IsFiniteSet(Rules)
<1>1. /\ IsFiniteSet({}) /\ IsFiniteSet({} \cup {"bin_blacklist"})
      /\ IsFiniteSet(({} \cup {"bin_blacklist"}) \cup {"card_velocity_blocked"})
      /\ IsFiniteSet((({} \cup {"bin_blacklist"}) \cup {"card_velocity_blocked"})
                     \cup {"card_velocity"})
      /\ IsFiniteSet(((({} \cup {"bin_blacklist"}) \cup {"card_velocity_blocked"})
                      \cup {"card_velocity"})
                       \cup {"ip_velocity"})
  BY FS_EmptySet, FS_AddElement
<1>2. Rules = ((({} \cup {"bin_blacklist"}) \cup {"card_velocity_blocked"}) \cup {"card_velocity"})
                \cup {"ip_velocity"}
  BY DEF Rules
<1> QED
  BY <1>1, <1>2

(* The total is the sum of the scores of the rules that fired. *)
LEMMA TotalIsSum ==
  ASSUME NEW fired \in SUBSET Rules
  PROVE  Total(fired) = SumOver(Scores, fired)
<1> DEFINE Sums(g) == g = [s \in SUBSET fired |-> IF s = {} THEN 0
                                                  ELSE Score(Pick(s)) + g[s \ {Pick(s)}]]
           g == CHOOSE g : Sums(g)
<1>1. Total(fired) = g[fired]
  BY DEF Total, MapThenSumSet, MapThenFoldSet, Pick
<1>2. IsFiniteSet(fired)
  BY RulesFinite, FS_Subset
<1>3. PICK h : IsSum(h, Scores, fired)
  BY <1>2, SumExists
<1>4. \A s \in SUBSET fired : s # {} => Scores[Pick(s)] = Score(Pick(s))
  BY PickIn DEF Scores
<1>5. \A k : IsSum(k, Scores, fired) <=> Sums(k)
  BY <1>4 DEF IsSum
<1>6. Sums(g)
  BY <1>3, <1>5
<1>7. IsSum(g, Scores, fired)
  BY <1>5, <1>6
<1> QED
  BY <1>1, <1>2, <1>7, SumIs

(* One blocking rule is enough for the verdict, whatever else fired. *)
LEMMA BlockingBlocks ==
  ASSUME NEW fired \in SUBSET Rules, fired \cap Blocking # {}
  PROVE  ActionOf(fired) = "block"
<1>1. PICK r \in fired : r \in Blocking
  OBVIOUS
<1>2. IsFiniteSet(fired) /\ IsFiniteSet(fired \ {r})
  BY RulesFinite, FS_Subset
<1>3. (\A x \in fired : Scores[x] \in Nat) /\ Scores[r] >= 80
  BY <1>1, ScoreValues
<1>4. SumOver(Scores, fired) = Scores[r] + SumOver(Scores, fired \ {r})
  BY <1>2, <1>3, SumSplits
<1>5. SumOver(Scores, fired \ {r}) \in Nat
  BY <1>2, <1>3, SumIsNatural
<1>6. Total(fired) >= 80 /\ Total(fired) \notin 50..79
  BY <1>1, <1>3, <1>4, <1>5, TotalIsSum
<1> QED
  BY <1>6 DEF ActionOf

(* The address alone is flagged. *)
LEMMA AddressFlags == ActionOf({"ip_velocity"}) = "flag"
<1> DEFINE fired == {"ip_velocity"}
<1>1. fired \in SUBSET Rules /\ fired \ {"ip_velocity"} = {}
  BY DEF Rules
<1>2. IsFiniteSet(fired)
  BY FS_Singleton
<1>3. \A x \in fired : Scores[x] \in Nat
  BY <1>1, ScoreValues
<1>4. SumOver(Scores, fired) = Scores["ip_velocity"] + SumOver(Scores, fired \ {"ip_velocity"})
  BY <1>2, <1>3, SumSplits
<1>5. SumOver(Scores, fired) = 60
  BY <1>1, <1>4, SumOfNothing, ScoreValues
<1>6. Total(fired) \in 50..79 /\ ~(Total(fired) >= 80)
  BY <1>1, <1>5, TotalIsSum
<1> QED
  BY <1>6 DEF ActionOf

(* The strictest signals go first. *)
LEMMA NextSignalIs ==
  ASSUME NEW left \in SUBSET Rules, left # {}
  PROVE  /\ NextSignal(left) \in left
         /\ NextSignal(left) \in Blocking \/ left = {"ip_velocity"}
<1> DEFINE Next1(r) == \/ r = "bin_blacklist"
                       \/ r \in {"card_velocity_blocked", "card_velocity"}
                           /\ "bin_blacklist" \notin left
                       \/ left = {"ip_velocity"}
<1>1. \E r \in left : Next1(r)
  BY DEF Rules
<1>2. NextSignal(left) \in left /\ Next1(NextSignal(left))
  BY <1>1 DEF NextSignal
<1> QED
  BY <1>2 DEF Blocking

(* The strictest of some signals: a blocking rule, else the address. *)
LEMMA Severities ==
  ASSUME NEW signals \in SUBSET Rules, signals # {}
  PROVE  LET said == {Severity(Action(r)) : r \in signals} IN
         /\ signals \cap Blocking # {} => Max(said) = 3
         /\ signals = {"ip_velocity"} => Max(said) = 2
<1> DEFINE said == {Severity(Action(r)) : r \in signals}
<1>1. \A r \in Rules : Severity(Action(r)) = IF r = "ip_velocity" THEN 2 ELSE 3
  BY DEF Severity, Action
<1>2. ASSUME NEW r \in signals \cap Blocking PROVE Max(said) = 3
  <2>1. 3 \in said /\ \A x \in said : x \in {2, 3}
    <3>1. r \in Rules /\ r # "ip_velocity"
      BY <1>2 DEF Blocking
    <3>2. Severity(Action(r)) = 3
      BY <1>1, <3>1
    <3>3. \A q \in signals : Severity(Action(q)) \in {2, 3}
      BY <1>1
    <3> QED
      BY <1>2, <3>2, <3>3
  <2>2. \E x \in said : \A y \in said : x >= y
    BY <2>1
  <2>3. Max(said) \in said /\ \A y \in said : Max(said) >= y
    BY <2>2 DEF Max
  <2>4. Max(said) \in {2, 3} /\ Max(said) >= 3
    BY <2>1, <2>3
  <2> QED
    BY <2>4
<1>3. CASE signals = {"ip_velocity"}
  <2>1. said = {2}
    <3>1. Severity(Action("ip_velocity")) = 2
      BY <1>1 DEF Rules
    <3> QED
      BY <1>3, <3>1
  <2>2. \E x \in said : \A y \in said : x >= y
    BY <2>1
  <2>3. Max(said) \in said
    BY <2>2 DEF Max
  <2>4. Max(said) = 2
    BY <2>1, <2>3
  <2>5. signals \cap Blocking = {}
    BY <1>3 DEF Blocking
  <2> QED
    BY <2>4, <2>5
<1> QED
  BY <1>2, <1>3

-----------------------------------------------------------------------------
(* How a request's own record changes. *)

JobsTyped == jobs \in [Workers -> Job]

(* A request that does nothing has no reasons and no signals. *)
LEMMA IdleIsJob ==
  IdleJob \in Job /\ IdleJob.at = "idle" /\ IdleJob.signals = {} /\ IdleJob.why = {}
BY DEF IdleJob, Job, Places

(* A request that moves on keeps what it knows. *)
LEMMA Goes ==
  ASSUME JobsTyped, NEW v \in Workers, NEW place \in Places, Go(v, place)
  PROVE  /\ JobsTyped' /\ jobs'[v].at = place
         /\ jobs'[v].bin = jobs[v].bin /\ jobs'[v].ip = jobs[v].ip /\ jobs'[v].fired = jobs[v].fired
         /\ jobs'[v].signals = jobs[v].signals /\ jobs'[v].why = jobs[v].why
         /\ \A u \in Workers : u # v => jobs'[u] = jobs[u]
BY DEF JobsTyped, Go, Job

(* A rule that triggers is added to those that did before. *)
LEMMA Fires ==
  ASSUME JobsTyped, NEW v \in Workers, NEW rule \in Rules, NEW place \in Places,
      Fire(v, rule, place)
  PROVE  /\ JobsTyped' /\ jobs'[v].at = place
         /\ jobs'[v].bin = jobs[v].bin /\ jobs'[v].ip = jobs[v].ip
         /\ jobs'[v].fired = jobs[v].fired \cup {rule}
         /\ jobs'[v].signals = jobs[v].signals /\ jobs'[v].why = jobs[v].why
         /\ \A u \in Workers : u # v => jobs'[u] = jobs[u]
<1> DEFINE job == [jobs[v] EXCEPT !.at = place, !.fired = @ \cup {rule}]
<1>1. jobs[v] \in Job /\ jobs' = [jobs EXCEPT ![v] = job]
  BY DEF JobsTyped, Fire
<1>2. /\ job \in Job /\ job.at = place /\ job.fired = jobs[v].fired \cup {rule}
      /\ job.bin = jobs[v].bin /\ job.ip = jobs[v].ip
      /\ job.signals = jobs[v].signals /\ job.why = jobs[v].why
  BY <1>1 DEF Job
<1> QED
  BY <1>1, <1>2 DEF JobsTyped

(* A request that ends leaves the others where they are. *)
LEMMA Ends ==
  ASSUME JobsTyped, NEW v \in Workers, Done(v)
  PROVE  /\ JobsTyped' /\ jobs'[v] = IdleJob
         /\ \A u \in Workers : u # v => jobs'[u] = jobs[u]
BY IdleIsJob DEF JobsTyped, Done

(* The administrator or time changes Redis: the requests keep all but some *)
(* of their reasons.                                                       *)
LEMMA Rechecked ==
  ASSUME JobsTyped, Recheck
  PROVE  /\ JobsTyped'
         /\ \A w \in Workers :
              /\ jobs'[w].at = jobs[w].at /\ jobs'[w].bin = jobs[w].bin /\ jobs'[w].ip = jobs[w].ip
              /\ jobs'[w].fired = jobs[w].fired /\ jobs'[w].signals = jobs[w].signals
              /\ jobs'[w].why =
                   jobs[w].why \cap ReasonsIn(blacklist', cards', blocked', jobs[w].bin)
BY DEF JobsTyped, Recheck, Job

(* A fault is within the bound and leaves its mark. *)
LEMMA Faults ==
  ASSUME TypeOK, Fault
  PROVE  faults' \in 0..MaxFaults /\ faults' > 0
BY Limits DEF TypeOK, Fault

(* A step counts one fault, or none. *)
LEMMA FaultOrNot == [Next]_vars => faults' = faults \/ Fault
BY DEF Next, Work, vars, Evaluate, RecordFailedAttempt, CheckBinBlacklist, CheckCardBlocked,
       CheckCardVelocity, BlockCard, CheckIpVelocity, Judge, RecordSignal, IncrCard, ExpireCard,
       IncrIp, ExpireIp, RedisFails, Killed, SetBlacklisted, Tick

(* What a step does to the counters and blocks, and to the reasons a request *)
(* may still have.                                                           *)
CardGrows(b) == /\ cards[b].n >= CardLimit => cards'[b].n >= CardLimit
                /\ blocked[b] > 0 => blocked'[b] > 0

(* Who does not move stays right while no reason goes away. *)
LEMMA OthersRight ==
  ASSUME JobsTyped, \A w \in Workers : Right(w), NEW v \in Workers, blacklist' = blacklist,
         \A b \in Bins : CardGrows(b), \A u \in Workers : u # v => jobs'[u] = jobs[u], Right(v)'
  PROVE  \A w \in Workers : Right(w)'
<1> SUFFICES ASSUME NEW u \in Workers, u # v PROVE Right(u)'
  OBVIOUS
<1>1. jobs'[u] = jobs[u] /\ Right(u)
  OBVIOUS
<1>2. ReasonsIn(blacklist, cards, blocked, jobs[u].bin)
      \subseteq ReasonsIn(blacklist', cards', blocked', jobs[u].bin)
  <2>1. jobs[u].bin \in Bins \cup {None}
    BY DEF JobsTyped, Job
  <2>2. CASE jobs[u].bin = None
    BY <2>2, ReasonsAre
  <2>3. CASE jobs[u].bin # None
    <3>1. CardGrows(jobs[u].bin)
      BY <2>1, <2>3
    <3> QED
      BY <2>3, <3>1, ReasonsAre DEF CardGrows, Reasons
  <2> QED
    BY <2>2, <2>3
<1>3. Standing(u)'
  BY <1>1, <1>2 DEF Right, Standing
<1> QED
  BY <1>1, <1>3 DEF Right, Keyed, Caught, StrictestFirst

-----------------------------------------------------------------------------
(* What one request's command does, its own part first. *)

Moved(v) == /\ TypeOK' /\ Right(v)' /\ blacklist' = blacklist
            /\ \A b \in Bins : CardGrows(b)
            /\ \A u \in Workers : u # v => jobs'[u] = jobs[u]

(* The type invariant types the requests. *)
LEMMA JobsOfType == TypeOK => JobsTyped
BY DEF TypeOK, JobsTyped, Job

(* A command that only reads keeps the counters and blocks. *)
LEMMA RedisStays ==
  ASSUME TypeOK, JobsTyped', UNCHANGED Redis, faults' \in 0..MaxFaults
  PROVE  TypeOK' /\ blacklist' = blacklist /\ \A b \in Bins : CardGrows(b)
BY DEF TypeOK, JobsTyped, Job, Redis, CardGrows

(* The place a request is at is one of a command of its own. *)
LEMMA PlacesAre ==
  \A p \in {"idle", "blacklist", "exists", "count", "block", "ip", "judge", "signals",
            "card_incr", "card_expire", "ip_incr", "ip_expire"} : p \in Places
BY DEF Places

(* An idle request is right whatever Redis holds. *)
LEMMA IdleIsRight ==
  ASSUME NEW v \in Workers, jobs'[v] = IdleJob
  PROVE  Right(v)'
BY IdleIsJob DEF Right, Keyed, Standing, Caught, StrictestFirst, CardPlaces

(* evaluate begins with the reasons there are. *)
LEMMA EvaluateMoves ==
  ASSUME IInv, NEW v \in Workers, NEW attempt \in Attempts, Evaluate(v, attempt)
  PROVE  Moved(v)
<1> DEFINE why == ReasonsIn(blacklist, cards, blocked, attempt.bin)
           place == FirstCheck(attempt)
<1>0. TypeOK /\ JobsTyped /\ UNCHANGED Redis /\ faults' = faults
  BY JobsOfType DEF IInv, CountersWillExpire, Evaluate
<1>1. place \in Places /\ place \in {"ip", "blacklist"}
      /\ (place = "blacklist" => attempt.bin # None)
        /\ (place = "ip" => attempt.bin = None)
  BY DEF FirstCheck, Places
<1>2. why \in SUBSET Reasons /\ (attempt.bin = None => why = {})
  BY ReasonsAre
<1>3. /\ JobsTyped' /\ jobs'[v].at = place /\ jobs'[v].bin = attempt.bin
      /\ jobs'[v].signals = {} /\ jobs'[v].why = why
      /\ attempt.bin \in Bins \cup {None}
      /\ \A u \in Workers : u # v => jobs'[u] = jobs[u]
  <2> HIDE DEF why, place
  <2>1. attempt \in [bin: Bins \cup {None}, ip: Ips \cup {None}]
    BY FraudAssumption
  <2>2. jobs' = [jobs EXCEPT ![v] = [IdleJob EXCEPT !.at = place, !.bin = attempt.bin,
                                     !.ip = attempt.ip,
                                                     !.why = why]]
    BY DEF Evaluate, why, place
  <2> QED
    BY <1>0, <1>1, <1>2, <2>1, <2>2 DEF JobsTyped, Job, IdleJob
<1>4. TypeOK' /\ blacklist' = blacklist /\ \A b \in Bins : CardGrows(b)
  <2>1. faults' \in 0..MaxFaults
    BY <1>0 DEF TypeOK
  <2> QED
    BY <1>0, <1>3, <2>1, RedisStays
<1>5. Standing(v)'
  BY <1>0, <1>3 DEF Standing, Redis
<1>6. Keyed(v)' /\ Caught(v)' /\ StrictestFirst(v)'
  BY <1>1, <1>2, <1>3 DEF Keyed, Caught, StrictestFirst, CardPlaces
<1> QED
  BY <1>3, <1>4, <1>5, <1>6 DEF Moved, Right

(* record_failed_attempt begins at a key it was given. *)
LEMMA RecordFailedAttemptMoves ==
  ASSUME IInv, NEW v \in Workers, NEW attempt \in Attempts, RecordFailedAttempt(v, attempt)
  PROVE  Moved(v)
<1> DEFINE place == IF attempt.bin # None THEN "card_incr" ELSE "ip_incr"
<1>0. TypeOK /\ JobsTyped /\ UNCHANGED Redis /\ faults' = faults
  BY JobsOfType DEF IInv, CountersWillExpire, RecordFailedAttempt
<1>1. place \in Places /\ place \in {"card_incr", "ip_incr"}
      /\ (place = "card_incr" <=> attempt.bin # None)
  BY DEF Places
<1>2. /\ JobsTyped' /\ jobs'[v].at = place /\ jobs'[v].bin = attempt.bin /\ jobs'[v].ip = attempt.ip
      /\ jobs'[v].signals = {} /\ jobs'[v].why = {}
      /\ attempt.bin \in Bins \cup {None} /\ attempt.ip \in Ips \cup {None}
      /\ \A u \in Workers : u # v => jobs'[u] = jobs[u]
  <2> HIDE DEF place
  <2>1. attempt \in [bin: Bins \cup {None}, ip: Ips \cup {None}]
    BY FraudAssumption
  <2>2. jobs' = [jobs EXCEPT ![v] = [IdleJob EXCEPT !.at = place, !.bin = attempt.bin,
                                     !.ip = attempt.ip]]
    BY DEF RecordFailedAttempt, place
  <2> QED
    BY <1>0, <1>1, <2>1, <2>2 DEF JobsTyped, Job, IdleJob
<1>3. TypeOK' /\ blacklist' = blacklist /\ \A b \in Bins : CardGrows(b)
  <2>1. faults' \in 0..MaxFaults
    BY <1>0 DEF TypeOK
  <2> QED
    BY <1>0, <1>2, <2>1, RedisStays
<1>4. place = "ip_incr" => attempt.ip \in Ips
  <2>1. attempt \in [bin: Bins \cup {None}, ip: Ips \cup {None}]
    BY FraudAssumption
  <2>2. attempt # [bin |-> None, ip |-> None]
    BY DEF RecordFailedAttempt
  <2> QED
    BY <1>1, <2>1, <2>2
<1>5. Keyed(v)'
  <2> HIDE DEF place
  <2> QED
    BY <1>1, <1>2, <1>4 DEF Keyed, CardPlaces
<1>6. Standing(v)' /\ Caught(v)' /\ StrictestFirst(v)'
  <2> HIDE DEF place
  <2> QED
    BY <1>1, <1>2 DEF Standing, Caught, StrictestFirst
<1> QED
  BY <1>2, <1>3, <1>5, <1>6 DEF Moved, Right

(* A check that only reads Redis: what spoke for a block still does. *)
LEMMA Reads ==
  ASSUME IInv, NEW v \in Workers, UNCHANGED Redis, faults' = faults, JobsTyped',
         jobs'[v].bin = jobs[v].bin, jobs'[v].why = jobs[v].why
  PROVE  TypeOK' /\ Standing(v)' /\ blacklist' = blacklist /\ \A b \in Bins : CardGrows(b)
<1>1. TypeOK /\ faults' \in 0..MaxFaults /\ Standing(v)
  BY DEF IInv, CountersWillExpire, TypeOK, Right
<1>2. Standing(v)'
  BY <1>1 DEF Standing, Redis
<1> QED
  BY <1>1, <1>2, RedisStays

(* SISMEMBER catches a BIN that was listed all along. *)
LEMMA CheckBinBlacklistMoves ==
  ASSUME IInv, NEW v \in Workers, CheckBinBlacklist(v)
  PROVE  Moved(v)
<1>1. TypeOK /\ JobsTyped /\ Right(v) /\ UNCHANGED Redis /\ faults' = faults
      /\ jobs[v].at = "blacklist"
  BY JobsOfType DEF IInv, CountersWillExpire, CheckBinBlacklist
<1>2. /\ JobsTyped' /\ jobs'[v].at = "exists" /\ jobs'[v].bin = jobs[v].bin
      /\ jobs'[v].signals = jobs[v].signals /\ jobs'[v].why = jobs[v].why
      /\ jobs[v].bin \in blacklist => "bin_blacklist" \in jobs'[v].fired
      /\ \A u \in Workers : u # v => jobs'[u] = jobs[u]
  <2>1. CASE jobs[v].bin \in blacklist
    <3>1. Fire(v, "bin_blacklist", "exists") /\ "bin_blacklist" \in Rules
      BY <2>1 DEF CheckBinBlacklist, Rules
    <3> QED
      BY <1>1, <3>1, Fires, PlacesAre
  <2>2. CASE jobs[v].bin \notin blacklist
    <3>1. Go(v, "exists")
      BY <2>2 DEF CheckBinBlacklist
    <3> QED
      BY <1>1, <2>2, <3>1, Goes, PlacesAre
  <2> QED
    BY <2>1, <2>2
<1>3. TypeOK' /\ Standing(v)' /\ blacklist' = blacklist /\ \A b \in Bins : CardGrows(b)
  BY <1>1, <1>2, Reads
<1>4. "blacklist" \in jobs[v].why => jobs[v].bin \in blacklist
  BY <1>1, ReasonsAre DEF Right, Standing
<1>5. Keyed(v)' /\ StrictestFirst(v)'
  BY <1>1, <1>2 DEF Right, Keyed, StrictestFirst, CardPlaces
<1>6. Caught(v)'
  BY <1>2, <1>4 DEF Caught
<1> QED
  BY <1>2, <1>3, <1>5, <1>6 DEF Moved, Right

(* EXISTS catches a block that stood all along, and else goes on to count. *)
LEMMA CheckCardBlockedMoves ==
  ASSUME IInv, NEW v \in Workers, CheckCardBlocked(v)
  PROVE  Moved(v)
<1>1. TypeOK /\ JobsTyped /\ Right(v) /\ UNCHANGED Redis /\ faults' = faults
      /\ jobs[v].at = "exists"
  BY JobsOfType DEF IInv, CountersWillExpire, CheckCardBlocked
<1>2. "blocked" \in jobs[v].why => blocked[jobs[v].bin] > 0
  BY <1>1, ReasonsAre DEF Right, Standing
<1>3. CASE blocked[jobs[v].bin] > 0
  <2>1. Fire(v, "card_velocity_blocked", "ip") /\ "card_velocity_blocked" \in Rules \cap Blocking
    BY <1>3 DEF CheckCardBlocked, Rules, Blocking
  <2>2. /\ JobsTyped' /\ jobs'[v].at = "ip" /\ jobs'[v].bin = jobs[v].bin
        /\ jobs'[v].signals = jobs[v].signals /\ jobs'[v].why = jobs[v].why
        /\ jobs'[v].fired = jobs[v].fired \cup {"card_velocity_blocked"}
        /\ \A u \in Workers : u # v => jobs'[u] = jobs[u]
    BY <1>1, <2>1, Fires, PlacesAre
  <2>3. TypeOK' /\ Standing(v)' /\ blacklist' = blacklist /\ \A b \in Bins : CardGrows(b)
    BY <1>1, <2>2, Reads
  <2>4. Keyed(v)' /\ StrictestFirst(v)' /\ Caught(v)'
    BY <1>1, <2>1, <2>2 DEF Right, Keyed, StrictestFirst, Caught, CardPlaces
  <2> QED
    BY <2>2, <2>3, <2>4 DEF Moved, Right
<1>4. CASE ~(blocked[jobs[v].bin] > 0)
  <2>1. Go(v, "count")
    BY <1>4 DEF CheckCardBlocked
  <2>2. /\ JobsTyped' /\ jobs'[v].at = "count" /\ jobs'[v].bin = jobs[v].bin
        /\ jobs'[v].signals = jobs[v].signals /\ jobs'[v].why = jobs[v].why
        /\ jobs'[v].fired = jobs[v].fired
        /\ \A u \in Workers : u # v => jobs'[u] = jobs[u]
    BY <1>1, <2>1, Goes, PlacesAre
  <2>3. TypeOK' /\ Standing(v)' /\ blacklist' = blacklist /\ \A b \in Bins : CardGrows(b)
    BY <1>1, <2>2, Reads
  <2>4. Keyed(v)' /\ StrictestFirst(v)' /\ Caught(v)'
    BY <1>1, <1>2, <1>4, <2>2 DEF Right, Keyed, StrictestFirst, Caught, CardPlaces
  <2> QED
    BY <2>2, <2>3, <2>4 DEF Moved, Right
<1> QED
  BY <1>3, <1>4

(* GET catches a counter that was at its limit all along. *)
LEMMA CheckCardVelocityMoves ==
  ASSUME IInv, NEW v \in Workers, CheckCardVelocity(v)
  PROVE  Moved(v)
<1>1. TypeOK /\ JobsTyped /\ Right(v) /\ UNCHANGED Redis /\ faults' = faults /\ jobs[v].at = "count"
  BY JobsOfType DEF IInv, CountersWillExpire, CheckCardVelocity
<1>2. "count" \in jobs[v].why => AtCardLimit(cards[jobs[v].bin].n)
  BY <1>1, ReasonsAre DEF Right, Standing, AtCardLimit
<1> DEFINE place == IF AtCardLimit(cards[jobs[v].bin].n) THEN "block" ELSE "ip"
<1>3. place \in Places /\ place \in {"block", "ip"} /\ (place = "ip" => "count" \notin jobs[v].why)
  BY <1>2, PlacesAre
<1>4. Go(v, place)
  BY DEF CheckCardVelocity
<1> HIDE DEF place
<1>5. /\ JobsTyped' /\ jobs'[v].at = place /\ jobs'[v].bin = jobs[v].bin
      /\ jobs'[v].signals = jobs[v].signals /\ jobs'[v].why = jobs[v].why
      /\ jobs'[v].fired = jobs[v].fired
      /\ \A u \in Workers : u # v => jobs'[u] = jobs[u]
  BY <1>1, <1>3, <1>4, Goes
<1>6. TypeOK' /\ Standing(v)' /\ blacklist' = blacklist /\ \A b \in Bins : CardGrows(b)
  BY <1>1, <1>5, Reads
<1>7. Keyed(v)' /\ StrictestFirst(v)'
  BY <1>1, <1>3, <1>5 DEF Right, Keyed, StrictestFirst, CardPlaces
<1>8. jobs[v].why \subseteq {"blacklist", "blocked", "count"}
  BY <1>1 DEF JobsTyped, Job, Reasons
<1>9. Caught(v)'
  BY <1>1, <1>3, <1>5, <1>8 DEF Right, Caught, Blocking
<1> QED
  BY <1>5, <1>6, <1>7, <1>9 DEF Moved, Right

(* SETEX blocks the card, and the rule has triggered. *)
LEMMA BlockCardMoves ==
  ASSUME IInv, NEW v \in Workers, BlockCard(v)
  PROVE  Moved(v)
<1>1. TypeOK /\ JobsTyped /\ Right(v) /\ faults' = faults /\ jobs[v].at = "block"
      /\ jobs[v].bin \in Bins
  BY JobsOfType DEF IInv, CountersWillExpire, BlockCard, Right, Keyed, CardPlaces
<1>2. Fire(v, "card_velocity", "ip") /\ "card_velocity" \in Rules \cap Blocking
  BY DEF BlockCard, Rules, Blocking
<1>3. /\ JobsTyped' /\ jobs'[v].at = "ip" /\ jobs'[v].bin = jobs[v].bin
      /\ jobs'[v].signals = jobs[v].signals /\ jobs'[v].why = jobs[v].why
      /\ jobs'[v].fired = jobs[v].fired \cup {"card_velocity"}
      /\ \A u \in Workers : u # v => jobs'[u] = jobs[u]
  BY <1>1, <1>2, Fires, PlacesAre
<1>4. /\ blacklist' = blacklist /\ cards' = cards /\ ips' = ips
      /\ blocked' \in [Bins -> 0..BlockTTL]
      /\ \A b \in Bins : blocked[b] > 0 => blocked'[b] > 0
  BY <1>1, Limits DEF BlockCard, TypeOK
<1>5. TypeOK'
  BY <1>1, <1>3, <1>4 DEF TypeOK, JobsTyped, Job
<1>6. \A b \in Bins : CardGrows(b)
  BY <1>4 DEF CardGrows
<1>7. Standing(v)'
  <2>1. jobs[v].bin # None /\ CardGrows(jobs[v].bin)
    BY <1>1, <1>6, Limits
  <2> QED
    BY <1>1, <1>3, <1>4, <2>1, ReasonsAre DEF Right, Standing, CardGrows, Reasons
<1>8. Keyed(v)' /\ StrictestFirst(v)' /\ Caught(v)'
  BY <1>1, <1>2, <1>3 DEF Right, Keyed, StrictestFirst, Caught, CardPlaces
<1> QED
  BY <1>3, <1>4, <1>5, <1>6, <1>7, <1>8 DEF Moved, Right

(* The address's check takes no rule that triggered away. *)
LEMMA CheckIpVelocityMoves ==
  ASSUME IInv, NEW v \in Workers, CheckIpVelocity(v)
  PROVE  Moved(v)
<1>1. TypeOK /\ JobsTyped /\ Right(v) /\ UNCHANGED Redis /\ faults' = faults /\ jobs[v].at = "ip"
  BY JobsOfType DEF IInv, CountersWillExpire, CheckIpVelocity
<1>2. /\ JobsTyped' /\ jobs'[v].at = "judge" /\ jobs'[v].bin = jobs[v].bin
      /\ jobs'[v].signals = jobs[v].signals /\ jobs'[v].why = jobs[v].why
      /\ jobs[v].fired \subseteq jobs'[v].fired
      /\ \A u \in Workers : u # v => jobs'[u] = jobs[u]
  <2>1. "ip_velocity" \in Rules
    BY DEF Rules
  <2>2. Fire(v, "ip_velocity", "judge") \/ Go(v, "judge")
    BY DEF CheckIpVelocity
  <2> QED
    BY <1>1, <2>1, <2>2, Fires, Goes, PlacesAre
<1>3. TypeOK' /\ Standing(v)' /\ blacklist' = blacklist /\ \A b \in Bins : CardGrows(b)
  BY <1>1, <1>2, Reads
<1>4. Keyed(v)' /\ StrictestFirst(v)' /\ Caught(v)'
  BY <1>1, <1>2 DEF Right, Keyed, StrictestFirst, Caught, CardPlaces
<1> QED
  BY <1>2, <1>3, <1>4 DEF Moved, Right

(* A request that ends without touching Redis. *)
LEMMA Leaves ==
  ASSUME IInv, NEW v \in Workers, Done(v), UNCHANGED Redis, faults' \in 0..MaxFaults
  PROVE  Moved(v)
<1>1. TypeOK /\ JobsTyped
  BY JobsOfType DEF IInv, CountersWillExpire
<1>2. JobsTyped' /\ Right(v)' /\ \A u \in Workers : u # v => jobs'[u] = jobs[u]
  BY <1>1, Ends, IdleIsRight
<1> QED
  BY <1>1, <1>2, RedisStays DEF Moved

(* The verdict is out: the request records its signals or ends. *)
LEMMA JudgeMoves ==
  ASSUME IInv, NEW v \in Workers, Judge(v)
  PROVE  Moved(v)
<1>1. TypeOK /\ JobsTyped /\ Right(v) /\ UNCHANGED Redis /\ faults' = faults /\ jobs[v].at = "judge"
  BY JobsOfType DEF IInv, CountersWillExpire, Judge
<1>2. CASE Done(v)
  BY <1>1, <1>2, Leaves DEF TypeOK
<1>3. CASE Go(v, "signals")
  <2>1. /\ JobsTyped' /\ jobs'[v].at = "signals" /\ jobs'[v].bin = jobs[v].bin
        /\ jobs'[v].signals = jobs[v].signals /\ jobs'[v].why = jobs[v].why
        /\ jobs'[v].fired = jobs[v].fired
        /\ \A u \in Workers : u # v => jobs'[u] = jobs[u]
    BY <1>1, <1>3, Goes, PlacesAre
  <2>2. TypeOK' /\ Standing(v)' /\ blacklist' = blacklist /\ \A b \in Bins : CardGrows(b)
    BY <1>1, <2>1, Reads
  <2>3. Keyed(v)' /\ StrictestFirst(v)' /\ Caught(v)'
    BY <1>1, <2>1 DEF Right, Keyed, StrictestFirst, Caught, CardPlaces
  <2> QED
    BY <2>1, <2>2, <2>3 DEF Moved, Right
<1> QED
  BY <1>2, <1>3 DEF Judge

(* The next signal is of a blocking rule, or the address alone has fired: *)
(* what is left when nothing is recorded yet is all that fired.           *)
LEMMA RecordSignalMoves ==
  ASSUME IInv, NEW v \in Workers, RecordSignal(v)
  PROVE  Moved(v)
<1>1. TypeOK /\ JobsTyped /\ Right(v) /\ UNCHANGED Redis /\ faults' = faults
      /\ jobs[v].at = "signals"
  BY JobsOfType DEF IInv, CountersWillExpire, RecordSignal
<1>2. CASE Recorded(v)
  BY <1>1, <1>2, Leaves DEF TypeOK, RecordSignal
<1>3. CASE ~Recorded(v)
  <2> DEFINE left == jobs[v].fired \ jobs[v].signals
             next == NextSignal(left)
  <2>1. left \in SUBSET Rules /\ left # {}
    BY <1>1, <1>3 DEF Recorded, JobsTyped, Job
  <2>2. next \in left /\ (next \in Blocking \/ left = {"ip_velocity"})
    BY <2>1, NextSignalIs
  <2>3. jobs' = [jobs EXCEPT ![v].signals = jobs[v].signals \cup {next}]
    BY <1>3 DEF RecordSignal
  <2>4. next \in jobs[v].fired /\ next \in Rules
    BY <2>1, <2>2
  <2> HIDE DEF next
  <2>5. /\ JobsTyped' /\ jobs'[v].at = "signals" /\ jobs'[v].bin = jobs[v].bin
        /\ jobs'[v].signals = jobs[v].signals \cup {next} /\ jobs'[v].why = jobs[v].why
        /\ jobs'[v].fired = jobs[v].fired
        /\ \A u \in Workers : u # v => jobs'[u] = jobs[u]
    BY <1>1, <2>3, <2>4 DEF JobsTyped, Job
  <2>6. TypeOK' /\ Standing(v)' /\ blacklist' = blacklist /\ \A b \in Bins : CardGrows(b)
    BY <1>1, <2>5, Reads
  <2>7. StrictestFirst(v)'
    <3>1. CASE jobs[v].signals = {}
      BY <2>2, <2>4, <2>5, <3>1 DEF StrictestFirst
    <3>2. CASE jobs[v].signals # {}
      BY <1>1, <2>4, <2>5, <3>2 DEF Right, StrictestFirst
    <3> QED
      BY <3>1, <3>2
  <2>8. Keyed(v)' /\ Caught(v)'
    BY <1>1, <2>5 DEF Right, Keyed, Caught, CardPlaces
  <2> QED
    BY <2>5, <2>6, <2>7, <2>8 DEF Moved, Right
<1> QED
  BY <1>2, <1>3

(* A request with no reasons and no signals is right wherever it has its key. *)
LEMMA NothingToShow ==
  ASSUME NEW v \in Workers, Keyed(v)', jobs'[v].why = {}, jobs'[v].signals = {}
  PROVE  Right(v)'
BY DEF Right, Standing, Caught, StrictestFirst

(* Who records a failure has no reasons: it evaluates nothing. *)
LEMMA CountersGrow ==
  ASSUME TypeOK, NEW counters, NEW b \in Bins,
         cards' = [cards EXCEPT ![b] = counters], counters \in Counter(CardLimit, CardWindow),
         counters.n >= cards[b].n, blocked' = blocked
  PROVE  cards' \in [Bins -> Counter(CardLimit, CardWindow)] /\ \A c \in Bins : CardGrows(c)
<1>1. cards' \in [Bins -> Counter(CardLimit, CardWindow)]
  BY DEF TypeOK
<1>2. ASSUME NEW c \in Bins PROVE CardGrows(c)
  <2>1. cards[c].n \in Nat /\ cards'[c].n \in Nat
    BY <1>1, Limits DEF TypeOK, Counter
  <2>2. cards'[c].n >= cards[c].n
    BY <1>1, <2>1 DEF TypeOK
  <2> QED
    BY <2>1, <2>2, Limits DEF CardGrows
<1> QED
  BY <1>1, <1>2

(* Counting and blocking take no reason away. *)
LEMMA StandsOn ==
  ASSUME JobsTyped, NEW v \in Workers, Standing(v), blacklist' = blacklist,
      \A b \in Bins : CardGrows(b),
         jobs'[v].bin = jobs[v].bin, jobs'[v].why = jobs[v].why
  PROVE  Standing(v)'
<1>1. jobs[v].bin \in Bins \cup {None}
  BY DEF JobsTyped, Job
<1>2. CASE jobs[v].bin = None
  BY <1>2, ReasonsAre DEF Standing
<1>3. CASE jobs[v].bin # None
  <2>1. CardGrows(jobs[v].bin)
    BY <1>1, <1>3
  <2> QED
    BY <1>3, <2>1, ReasonsAre DEF Standing, CardGrows, Reasons
<1> QED
  BY <1>2, <1>3

(* INCR of the card's counter, which stays within its limit. *)
LEMMA IncrCardMoves ==
  ASSUME IInv, NEW v \in Workers, IncrCard(v)
  PROVE  Moved(v)
<1>1. /\ TypeOK /\ JobsTyped /\ Right(v) /\ jobs[v].at = "card_incr" /\ jobs[v].bin \in Bins
      /\ blacklist' = blacklist /\ blocked' = blocked /\ ips' = ips /\ faults' = faults
  BY JobsOfType DEF IInv, CountersWillExpire, IncrCard, Right, Keyed, CardPlaces
<1>2. /\ JobsTyped' /\ jobs'[v].at = "card_expire" /\ jobs'[v].bin = jobs[v].bin
      /\ jobs'[v].signals = jobs[v].signals /\ jobs'[v].why = jobs[v].why
      /\ \A u \in Workers : u # v => jobs'[u] = jobs[u]
  BY <1>1, Goes, PlacesAre DEF IncrCard
<1>3. cards' \in [Bins -> Counter(CardLimit, CardWindow)] /\ \A b \in Bins : CardGrows(b)
  <2> DEFINE b == jobs[v].bin
             c == Incremented(cards[b], CardLimit)
  <2>1. cards[b] \in Counter(CardLimit, CardWindow)
    BY <1>1 DEF TypeOK
  <2>2. c \in Counter(CardLimit, CardWindow) /\ c.n >= cards[b].n
    BY <2>1, Limits, CounterSteps
  <2>3. cards' = [cards EXCEPT ![b] = c]
    BY DEF IncrCard
  <2> HIDE DEF b, c
  <2> QED
    BY <1>1, <2>2, <2>3, CountersGrow DEF b
<1>4. TypeOK'
  BY <1>1, <1>2, <1>3 DEF TypeOK, JobsTyped, Job
<1>5. Standing(v)'
  BY <1>1, <1>2, <1>3, StandsOn DEF Right
<1>6. Keyed(v)' /\ StrictestFirst(v)' /\ Caught(v)'
  BY <1>1, <1>2 DEF Right, Keyed, StrictestFirst, Caught, CardPlaces
<1> QED
  BY <1>1, <1>2, <1>3, <1>4, <1>5, <1>6 DEF Moved, Right

(* EXPIRE of the card's counter, then the address if there is one. *)
LEMMA ExpireCardMoves ==
  ASSUME IInv, NEW v \in Workers, ExpireCard(v)
  PROVE  Moved(v)
<1>1. /\ TypeOK /\ JobsTyped /\ Right(v) /\ jobs[v].at = "card_expire" /\ jobs[v].bin \in Bins
      /\ blacklist' = blacklist /\ blocked' = blocked /\ ips' = ips /\ faults' = faults
  BY JobsOfType DEF IInv, CountersWillExpire, ExpireCard, Right, Keyed, CardPlaces
<1>2. cards' \in [Bins -> Counter(CardLimit, CardWindow)] /\ \A b \in Bins : CardGrows(b)
  <2> DEFINE b == jobs[v].bin
             c == Expiring(cards[b], CardWindow)
  <2>1. cards[b] \in Counter(CardLimit, CardWindow)
    BY <1>1 DEF TypeOK
  <2>2. c \in Counter(CardLimit, CardWindow) /\ c.n = cards[b].n /\ cards[b].n \in Nat
    BY <2>1, Limits, CounterSteps DEF Counter
  <2>3. cards' = [cards EXCEPT ![b] = c]
    BY DEF ExpireCard
  <2>4. c.n >= cards[b].n
    BY <2>2
  <2> HIDE DEF b, c
  <2> QED
    BY <1>1, <2>2, <2>3, <2>4, CountersGrow DEF b
<1>3. CASE jobs[v].ip = None
  <2>1. JobsTyped' /\ Right(v)' /\ \A u \in Workers : u # v => jobs'[u] = jobs[u]
    BY <1>1, <1>3, Ends, IdleIsRight DEF ExpireCard
  <2>2. TypeOK'
    BY <1>1, <1>2, <2>1 DEF TypeOK, JobsTyped, Job
  <2> QED
    BY <1>1, <1>2, <2>1, <2>2 DEF Moved
<1>4. CASE jobs[v].ip # None
  <2>1. /\ JobsTyped' /\ jobs'[v].at = "ip_incr" /\ jobs'[v].bin = jobs[v].bin
        /\ jobs'[v].ip = jobs[v].ip
        /\ jobs'[v].signals = jobs[v].signals /\ jobs'[v].why = jobs[v].why
        /\ \A u \in Workers : u # v => jobs'[u] = jobs[u]
    BY <1>1, <1>4, Goes, PlacesAre DEF ExpireCard
  <2>2. TypeOK'
    BY <1>1, <1>2, <2>1 DEF TypeOK, JobsTyped, Job
  <2>3. Standing(v)'
    BY <1>1, <1>2, <2>1, StandsOn DEF Right
  <2>4. jobs[v].ip \in Ips
    BY <1>1, <1>4 DEF JobsTyped, Job
  <2>5. Keyed(v)' /\ StrictestFirst(v)' /\ Caught(v)'
    BY <1>1, <2>1, <2>4 DEF Right, Keyed, StrictestFirst, Caught, CardPlaces
  <2> QED
    BY <1>1, <1>2, <2>1, <2>2, <2>3, <2>5 DEF Moved, Right
<1> QED
  BY <1>3, <1>4

(* INCR of the address's counter. *)
LEMMA IncrIpMoves ==
  ASSUME IInv, NEW v \in Workers, IncrIp(v)
  PROVE  Moved(v)
<1>1. /\ TypeOK /\ JobsTyped /\ Right(v) /\ jobs[v].at = "ip_incr" /\ jobs[v].ip \in Ips
      /\ blacklist' = blacklist /\ blocked' = blocked /\ cards' = cards /\ faults' = faults
  BY JobsOfType DEF IInv, CountersWillExpire, IncrIp, Right, Keyed, CardPlaces
<1>2. /\ JobsTyped' /\ jobs'[v].at = "ip_expire" /\ jobs'[v].bin = jobs[v].bin
      /\ jobs'[v].ip = jobs[v].ip
      /\ jobs'[v].signals = jobs[v].signals /\ jobs'[v].why = jobs[v].why
      /\ \A u \in Workers : u # v => jobs'[u] = jobs[u]
  BY <1>1, Goes, PlacesAre DEF IncrIp
<1>3. ips' \in [Ips -> Counter(IpLimit, IpWindow)]
  <2>1. ips[jobs[v].ip] \in Counter(IpLimit, IpWindow)
    BY <1>1 DEF TypeOK
  <2>2. Incremented(ips[jobs[v].ip], IpLimit) \in Counter(IpLimit, IpWindow)
    BY <2>1, Limits, CounterSteps
  <2> QED
    BY <1>1, <2>2 DEF IncrIp, TypeOK
<1>4. TypeOK' /\ \A b \in Bins : CardGrows(b)
  BY <1>1, <1>2, <1>3 DEF TypeOK, JobsTyped, Job, CardGrows
<1>5. Standing(v)'
  BY <1>1, <1>2, <1>4, StandsOn DEF Right
<1>6. Keyed(v)' /\ StrictestFirst(v)' /\ Caught(v)'
  BY <1>1, <1>2 DEF Right, Keyed, StrictestFirst, Caught, CardPlaces
<1> QED
  BY <1>1, <1>2, <1>4, <1>5, <1>6 DEF Moved, Right

(* EXPIRE of the address's counter, the last command. *)
LEMMA ExpireIpMoves ==
  ASSUME IInv, NEW v \in Workers, ExpireIp(v)
  PROVE  Moved(v)
<1>1. /\ TypeOK /\ JobsTyped /\ Right(v) /\ jobs[v].at = "ip_expire" /\ jobs[v].ip \in Ips
      /\ blacklist' = blacklist /\ blocked' = blocked /\ cards' = cards /\ faults' = faults
  BY JobsOfType DEF IInv, CountersWillExpire, ExpireIp, Right, Keyed, CardPlaces
<1>2. JobsTyped' /\ Right(v)' /\ \A u \in Workers : u # v => jobs'[u] = jobs[u]
  BY <1>1, Ends, IdleIsRight DEF ExpireIp
<1>3. ips' \in [Ips -> Counter(IpLimit, IpWindow)]
  <2>1. ips[jobs[v].ip] \in Counter(IpLimit, IpWindow)
    BY <1>1 DEF TypeOK
  <2>2. Expiring(ips[jobs[v].ip], IpWindow) \in Counter(IpLimit, IpWindow)
    BY <2>1, Limits, CounterSteps
  <2> QED
    BY <1>1, <2>2 DEF ExpireIp, TypeOK
<1>4. TypeOK' /\ \A b \in Bins : CardGrows(b)
  BY <1>1, <1>2, <1>3 DEF TypeOK, JobsTyped, Job, CardGrows
<1> QED
  BY <1>1, <1>2, <1>4 DEF Moved

(* A Redis error breaks the evaluation: nothing stood all along. *)
LEMMA RedisFailsMoves ==
  ASSUME IInv, NEW v \in Workers, RedisFails(v)
  PROVE  Moved(v)
<1>1. /\ TypeOK /\ JobsTyped /\ Right(v) /\ UNCHANGED Redis /\ faults' \in 0..MaxFaults
  BY JobsOfType, Faults DEF IInv, CountersWillExpire, RedisFails
<1>2. CASE Done(v)
  BY <1>1, <1>2, Leaves
<1>3. CASE /\ jobs[v].at \in {"blacklist", "exists", "count", "block", "ip"}
           /\ jobs' = [jobs EXCEPT ![v].why = {},
                                   ![v].at = CASE @ = "blacklist" -> "exists"
                                               [] @ = "ip"        -> "judge"
                                               [] OTHER           -> "ip"]
  <2> DEFINE place == CASE jobs[v].at = "blacklist" -> "exists"
                        [] jobs[v].at = "ip"        -> "judge"
                        [] OTHER                    -> "ip"
  <2>1. place \in Places /\ place \in {"exists", "judge", "ip"}
        /\ (place = "exists" => jobs[v].at = "blacklist")
    BY <1>3, PlacesAre
  <2>2. jobs' = [jobs EXCEPT ![v].why = {}, ![v].at = place]
    BY <1>1, <1>3 DEF JobsTyped, Job
  <2> HIDE DEF place
  <2> DEFINE new == [jobs[v] EXCEPT !.why = {}, !.at = place]
  <2>3. /\ JobsTyped' /\ jobs'[v].at = place /\ jobs'[v].bin = jobs[v].bin
        /\ jobs'[v].signals = jobs[v].signals /\ jobs'[v].why = {}
        /\ \A u \in Workers : u # v => jobs'[u] = jobs[u]
    <3>1. /\ new \in Job /\ new.at = place /\ new.bin = jobs[v].bin
          /\ new.signals = jobs[v].signals /\ new.why = {}
      BY <1>1, <2>1 DEF JobsTyped, Job
    <3>2. jobs' = [jobs EXCEPT ![v] = new]
      BY <1>1, <2>2 DEF JobsTyped, Job
    <3> HIDE DEF new
    <3> QED
      BY <1>1, <3>1, <3>2 DEF JobsTyped
  <2>4. TypeOK' /\ blacklist' = blacklist /\ \A b \in Bins : CardGrows(b)
    BY <1>1, <2>3, RedisStays
  <2>5. Keyed(v)' /\ jobs'[v].signals = {}
    BY <1>1, <1>3, <2>1, <2>3 DEF Right, Keyed, StrictestFirst, CardPlaces
  <2> QED
    BY <2>3, <2>4, <2>5, NothingToShow DEF Moved
<1> QED
  BY <1>2, <1>3 DEF RedisFails

(* A killed process leaves Redis as it is. *)
LEMMA KilledMoves ==
  ASSUME IInv, NEW v \in Workers, Killed(v)
  PROVE  Moved(v)
BY Leaves, Faults DEF IInv, CountersWillExpire, Killed

-----------------------------------------------------------------------------
(* The administrator and time. *)

(* Whatever they do to Redis, a request keeps only the reasons that stand. *)
LEMMA AllRechecked ==
  ASSUME JobsTyped, \A w \in Workers : Right(w), Recheck
  PROVE  \A w \in Workers : Right(w)'
<1> SUFFICES ASSUME NEW w \in Workers PROVE Right(w)'
  OBVIOUS
<1>1. /\ jobs'[w].at = jobs[w].at /\ jobs'[w].bin = jobs[w].bin /\ jobs'[w].ip = jobs[w].ip
      /\ jobs'[w].fired = jobs[w].fired /\ jobs'[w].signals = jobs[w].signals
      /\ jobs'[w].why = jobs[w].why \cap ReasonsIn(blacklist', cards', blocked', jobs[w].bin)
  BY Rechecked
<1>2. Standing(w)'
  BY <1>1 DEF Standing
<1>3. jobs'[w].why \subseteq jobs[w].why
  BY <1>1
<1>4. Keyed(w)' /\ Caught(w)' /\ StrictestFirst(w)'
  BY <1>1, <1>3 DEF Right, Keyed, Caught, StrictestFirst
<1> QED
  BY <1>2, <1>4 DEF Right

(* An administrator lists or unlists a BIN. *)
LEMMA SetBlacklistedKept ==
  ASSUME IInv, NEW b \in Bins, NEW listed \in BOOLEAN, SetBlacklisted(b, listed)
  PROVE  TypeOK' /\ \A w \in Workers : Right(w)'
<1>1. TypeOK /\ JobsTyped /\ (\A w \in Workers : Right(w)) /\ Recheck
  BY JobsOfType DEF IInv, CountersWillExpire, SetBlacklisted
<1>2. JobsTyped'
  BY <1>1, Rechecked
<1>3. blacklist' \subseteq Bins
  BY <1>1 DEF SetBlacklisted, TypeOK
<1>4. TypeOK'
  BY <1>1, <1>2, <1>3 DEF SetBlacklisted, TypeOK, JobsTyped, Job
<1> QED
  BY <1>1, <1>4, AllRechecked

(* Every counter is one tick older. *)
LEMMA Ages ==
  ASSUME TypeOK, Tick
  PROVE  /\ \A b \in Bins : /\ cards[b] \in Counter(CardLimit, CardWindow)
                            /\ cards'[b] = Aged(cards[b])
         /\ \A i \in Ips : ips[i] \in Counter(IpLimit, IpWindow) /\ ips'[i] = Aged(ips[i])
         /\ cards' \in [Bins -> Counter(CardLimit, CardWindow)]
         /\ ips' \in [Ips -> Counter(IpLimit, IpWindow)]
         /\ blocked' \in [Bins -> 0..BlockTTL]
<1>1. \A b \in Bins : cards[b] \in Counter(CardLimit, CardWindow)
                      /\ Aged(cards[b]) \in Counter(CardLimit, CardWindow)
  BY Limits, CounterSteps DEF TypeOK
<1>2. \A i \in Ips : ips[i] \in Counter(IpLimit, IpWindow)
      /\ Aged(ips[i]) \in Counter(IpLimit, IpWindow)
  BY Limits, CounterSteps DEF TypeOK
<1>3. cards' = [b \in Bins |-> Aged(cards[b])] /\ ips' = [i \in Ips |-> Aged(ips[i])]
  BY DEF Tick
<1>4. blocked' \in [Bins -> 0..BlockTTL]
  BY Limits DEF Tick, TypeOK
<1> QED
  BY <1>1, <1>2, <1>3, <1>4

(* Keys expire under the requests that work with them. *)
LEMMA TickKept ==
  ASSUME IInv, Tick
  PROVE  TypeOK' /\ \A w \in Workers : Right(w)'
<1>1. TypeOK /\ JobsTyped /\ (\A w \in Workers : Right(w)) /\ Recheck
  BY JobsOfType DEF IInv, CountersWillExpire, Tick
<1>2. JobsTyped'
  BY <1>1, Rechecked
<1>3. TypeOK'
  BY <1>1, <1>2, Ages DEF Tick, TypeOK, JobsTyped, Job
<1> QED
  BY <1>1, <1>3, AllRechecked

-----------------------------------------------------------------------------
(* Every step. *)

(* Every command keeps its own request right and takes nobody's reason away. *)
LEMMA OneMoves ==
  ASSUME IInv, NEW v \in Workers,
         \/ \E attempt \in Attempts : Evaluate(v, attempt) \/ RecordFailedAttempt(v, attempt)
         \/ Work(v) \/ RedisFails(v) \/ Killed(v)
  PROVE  Moved(v)
<1>1. CASE \E attempt \in Attempts : Evaluate(v, attempt) \/ RecordFailedAttempt(v, attempt)
  BY <1>1, EvaluateMoves, RecordFailedAttemptMoves
<1>2. CASE Work(v)
  BY <1>2, CheckBinBlacklistMoves, CheckCardBlockedMoves, CheckCardVelocityMoves, BlockCardMoves,
     CheckIpVelocityMoves, JudgeMoves, RecordSignalMoves, IncrCardMoves, ExpireCardMoves,
     IncrIpMoves, ExpireIpMoves DEF Work
<1>3. CASE RedisFails(v) \/ Killed(v)
  BY <1>3, RedisFailsMoves, KilledMoves
<1> QED
  BY <1>1, <1>2, <1>3

(* Every step keeps the types and every request right. *)
LEMMA RightKept == IInv /\ [Next]_vars => TypeOK' /\ \A w \in Workers : Right(w)'
<1> SUFFICES ASSUME IInv, [Next]_vars PROVE TypeOK' /\ \A w \in Workers : Right(w)'
  OBVIOUS
<1>1. TypeOK /\ JobsTyped /\ \A w \in Workers : Right(w)
  BY JobsOfType DEF IInv, CountersWillExpire
<1>2. ASSUME NEW v \in Workers, Moved(v) PROVE TypeOK' /\ \A w \in Workers : Right(w)'
  BY <1>1, <1>2, OthersRight DEF Moved
<1>3. ASSUME NEW b \in Bins, NEW listed \in BOOLEAN, SetBlacklisted(b, listed)
      PROVE  TypeOK' /\ \A w \in Workers : Right(w)'
  BY <1>3, SetBlacklistedKept
<1>4. CASE Tick
  BY <1>4, TickKept
<1>5. CASE UNCHANGED vars
  <2>1. TypeOK'
    BY <1>1, <1>5 DEF vars, TypeOK
  <2>2. ASSUME NEW w \in Workers PROVE Right(w)'
    <3>1. Right(w)
      BY <1>1
    <3> QED
      BY <1>5, <3>1 DEF vars, Right, Keyed, Standing, Caught, StrictestFirst
  <2> QED
    BY <2>1, <2>2
<1> QED
  BY <1>2, <1>3, <1>4, <1>5, OneMoves DEF Next

-----------------------------------------------------------------------------
(* The counters without a TTL, and who is about to set one. *)

(* Only counting, expiring and time change a counter. *)
LEMMA CountersChange ==
  [Next]_vars => /\ cards' = cards \/ Tick \/ \E v \in Workers : IncrCard(v) \/ ExpireCard(v)
                 /\ ips' = ips \/ Tick \/ \E v \in Workers : IncrIp(v) \/ ExpireIp(v)
BY DEF Next, Work, vars, Redis, Evaluate, RecordFailedAttempt, CheckBinBlacklist,
       CheckCardBlocked, CheckCardVelocity, BlockCard, CheckIpVelocity, Judge, RecordSignal,
       IncrCard, ExpireCard, IncrIp, ExpireIp, RedisFails, Killed, SetBlacklisted

(* A request about to set a TTL does that next, unless something fails. *)
LEMMA ExpiresNext ==
  ASSUME IInv, [Next]_vars, ~Fault, NEW w \in Workers, jobs[w].at \in {"card_expire", "ip_expire"}
  PROVE  \/ jobs'[w].at = jobs[w].at /\ jobs'[w].bin = jobs[w].bin /\ jobs'[w].ip = jobs[w].ip
         \/ ExpireCard(w) \/ ExpireIp(w)
<1>1. JobsTyped
  BY JobsOfType DEF IInv, CountersWillExpire
<1>2. CASE UNCHANGED vars
  BY <1>2 DEF vars
<1>3. CASE Tick \/ \E b \in Bins, listed \in BOOLEAN : SetBlacklisted(b, listed)
  BY <1>1, <1>3, Rechecked DEF Tick, SetBlacklisted
<1>4. ASSUME NEW v \in Workers,
             \/ \E attempt \in Attempts : Evaluate(v, attempt) \/ RecordFailedAttempt(v, attempt)
             \/ Work(v) \/ RedisFails(v) \/ Killed(v)
      PROVE  \/ jobs'[w] = jobs[w]
             \/ ExpireCard(w) \/ ExpireIp(w)
  <2>1. CASE v # w
    BY <1>4, <2>1, OneMoves DEF Moved
  <2>2. CASE v = w
    <3>1. jobs[w] # IdleJob
      BY IdleIsJob
    <3>2. Work(w)
      BY <1>4, <2>2, <3>1 DEF Evaluate, RecordFailedAttempt, RedisFails, Killed
    <3> QED
      BY <3>2
         DEF Work, CheckBinBlacklist, CheckCardBlocked, CheckCardVelocity, BlockCard,
             CheckIpVelocity, Judge, RecordSignal, IncrCard, IncrIp
  <2> QED
    BY <2>1, <2>2
<1> QED
  BY <1>2, <1>3, <1>4 DEF Next

(* A card's counter without a TTL still has a request at EXPIRE. *)
LEMMA CardsExpiryKept ==
  ASSUME IInv, [Next]_vars, faults = 0, ~Fault,
         NEW b \in Bins, cards'[b].n > 0, cards'[b].ttl = 0
  PROVE  \E w \in Workers : jobs'[w].at = "card_expire" /\ jobs'[w].bin = b
<1>1. TypeOK /\ JobsTyped
  BY JobsOfType DEF IInv, CountersWillExpire
<1>2. cards[b] \in Counter(CardLimit, CardWindow)
  BY <1>1 DEF TypeOK
<1>3. ASSUME NEW v \in Workers, ExpireCard(v) PROVE jobs[v].bin # b
  <2>1. cards' = [cards EXCEPT ![jobs[v].bin] = Expiring(cards[jobs[v].bin], CardWindow)]
    BY <1>3 DEF ExpireCard
  <2>2. Expiring(cards[b], CardWindow).n > 0 => Expiring(cards[b], CardWindow).ttl > 0
    BY <1>2, Limits, CounterSteps
  <2>3. jobs[v].bin = b => cards'[b] = Expiring(cards[b], CardWindow)
    BY <1>1, <2>1 DEF TypeOK
  <2> QED
    BY <2>2, <2>3
<1>4. ASSUME NEW v \in Workers, IncrCard(v), jobs[v].bin = b
      PROVE  jobs'[v].at = "card_expire" /\ jobs'[v].bin = b
  BY <1>1, <1>4, Goes, PlacesAre DEF IncrCard
<1>5. ASSUME ~\E v \in Workers : IncrCard(v) /\ jobs[v].bin = b
      PROVE  cards[b].n > 0 /\ cards[b].ttl = 0
  <2>1. CASE cards' = cards
    BY <2>1
  <2>2. CASE Tick
    <3>1. cards'[b] = Aged(cards[b])
      BY <1>1, <2>2, Ages
    <3> QED
      BY <1>2, <3>1, Limits, CounterSteps
  <2>3. ASSUME NEW v \in Workers, IncrCard(v) \/ ExpireCard(v) PROVE cards'[b] = cards[b]
    <3>1. jobs[v].bin # b
      BY <1>3, <1>5, <2>3
    <3> QED
      BY <1>1, <2>3, <3>1 DEF IncrCard, ExpireCard, TypeOK
  <2> QED
    BY <2>1, <2>2, <2>3, CountersChange
<1>6. CASE cards[b].n > 0 /\ cards[b].ttl = 0
  <2>1. PICK w \in Workers : jobs[w].at = "card_expire" /\ jobs[w].bin = b
    BY <1>6 DEF IInv, CountersWillExpire
  <2>2. ~ExpireCard(w) /\ ~ExpireIp(w)
    BY <1>3, <2>1 DEF ExpireIp
  <2> QED
    BY <2>1, <2>2, ExpiresNext
<1> QED
  BY <1>4, <1>5, <1>6

(* An address's counter without a TTL still has a request at EXPIRE. *)
LEMMA IpsExpiryKept ==
  ASSUME IInv, [Next]_vars, faults = 0, ~Fault,
         NEW i \in Ips, ips'[i].n > 0, ips'[i].ttl = 0
  PROVE  \E w \in Workers : jobs'[w].at = "ip_expire" /\ jobs'[w].ip = i
<1>1. TypeOK /\ JobsTyped
  BY JobsOfType DEF IInv, CountersWillExpire
<1>2. ips[i] \in Counter(IpLimit, IpWindow)
  BY <1>1 DEF TypeOK
<1>3. ASSUME NEW v \in Workers, ExpireIp(v) PROVE jobs[v].ip # i
  <2>1. ips' = [ips EXCEPT ![jobs[v].ip] = Expiring(ips[jobs[v].ip], IpWindow)]
    BY <1>3 DEF ExpireIp
  <2>2. Expiring(ips[i], IpWindow).n > 0 => Expiring(ips[i], IpWindow).ttl > 0
    BY <1>2, Limits, CounterSteps
  <2>3. jobs[v].ip = i => ips'[i] = Expiring(ips[i], IpWindow)
    BY <1>1, <2>1 DEF TypeOK
  <2> QED
    BY <2>2, <2>3
<1>4. ASSUME NEW v \in Workers, IncrIp(v), jobs[v].ip = i
      PROVE  jobs'[v].at = "ip_expire" /\ jobs'[v].ip = i
  BY <1>1, <1>4, Goes, PlacesAre DEF IncrIp
<1>5. ASSUME ~\E v \in Workers : IncrIp(v) /\ jobs[v].ip = i
      PROVE  ips[i].n > 0 /\ ips[i].ttl = 0
  <2>1. CASE ips' = ips
    BY <2>1
  <2>2. CASE Tick
    <3>1. ips'[i] = Aged(ips[i])
      BY <1>1, <2>2, Ages
    <3> QED
      BY <1>2, <3>1, Limits, CounterSteps
  <2>3. ASSUME NEW v \in Workers, IncrIp(v) \/ ExpireIp(v) PROVE ips'[i] = ips[i]
    <3>1. jobs[v].ip # i
      BY <1>3, <1>5, <2>3
    <3> QED
      BY <1>1, <2>3, <3>1 DEF IncrIp, ExpireIp, TypeOK
  <2> QED
    BY <2>1, <2>2, <2>3, CountersChange
<1>6. CASE ips[i].n > 0 /\ ips[i].ttl = 0
  <2>1. PICK w \in Workers : jobs[w].at = "ip_expire" /\ jobs[w].ip = i
    BY <1>6 DEF IInv, CountersWillExpire
  <2>2. ~ExpireIp(w) /\ ~ExpireCard(w)
    BY <1>3, <2>1 DEF ExpireCard
  <2> QED
    BY <2>1, <2>2, ExpiresNext
<1> QED
  BY <1>4, <1>5, <1>6

-----------------------------------------------------------------------------
(* The invariant holds of every behaviour. *)

(* Redis is empty and every request idle to begin with. *)
LEMMA Start == Init => IInv
<1> SUFFICES ASSUME Init PROVE IInv
  OBVIOUS
<1>1. IdleJob \in Job /\ \A w \in Workers : jobs[w] = IdleJob
  BY IdleIsJob DEF Init
<1>2. Absent \in Counter(CardLimit, CardWindow) /\ Absent \in Counter(IpLimit, IpWindow)
      /\ Absent.n = 0
  BY Limits DEF Absent, Counter
<1>3. TypeOK
  BY <1>1, <1>2, Limits DEF Init, TypeOK, Job
<1>4. CountersWillExpire
  BY <1>2, <1>3 DEF Init, CountersWillExpire
<1>5. \A w \in Workers : Right(w)
  BY <1>1, IdleIsJob DEF Right, Keyed, Standing, Caught, StrictestFirst, CardPlaces
<1> QED
  BY <1>4, <1>5 DEF IInv

(* Every step keeps every part of the invariant. *)
LEMMA Step == IInv /\ [Next]_vars => IInv'
<1> SUFFICES ASSUME IInv, [Next]_vars PROVE IInv'
  OBVIOUS
<1>1. TypeOK' /\ \A w \in Workers : Right(w)'
  BY RightKept
<1>2. TypeOK
  BY DEF IInv, CountersWillExpire
<1>3. CountersWillExpire'
  <2>1. CASE Fault
    BY <1>1, <1>2, <2>1, Faults DEF CountersWillExpire
  <2>2. CASE ~Fault
    <3>1. faults' = faults
      BY <2>2, FaultOrNot
    <3>2. faults' = 0 => \A b \in Bins : cards'[b].n > 0 /\ cards'[b].ttl = 0 =>
                           \E w \in Workers : jobs'[w].at = "card_expire" /\ jobs'[w].bin = b
      BY <2>2, <3>1, CardsExpiryKept
    <3>3. faults' = 0 => \A i \in Ips : ips'[i].n > 0 /\ ips'[i].ttl = 0 =>
                           \E w \in Workers : jobs'[w].at = "ip_expire" /\ jobs'[w].ip = i
      BY <2>2, <3>1, IpsExpiryKept
    <3> QED
      BY <1>1, <3>2, <3>3 DEF CountersWillExpire
  <2> QED
    BY <2>1, <2>2
<1> QED
  BY <1>1, <1>3 DEF IInv

(* The invariant of the engine holds of every behaviour. *)
LEMMA Always == Spec => []IInv
BY Start, Step, PTL DEF Spec

(* INCR and EXPIRE are two commands, yet as long as nothing fails no counter *)
(* is left without a TTL: some request is about to set one.                  *)
THEOREM CountersWillExpireCorrect == Spec => []CountersWillExpire
<1>1. IInv => CountersWillExpire
  BY DEF IInv
<1> QED
  BY <1>1, Always, PTL

(* What spoke for a block during the whole of an evaluation has blocked the *)
(* payment, whatever other requests, expiries and administrators did.       *)
THEOREM StandingReasonBlocksCorrect == Spec => []StandingReasonBlocks
<1>1. IInv => StandingReasonBlocks
  <2> SUFFICES ASSUME IInv, NEW w \in Workers, jobs[w].at = "judge", jobs[w].why # {}
               PROVE  ActionOf(jobs[w].fired) = "block"
    BY DEF StandingReasonBlocks
  <2>1. jobs[w].fired \in SUBSET Rules
    BY DEF IInv, CountersWillExpire, TypeOK
  <2>2. jobs[w].fired \cap Blocking # {}
    BY DEF IInv, Right, Caught
  <2> QED
    BY <2>1, <2>2, BlockingBlocks
<1> QED
  BY <1>1, Always, PTL

(* The signals recorded so far never make a payment look milder than the *)
(* verdict, wherever record_signals is interrupted.                      *)
THEOREM SignalsKeepVerdictCorrect == Spec => []SignalsKeepVerdict
<1>1. IInv => SignalsKeepVerdict
  <2> SUFFICES ASSUME IInv, NEW w \in Workers, jobs[w].signals # {}
               PROVE  Severity(ActionOf(jobs[w].fired))
                        = Max({Severity(Action(r)) : r \in jobs[w].signals})
    BY DEF SignalsKeepVerdict
  <2>1. jobs[w].fired \in SUBSET Rules /\ jobs[w].signals \in SUBSET Rules
    BY DEF IInv, CountersWillExpire, TypeOK
  <2>2. /\ jobs[w].signals \subseteq jobs[w].fired
        /\ jobs[w].signals \cap Blocking # {} \/ jobs[w].fired = {"ip_velocity"}
    BY DEF IInv, Right, StrictestFirst
  <2>3. CASE jobs[w].signals \cap Blocking # {}
    <3>1. ActionOf(jobs[w].fired) = "block"
      BY <2>1, <2>2, <2>3, BlockingBlocks
    <3>2. Severity("block") = 3
      BY DEF Severity
    <3> QED
      BY <2>1, <2>3, <3>1, <3>2, Severities
  <2>4. CASE jobs[w].fired = {"ip_velocity"}
    <3>1. ActionOf(jobs[w].fired) = "flag" /\ jobs[w].signals = {"ip_velocity"}
      BY <2>2, <2>4, AddressFlags
    <3>2. Severity("flag") = 2
      BY DEF Severity
    <3> QED
      BY <2>1, <3>1, <3>2, Severities
  <2> QED
    BY <2>2, <2>3, <2>4
<1> QED
  BY <1>1, Always, PTL

-----------------------------------------------------------------------------
(* Rate limiter, idempotency cache and duplicate orders: their state is *)
(* their own.                                                           *)

(* Only a request that carries the header looks into the cache. *)
CacheHasHeader == \A w \in Handlers : requests[w].at = "cache" => requests[w].call.header # Null

CallKnown == \A w \in Handlers : requests[w].at # "idle" => requests[w].call \in Calls

(* The order answers the call: it is there, under the call's key. *)
Serves(o, call) == o \in OrderIds /\ orders[o] # NoOrder /\ orders[o].key = call.body

(* idempotency_key is unique, over all merchants. *)
UniqueKeys ==
  \A o, p \in OrderIds : orders[o].key # Null /\ orders[o].key = orders[p].key => o = p

(* Whatever is stored, cached or answered for a call serves it. *)
AllServed ==
  /\ \A a \in answers : Serves(a.order, a.call)
  /\ \A w \in Handlers : requests[w].at = "store" => Serves(requests[w].order, requests[w].call)
  /\ \A k \in ApiKeys, h \in Headers : cache[k][h] # Null =>
       \E c \in Calls : c.api = k /\ c.header = h /\ Serves(cache[k][h], c)

WillExpire ==
  \A k \in ApiKeys : counter[k] > 0 /\ ~expires[k] =>
    errors > 0 \/ \E w \in Handlers : requests[w].at = "expire" /\ requests[w].call.api = k

Placed(call) == {o \in OrderIds : orders[o].call = call}
Inserting(call) ==
  {w \in Handlers : requests[w].call = call /\ requests[w].at \in {"view", "insert"}}
Storing(call) == {w \in Handlers : requests[w].call = call /\ requests[w].at = "store"}

(* Until the first answer is cached, every order of the call is in the hands *)
(* of a request that has yet to store it; from then on no further request    *)
(* reaches the view.                                                         *)
PlacedOnce(call) ==
  /\ cache[Scope(call)][call.header] = Null =>
       \A o \in Placed(call) : \E w \in Storing(call) : requests[w].order = o
  /\ Cardinality(Placed(call)) + Cardinality(Inserting(call)) <= Cardinality(Handlers)

Bounded ==
  ~forgotten /\ errors = 0 => \A call \in Calls : call.header # Null => PlacedOnce(call)

RequestJob ==
  [at: RequestPlaces, call: Calls \cup {NoCall}, count: 0..RateLimit + 1,
   order: OrderIds \cup {Null}]

JobsRight == requests \in [Handlers -> RequestJob] /\ CacheHasHeader /\ CallKnown

RequestIInv == RequestTypeOK /\ JobsRight /\ UniqueKeys /\ AllServed /\ WillExpire /\ Bounded

-----------------------------------------------------------------------------
(* There are finitely many handlers and order numbers. *)
LEMMA HandlersAndIdsFinite ==
  IsFiniteSet(Handlers) /\ IsFiniteSet(OrderIds)
BY RequestAssumption

(* The parts of a call, and what an idle request is. *)
LEMMA CallParts ==
  ASSUME NEW call \in Calls
  PROVE  /\ call.api \in ApiKeys /\ call.header \in Headers \cup {Null}
         /\ call.body \in BodyKeys \cup {Null} /\ Owner[call.api] \in {Owner[k] : k \in ApiKeys}
         /\ Inside(call) \in {"cache", "view"} /\ (Inside(call) = "cache" => call.header # Null)
         /\ call # NoCall
<1>1. call \in [api: ApiKeys, header: Headers \cup {Null}, body: BodyKeys \cup {Null}]
  BY RequestAssumption
<1>2. call.api # Null
  BY <1>1, RequestAssumption
<1> QED
  BY <1>1, <1>2 DEF Inside, NoCall

(* A request that is done is a request that does nothing. *)
LEMMA RequestIdleIsJob ==
  IdleRequest \in RequestJob /\ IdleRequest.at = "idle"
BY RequestAssumption DEF IdleRequest, RequestJob, RequestPlaces

(* A request that takes up a call, at the place it begins at. *)
LEMMA Begins ==
  ASSUME JobsRight, NEW w \in Handlers, NEW job \in RequestJob,
         job.call \in Calls, job.at # "idle", job.at = "cache" => job.call.header # Null,
         requests' = [requests EXCEPT ![w] = job]
  PROVE  /\ JobsRight' /\ requests'[w] = job
         /\ \A v \in Handlers : v # w => requests'[v] = requests[v]
<1>1. /\ requests' \in [Handlers -> RequestJob] /\ requests'[w] = job
      /\ \A v \in Handlers : v # w => requests'[v] = requests[v]
  BY DEF JobsRight
<1> QED
  BY <1>1 DEF JobsRight, CacheHasHeader, CallKnown

(* A request that moves on keeps its call and its order. *)
LEMMA RequestGoes ==
  ASSUME JobsRight, NEW w \in Handlers, NEW place \in RequestPlaces, RequestGo(w, place),
         requests[w].at # "idle", place = "cache" => requests[w].call.header # Null
  PROVE  /\ JobsRight'
         /\ requests'[w].at = place /\ requests'[w].call = requests[w].call
         /\ requests'[w].order = requests[w].order
         /\ \A v \in Handlers : v # w => requests'[v] = requests[v]
<1>1. /\ requests' \in [Handlers -> RequestJob]
      /\ requests'[w].at = place /\ requests'[w].call = requests[w].call
      /\ requests'[w].order = requests[w].order
      /\ \A v \in Handlers : v # w => requests'[v] = requests[v]
  BY DEF JobsRight, RequestGo, RequestJob
<1> QED
  BY <1>1 DEF JobsRight, CacheHasHeader, CallKnown

(* A request that ends leaves the others where they are. *)
LEMMA RequestEnds ==
  ASSUME JobsRight, NEW w \in Handlers, RequestDone(w)
  PROVE  /\ JobsRight' /\ requests'[w].at = "idle"
         /\ \A v \in Handlers : v # w => requests'[v] = requests[v]
<1>1. /\ requests' \in [Handlers -> RequestJob] /\ requests'[w].at = "idle"
      /\ \A v \in Handlers : v # w => requests'[v] = requests[v]
  BY RequestIdleIsJob DEF JobsRight, RequestDone, RequestJob
<1> QED
  BY <1>1 DEF JobsRight, CacheHasHeader, CallKnown

(* A request that has its order, found or inserted, goes on to store it. *)
LEMMA Finds ==
  ASSUME JobsRight, NEW w \in Handlers, NEW o \in OrderIds, requests[w].at # "idle",
         requests' = [requests EXCEPT ![w].at = "store", ![w].order = o]
  PROVE  /\ JobsRight'
         /\ requests'[w].at = "store" /\ requests'[w].order = o
         /\ requests'[w].call = requests[w].call
         /\ \A v \in Handlers : v # w => requests'[v] = requests[v]
<1>1. /\ requests' \in [Handlers -> RequestJob]
      /\ requests'[w].at = "store" /\ requests'[w].order = o /\ requests'[w].call = requests[w].call
      /\ \A v \in Handlers : v # w => requests'[v] = requests[v]
  BY DEF JobsRight, RequestJob, RequestPlaces
<1> QED
  BY <1>1 DEF JobsRight, CacheHasHeader, CallKnown

(* INCR stays within the counter the model keeps. *)
LEMMA Counts ==
  ASSUME RequestTypeOK, NEW k \in ApiKeys
  PROVE  /\ RateLimit \in Nat \ {0} /\ counter[k] \in 0..RateLimit + 1
         /\ (IF counter[k] > RateLimit THEN counter[k] ELSE counter[k] + 1) \in 1..RateLimit + 1
BY RequestAssumption DEF RequestTypeOK

(* A fault is within the bound and leaves its mark. *)
LEMMA RequestFaults ==
  ASSUME RequestTypeOK, RequestFault
  PROVE  errors' \in 0..MaxErrors /\ errors' > 0
BY RequestAssumption DEF RequestTypeOK, RequestFault

(* Every step leaves the state of its type, and a request at a place with *)
(* what it stands for.                                                    *)
LEMMA RequestTyped ==
  RequestIInv /\ [RequestNext]_requestVars => RequestTypeOK' /\ JobsRight'
<1> SUFFICES ASSUME RequestIInv, [RequestNext]_requestVars PROVE RequestTypeOK' /\ JobsRight'
  OBVIOUS
<1> DEFINE Good == RequestTypeOK' /\ JobsRight'
<1>0. RequestTypeOK /\ JobsRight
  BY DEF RequestIInv
<1>a. ASSUME NEW w \in Handlers, requests[w].at # "idle" PROVE requests[w].call \in Calls
  BY <1>0, <1>a DEF JobsRight, CallKnown
<1>1. CASE UNCHANGED requestVars
  BY <1>0, <1>1 DEF requestVars, RequestTypeOK, JobsRight, CacheHasHeader, CallKnown
<1>2. ASSUME NEW w \in Handlers, NEW call \in Calls, Arrive(w, call) PROVE Good
  <2>1. call.api \in ApiKeys
    BY CallParts
  <2> DEFINE count ==
               IF counter[call.api] > RateLimit THEN counter[call.api] ELSE counter[call.api] + 1
             job == [IdleRequest EXCEPT !.at = IF OpensWindow(count) THEN "expire" ELSE "limit",
                                        !.call = call, !.count = count]
  <2>2. count \in 0..RateLimit + 1
    BY <1>0, <2>1, Counts
  <2>3. job \in RequestJob /\ job.at \in {"expire", "limit"} /\ job.call = call
    BY <2>2 DEF RequestJob, IdleRequest, RequestPlaces
  <2>4. requests' = [requests EXCEPT ![w] = job]
    BY <1>2 DEF Arrive
  <2>5. JobsRight'
    <3> HIDE DEF job
    <3> QED BY <1>0, <2>3, <2>4, Begins
  <2>6. counter' \in [ApiKeys -> 0..RateLimit + 1]
    BY <1>0, <1>2, <2>1, <2>2 DEF Arrive, RequestTypeOK
  <2> QED
    BY <1>0, <1>2, <2>5, <2>6 DEF Arrive, RequestTypeOK, RequestJob, JobsRight
<1>3. ASSUME NEW w \in Handlers, NEW call \in Calls, ArriveUncounted(w, call) PROVE Good
  <2> DEFINE job == [IdleRequest EXCEPT !.at = Inside(call), !.call = call]
  <2>1. /\ job \in RequestJob /\ job.at = Inside(call) /\ job.call = call /\ job.at # "idle"
        /\ job.at = "cache" => call.header # Null
    <3>1. Inside(call) \in {"cache", "view"} /\ (Inside(call) = "cache" => call.header # Null)
      BY CallParts
    <3>2. IdleRequest \in RequestJob
      BY RequestIdleIsJob
    <3>3. job \in RequestJob /\ job.at = Inside(call) /\ job.call = call
      BY <3>1, <3>2 DEF RequestJob, RequestPlaces
    <3> HIDE DEF job
    <3> QED
      BY <3>1, <3>3
  <2>2. requests' = [requests EXCEPT ![w] = job]
    BY <1>3 DEF ArriveUncounted
  <2>3. JobsRight'
    <3> HIDE DEF job
    <3> QED BY <1>0, <2>1, <2>2, Begins
  <2> QED
    BY <1>0, <1>3, <2>3, RequestFaults DEF ArriveUncounted, RequestTypeOK, RequestJob, JobsRight
<1>4. ASSUME NEW w \in Handlers, SetExpiry(w) PROVE Good
  <2>1. JobsRight' /\ requests' \in [Handlers -> RequestJob]
    BY <1>0, <1>4, RequestGoes DEF SetExpiry, RequestPlaces, JobsRight
  <2> QED
    <3>1. expires' \in [ApiKeys -> BOOLEAN]
      <4>1. requests[w].call.api \in ApiKeys
        BY <1>4, <1>a, CallParts DEF SetExpiry
      <4>2. (counter[requests[w].call.api] > 0) \in BOOLEAN
        BY <1>0, <4>1, RequestAssumption DEF RequestTypeOK
      <4> QED
        BY <1>0, <1>4, <4>2 DEF SetExpiry, RequestTypeOK
    <3>2. UNCHANGED <<counter, cache, orders, answers, forgotten, errors>>
      BY <1>4 DEF SetExpiry
    <3> QED
      BY <1>0, <2>1, <3>1, <3>2 DEF RequestTypeOK, RequestJob
<1>5. ASSUME NEW w \in Handlers, ApplyLimit(w) PROVE Good
  <2>1. Inside(requests[w].call) \in RequestPlaces
        /\ (Inside(requests[w].call) = "cache" => requests[w].call.header # Null)
    BY <1>5, <1>a, CallParts DEF ApplyLimit, RequestPlaces
  <2>2. JobsRight'
    BY <1>0, <1>5, <2>1, RequestGoes, RequestEnds DEF ApplyLimit
  <2> QED
    BY <1>0, <1>5, <2>2 DEF ApplyLimit, RequestTypeOK, RequestJob, JobsRight
<1>6. ASSUME NEW w \in Handlers, CheckCache(w) PROVE Good
  <2>1. requests[w].call \in Calls /\ requests[w].call.header \in Headers
        /\ requests[w].call.api \in ApiKeys
    BY <1>0, <1>6, <1>a, CallParts DEF CheckCache, JobsRight, CacheHasHeader
  <2>2. cache[requests[w].call.api][requests[w].call.header] \in OrderIds \cup {Null}
    BY <1>0, <2>1 DEF RequestTypeOK
  <2>3. answers' \subseteq [call: Calls, order: OrderIds]
    BY <1>0, <1>6, <2>1, <2>2 DEF CheckCache, Answered, Scope, RequestTypeOK
  <2>4. JobsRight'
    BY <1>0, <1>6, RequestGoes, RequestEnds DEF CheckCache, Answered, RequestPlaces
  <2> QED
    BY <1>0, <1>6, <2>3, <2>4 DEF CheckCache, RequestTypeOK, RequestJob, JobsRight
<1>7. ASSUME NEW w \in Handlers, LookForDuplicate(w) PROVE Good
  <2>1. RequestGo(w, "insert")
        \/ \E o \in OrderIds : requests' = [requests EXCEPT ![w].at = "store", ![w].order = o]
    BY <1>7 DEF LookForDuplicate, Duplicates
  <2>2. JobsRight'
    BY <1>0, <1>7, <2>1, RequestGoes, Finds DEF LookForDuplicate, RequestPlaces
  <2> QED
    BY <1>0, <1>7, <2>2 DEF LookForDuplicate, RequestTypeOK, RequestJob, JobsRight
<1>8. ASSUME NEW w \in Handlers, InsertOrder(w) PROVE Good
  <2>1. PICK o \in OrderIds :
          /\ orders' = [orders EXCEPT ![o] = [merchant |-> Owner[requests[w].call.api],
                                              key |-> requests[w].call.body,
                                                  call |-> requests[w].call]]
          /\ requests' = [requests EXCEPT ![w].at = "store", ![w].order = o]
    BY <1>8 DEF InsertOrder
  <2>2. requests[w].call \in Calls
    BY <1>8, <1>a DEF InsertOrder
  <2>3. orders' \in [OrderIds -> [merchant: {Owner[k] : k \in ApiKeys}, key: BodyKeys \cup {Null},
                                  call: Calls] \cup {NoOrder}]
    BY <1>0, <2>1, <2>2, CallParts DEF RequestTypeOK
  <2>4. JobsRight'
    BY <1>0, <1>8, <2>1, Finds DEF InsertOrder
  <2> QED
    BY <1>0, <1>8, <2>3, <2>4 DEF InsertOrder, RequestTypeOK, RequestJob, JobsRight
<1>9. ASSUME NEW w \in Handlers, StoreResponse(w) PROVE Good
  <2>1. requests[w].call \in Calls /\ requests[w].order \in OrderIds
    BY <1>9, <1>a DEF StoreResponse, RequestIInv, AllServed, Serves
  <2>2. cache' \in [ApiKeys -> [Headers -> OrderIds \cup {Null}]]
    <3>1. CASE cache' = cache
      BY <1>0, <3>1 DEF RequestTypeOK
    <3>2. CASE /\ requests[w].call.header # Null
               /\ cache' =
                    [cache EXCEPT ![requests[w].call.api][requests[w].call.header] = requests[w].order]
      BY <1>0, <2>1, <3>2, CallParts DEF RequestTypeOK
    <3> QED
      BY <1>9, <3>1, <3>2 DEF StoreResponse, Scope
  <2>3. answers' \subseteq [call: Calls, order: OrderIds]
    BY <1>0, <1>9, <2>1 DEF StoreResponse, Answered, RequestTypeOK
  <2>4. JobsRight'
    BY <1>0, <1>9, RequestEnds DEF StoreResponse, Answered
  <2> QED
    BY <1>0, <1>9, <2>2, <2>3, <2>4 DEF StoreResponse, RequestTypeOK, RequestJob, JobsRight
<1>10. ASSUME NEW w \in Handlers, Refuse(w) PROVE Good
  <2>1. JobsRight'
    BY <1>0, <1>10, RequestEnds DEF Refuse
  <2> QED
    BY <1>0, <1>10, <2>1 DEF Refuse, RequestTypeOK, RequestJob, JobsRight
<1>11. ASSUME NEW w \in Handlers, RequestRedisFails(w) PROVE Good
  <2>1. errors' \in 0..MaxErrors
    BY <1>0, <1>11, RequestFaults DEF RequestRedisFails
  <2>2. requests[w].at \in {"expire", "limit"} => /\ Inside(requests[w].call) \in RequestPlaces
                                                  /\ Inside(requests[w].call) = "cache"
                                                      => requests[w].call.header # Null
    BY <1>a, CallParts DEF RequestPlaces
  <2>3. JobsRight'
    BY <1>0, <1>11, <2>2, RequestGoes, RequestEnds DEF RequestRedisFails, Answered
  <2>4. answers' \subseteq [call: Calls, order: OrderIds]
    <3>1. CASE answers' = answers
      BY <1>0, <3>1 DEF RequestTypeOK
    <3>2. CASE requests[w].at = "store"
          /\ answers' = answers \cup {[call |-> requests[w].call, order |-> requests[w].order]}
      <4>1. requests[w].call \in Calls /\ requests[w].order \in OrderIds
        BY <3>2, <1>a DEF RequestIInv, AllServed, Serves
      <4> QED
        BY <1>0, <3>2, <4>1 DEF RequestTypeOK
    <3> QED
      BY <1>11, <3>1, <3>2 DEF RequestRedisFails, Answered
  <2> QED
    BY <1>0, <1>11, <2>1, <2>3, <2>4 DEF RequestRedisFails, RequestTypeOK, RequestJob, JobsRight
<1>12. ASSUME NEW w \in Handlers, RequestKilled(w) PROVE Good
  <2>1. JobsRight' /\ errors' \in 0..MaxErrors
    BY <1>0, <1>12, RequestEnds, RequestFaults DEF RequestKilled
  <2> QED
    BY <1>0, <1>12, <2>1 DEF RequestKilled, RequestTypeOK, RequestJob, JobsRight
<1>13. ASSUME NEW k \in ApiKeys, WindowEnds(k) PROVE Good
  BY <1>0, <1>13, RequestAssumption
     DEF WindowEnds, RequestTypeOK, JobsRight, CacheHasHeader, CallKnown
<1>14. ASSUME NEW k \in ApiKeys, NEW h \in Headers, CachedResponseExpires(k, h) PROVE Good
  BY <1>0, <1>14 DEF CachedResponseExpires, RequestTypeOK, JobsRight, CacheHasHeader, CallKnown
<1> QED
  BY <1>1, <1>2, <1>3, <1>4, <1>5, <1>6, <1>7, <1>8, <1>9, <1>10, <1>11, <1>12, <1>13, <1>14
     DEF RequestNext

-----------------------------------------------------------------------------
(* SameKeySameOrder *)

(* An order that is there stays as it is, and a new one is a request's that *)
(* found its key free.                                                      *)
LEMMA OrdersStay ==
  ASSUME RequestTypeOK, JobsRight, [RequestNext]_requestVars
  PROVE  \/ orders' = orders
         \/ \E w \in Handlers, o \in OrderIds :
              /\ requests[w].at = "insert" /\ requests[w].call \in Calls
              /\ ~KeyTaken(requests[w].call)
              /\ orders[o] = NoOrder /\ orders'[o] # NoOrder
              /\ orders'[o].key = requests[w].call.body /\ orders'[o].call = requests[w].call
              /\ \A p \in OrderIds : p # o => orders'[p] = orders[p]
              /\ requests' = [requests EXCEPT ![w].at = "store", ![w].order = o]
              /\ UNCHANGED <<counter, expires, cache, answers, forgotten, errors>>
<1>1. ASSUME NEW w \in Handlers, InsertOrder(w)
      PROVE  \E o \in OrderIds :
              /\ requests[w].at = "insert" /\ requests[w].call \in Calls
              /\ ~KeyTaken(requests[w].call)
              /\ orders[o] = NoOrder /\ orders'[o] # NoOrder
              /\ orders'[o].key = requests[w].call.body /\ orders'[o].call = requests[w].call
              /\ \A p \in OrderIds : p # o => orders'[p] = orders[p]
              /\ requests' = [requests EXCEPT ![w].at = "store", ![w].order = o]
              /\ UNCHANGED <<counter, expires, cache, answers, forgotten, errors>>
  <2>1. requests[w].call \in Calls
    BY <1>1 DEF InsertOrder, JobsRight, CallKnown
  <2>2. PICK o \in OrderIds :
          /\ orders[o] = NoOrder
          /\ orders' = [orders EXCEPT ![o] = [merchant |-> Owner[requests[w].call.api],
                                              key |-> requests[w].call.body,
                                                  call |-> requests[w].call]]
          /\ requests' = [requests EXCEPT ![w].at = "store", ![w].order = o]
    BY <1>1 DEF InsertOrder
  <2>3. /\ orders'[o] # NoOrder
        /\ orders'[o].key = requests[w].call.body /\ orders'[o].call = requests[w].call
        /\ \A p \in OrderIds : p # o => orders'[p] = orders[p]
    BY <2>1, <2>2, CallParts DEF RequestTypeOK, NoOrder
  <2> QED
    BY <1>1, <2>1, <2>2, <2>3 DEF InsertOrder
<1> QED
  BY <1>1
     DEF RequestNext, requestVars, Arrive, ArriveUncounted, SetExpiry, ApplyLimit, CheckCache,
         LookForDuplicate, StoreResponse, Refuse, RequestRedisFails, RequestKilled, WindowEnds,
         CachedResponseExpires

(* An order that serves a call goes on doing so: orders are only inserted. *)
LEMMA ServesStays ==
  ASSUME RequestTypeOK, JobsRight, [RequestNext]_requestVars, NEW o, NEW call, Serves(o, call)
  PROVE  Serves(o, call)'
<1>1. CASE orders' = orders
  BY <1>1 DEF Serves
<1>2. ASSUME NEW p \in OrderIds, orders[p] = NoOrder, \A q \in OrderIds : q # p
      => orders'[q] = orders[q]
      PROVE  Serves(o, call)'
  BY <1>2 DEF Serves
<1> QED
  BY <1>1, <1>2, OrdersStay

(* The unique idempotency_key stays unique through every INSERT. *)
LEMMA UniqueKept ==
  ASSUME RequestTypeOK, JobsRight, UniqueKeys, [RequestNext]_requestVars
  PROVE  UniqueKeys'
<1>1. CASE orders' = orders
  BY <1>1 DEF UniqueKeys
<1>2. ASSUME NEW w \in Handlers, NEW o \in OrderIds, ~KeyTaken(requests[w].call),
             orders'[o].key = requests[w].call.body,
             \A p \in OrderIds : p # o => orders'[p] = orders[p]
      PROVE  UniqueKeys'
  BY <1>2 DEF UniqueKeys, KeyTaken
<1> QED
  BY <1>1, <1>2, OrdersStay

(* A request finds its order, or inserts it. *)
LEMMA FoundServes ==
  ASSUME RequestTypeOK, JobsRight, [RequestNext]_requestVars, NEW w \in Handlers,
         requests[w].at # "store", requests'[w].at = "store"
  PROVE  Serves(requests[w].order, requests[w].call)'
<1>1. ASSUME NEW v \in Handlers, LookForDuplicate(v)
      PROVE Serves(requests[w].order, requests[w].call)'
  <2>1. CASE RequestGo(v, "insert")
    BY <1>1, <2>1, RequestGoes DEF LookForDuplicate, RequestPlaces
  <2>2. ASSUME NEW o \in Duplicates(requests[v].call),
        requests' = [requests EXCEPT ![v].at = "store", ![v].order = o]
        PROVE  Serves(requests[w].order, requests[w].call)'
    <3>1. /\ requests'[v].at = "store" /\ requests'[v].order = o
          /\ requests'[v].call = requests[v].call
          /\ \A u \in Handlers : u # v => requests'[u] = requests[u]
      <4>1. requests[v].at # "idle"
        BY <1>1 DEF LookForDuplicate
      <4>2. o \in OrderIds
        BY <2>2 DEF Duplicates
      <4> QED
        BY <2>2, <4>1, <4>2, Finds
    <3>2. Serves(o, requests[v].call)
      <4>1. /\ o \in OrderIds /\ requests[v].call.body # Null
            /\ orders[o].key = requests[v].call.body
        BY <2>2 DEF Duplicates
      <4>2. NoOrder.key = Null
        BY DEF NoOrder
      <4> QED
        BY <4>1, <4>2 DEF Serves
    <3>3. v = w
      BY <3>1
    <3>4. UNCHANGED orders
      BY <1>1 DEF LookForDuplicate
    <3> QED
      BY <3>1, <3>2, <3>3, <3>4 DEF Serves
  <2> QED
    BY <1>1, <2>1, <2>2 DEF LookForDuplicate
<1>2. ASSUME NEW v \in Handlers, InsertOrder(v) PROVE Serves(requests[w].order, requests[w].call)'
  <2>1. PICK o \in OrderIds :
          /\ orders[o] = NoOrder
          /\ orders' = [orders EXCEPT ![o] = [merchant |-> Owner[requests[v].call.api],
                                              key |-> requests[v].call.body,
                                                  call |-> requests[v].call]]
          /\ requests' = [requests EXCEPT ![v].at = "store", ![v].order = o]
    BY <1>2 DEF InsertOrder
  <2>2. /\ requests'[v].at = "store" /\ requests'[v].order = o
        /\ requests'[v].call = requests[v].call
        /\ \A u \in Handlers : u # v => requests'[u] = requests[u]
    <3>1. requests[v].at # "idle"
      BY <1>2 DEF InsertOrder
    <3> QED
      BY <2>1, <3>1, Finds
  <2>3. v = w /\ requests[v].call \in Calls
    BY <1>2, <2>2 DEF InsertOrder, JobsRight, CallKnown
  <2>4. orders'[o] # NoOrder /\ orders'[o].key = requests[v].call.body
    BY <2>1, <2>3, CallParts DEF RequestTypeOK, NoOrder
  <2> QED
    BY <2>2, <2>3, <2>4 DEF Serves
<1>3. ASSUME NEW v \in Handlers,
             \/ SetExpiry(v) \/ ApplyLimit(v) \/ CheckCache(v) \/ RequestRedisFails(v)
      PROVE  FALSE
  <2>1. requests[v].at # "idle" => requests[v].call \in Calls
    BY DEF JobsRight, CallKnown
  <2>2. \/ RequestDone(v)
        \/ RequestGo(v, "limit") /\ requests[v].at = "expire"
        \/ RequestGo(v, "view") /\ requests[v].at = "cache"
        \/ RequestGo(v, Inside(requests[v].call)) /\ requests[v].at \in {"expire", "limit"}
    BY <1>3 DEF SetExpiry, ApplyLimit, CheckCache, RequestRedisFails, Answered
  <2>3. requests[v].at \in {"expire", "limit"} =>
          /\ Inside(requests[v].call) \in {"cache", "view"}
          /\ Inside(requests[v].call) = "cache" => requests[v].call.header # Null
    BY <2>1, CallParts
  <2>4. CASE RequestDone(v)
    BY <2>4, RequestEnds
  <2>5. ASSUME NEW place \in {"limit", "cache", "view"}, RequestGo(v, place),
        requests[v].at # "idle",
               place = "cache" => requests[v].call.header # Null
        PROVE  FALSE
    <3>1. place \in RequestPlaces /\ place # "store"
      BY DEF RequestPlaces
    <3> QED
      BY <2>5, <3>1, RequestGoes
  <2> QED
    BY <2>2, <2>3, <2>4, <2>5
<1>4. ASSUME NEW v \in Handlers, StoreResponse(v) \/ Refuse(v) \/ RequestKilled(v) PROVE FALSE
  BY <1>4, RequestEnds DEF StoreResponse, Refuse, RequestKilled, Answered
<1>5. ASSUME NEW v \in Handlers, NEW call \in Calls, Arrive(v, call) \/ ArriveUncounted(v, call)
      PROVE  FALSE
  <2>1. \A u \in Handlers : u # v => requests'[u] = requests[u]
    BY <1>5 DEF Arrive, ArriveUncounted, JobsRight
  <2>2. CASE Arrive(v, call)
    <3>1. requests'[v].at = "expire" \/ requests'[v].at = "limit"
      BY <2>2 DEF Arrive, IdleRequest, JobsRight
    <3> QED
      BY <2>1, <3>1
  <2>3. CASE ArriveUncounted(v, call)
    <3>1. requests'[v].at = Inside(call)
      BY <2>3 DEF ArriveUncounted, IdleRequest, JobsRight
    <3> QED
      BY <2>1, <3>1, CallParts
  <2> QED
    BY <1>5, <2>2, <2>3
<1>6. CASE \/ UNCHANGED requestVars
           \/ \E k \in ApiKeys : WindowEnds(k)
               \/ \E h \in Headers : CachedResponseExpires(k, h)
  BY <1>6 DEF requestVars, WindowEnds, CachedResponseExpires
<1> QED
  BY <1>1, <1>2, <1>3, <1>4, <1>5, <1>6 DEF RequestNext

(* A request that has its order keeps it until it ends. *)
LEMMA StoreOrEnd ==
  ASSUME RequestTypeOK, JobsRight, [RequestNext]_requestVars, NEW w \in Handlers,
      requests[w].at = "store"
  PROVE  requests'[w] = requests[w] \/ requests'[w].at = "idle"
<1>1. ASSUME NEW v \in Handlers, NEW call \in Calls, Arrive(v, call) \/ ArriveUncounted(v, call)
      PROVE  requests'[w] = requests[w]
  BY <1>1 DEF Arrive, ArriveUncounted, IdleRequest, JobsRight
<1>2. ASSUME NEW v \in Handlers,
             \/ SetExpiry(v) \/ ApplyLimit(v) \/ CheckCache(v) \/ LookForDuplicate(v)
             \/ InsertOrder(v) \/ Refuse(v)
      PROVE  requests'[w] = requests[w]
  BY <1>2
     DEF SetExpiry, ApplyLimit, CheckCache, LookForDuplicate, InsertOrder, Refuse, Answered,
         RequestGo, RequestDone, JobsRight
<1>3. ASSUME NEW v \in Handlers, StoreResponse(v) \/ RequestRedisFails(v) \/ RequestKilled(v)
      PROVE  requests'[w] = requests[w] \/ requests'[w].at = "idle"
  BY <1>3
     DEF StoreResponse, RequestRedisFails, RequestKilled, Answered, RequestGo, RequestDone,
         IdleRequest, JobsRight
<1>4. CASE \/ UNCHANGED requestVars
           \/ \E k \in ApiKeys : WindowEnds(k)
               \/ \E h \in Headers : CachedResponseExpires(k, h)
  BY <1>4 DEF requestVars, WindowEnds, CachedResponseExpires
<1> QED
  BY <1>1, <1>2, <1>3, <1>4 DEF RequestNext

(* What the cache answers, and what a request has, is what is answered. *)
LEMMA AnswersServed ==
  ASSUME RequestIInv, [RequestNext]_requestVars, NEW a \in answers'
  PROVE  Serves(a.order, a.call)
<1>0. RequestTypeOK /\ JobsRight /\ AllServed
  BY DEF RequestIInv
<1>1. CASE a \in answers
  BY <1>0, <1>1 DEF AllServed
<1>2. ASSUME NEW w \in Handlers, CheckCache(w), a \notin answers PROVE Serves(a.order, a.call)
  <2> DEFINE call == requests[w].call
             cached == cache[call.api][call.header]
  <2>1. cached # Null /\ a = [call |-> call, order |-> cached]
    BY <1>2 DEF CheckCache, Answered, Scope
  <2>2. call \in Calls /\ call.header \in Headers /\ call.api \in ApiKeys
    BY <1>0, <1>2, CallParts DEF CheckCache, JobsRight, CallKnown, CacheHasHeader
  <2>3. PICK c \in Calls : c.api = call.api /\ c.header = call.header /\ Serves(cached, c)
    BY <1>0, <2>1, <2>2 DEF AllServed
  <2>4. c.body = call.body
    BY <1>0, <1>2, <2>2, <2>3, RequestAssumption DEF CheckCache, JobsRight, CacheHasHeader
  <2> QED
    BY <2>1, <2>3, <2>4 DEF Serves
<1>3. ASSUME NEW w \in Handlers, StoreResponse(w) \/ RequestRedisFails(w), a \notin answers
      PROVE  Serves(a.order, a.call)
  <2>1. requests[w].at = "store" /\ a = [call |-> requests[w].call, order |-> requests[w].order]
    BY <1>3 DEF StoreResponse, RequestRedisFails, Answered
  <2> QED
    BY <1>0, <2>1 DEF AllServed
<1> QED
  BY <1>1, <1>2, <1>3
     DEF RequestNext, requestVars, Arrive, ArriveUncounted, SetExpiry, ApplyLimit,
         LookForDuplicate, InsertOrder, Refuse, RequestKilled, WindowEnds, CachedResponseExpires

(* The order cached for a header serves a call that carries it. *)
LEMMA CacheServed ==
  ASSUME RequestIInv, [RequestNext]_requestVars, NEW k \in ApiKeys, NEW h \in Headers,
      cache'[k][h] # Null
  PROVE  \E c \in Calls : c.api = k /\ c.header = h /\ Serves(cache'[k][h], c)
<1>0. RequestTypeOK /\ JobsRight /\ AllServed
  BY DEF RequestIInv
<1>1. CASE cache'[k][h] = cache[k][h]
  BY <1>0, <1>1 DEF AllServed
<1>2. ASSUME NEW w \in Handlers, StoreResponse(w), cache'[k][h] # cache[k][h]
      PROVE  \E c \in Calls : c.api = k /\ c.header = h /\ Serves(cache'[k][h], c)
  <2>1. requests[w].call \in Calls /\ Serves(requests[w].order, requests[w].call)
    BY <1>0, <1>2 DEF StoreResponse, JobsRight, CallKnown, AllServed
  <2>2. /\ requests[w].call.header # Null
        /\ cache' =
             [cache EXCEPT ![requests[w].call.api][requests[w].call.header] = requests[w].order]
    BY <1>2 DEF StoreResponse, Scope
  <2>3. requests[w].call.api = k /\ requests[w].call.header = h /\ cache'[k][h] = requests[w].order
    BY <1>0, <1>2, <2>1, <2>2, CallParts DEF RequestTypeOK
  <2> QED
    BY <2>1, <2>3
<1>3. ASSUME NEW l \in ApiKeys, NEW g \in Headers, CachedResponseExpires(l, g)
      PROVE  cache'[k][h] = cache[k][h]
  BY <1>0, <1>3 DEF CachedResponseExpires, RequestTypeOK
<1> QED
  BY <1>1, <1>2, <1>3
     DEF RequestNext, requestVars, Arrive, ArriveUncounted, SetExpiry, ApplyLimit, CheckCache,
         LookForDuplicate, InsertOrder, Refuse, RequestRedisFails, RequestKilled, WindowEnds

(* Every step keeps what is stored, cached and answered right for its call. *)
LEMMA ServedKept ==
  RequestIInv /\ [RequestNext]_requestVars => AllServed'
<1> SUFFICES ASSUME RequestIInv, [RequestNext]_requestVars PROVE AllServed'
  OBVIOUS
<1>0. RequestTypeOK /\ JobsRight /\ AllServed
  BY DEF RequestIInv
<1>1. ASSUME NEW a \in answers' PROVE Serves(a.order, a.call)'
  BY <1>0, AnswersServed, ServesStays
<1>2. ASSUME NEW w \in Handlers, requests'[w].at = "store"
      PROVE Serves(requests[w].order, requests[w].call)'
  <2>1. CASE requests[w].at = "store"
    <3>1. requests'[w] = requests[w]
      BY <1>0, <1>2, <2>1, StoreOrEnd
    <3>2. Serves(requests[w].order, requests[w].call)
      BY <1>0, <2>1 DEF AllServed
    <3> DEFINE o == requests[w].order
               call == requests[w].call
    <3>3. \/ orders' = orders
          \/ \E p \in OrderIds : orders[p] = NoOrder
              /\ \A q \in OrderIds : q # p => orders'[q] = orders[q]
      BY <1>0, OrdersStay
    <3> QED
      BY <3>1, <3>2, <3>3 DEF Serves
  <2> QED
    BY <1>0, <1>2, <2>1, FoundServes
<1>3. ASSUME NEW k \in ApiKeys, NEW h \in Headers, cache'[k][h] # Null
      PROVE  \E c \in Calls : c.api = k /\ c.header = h /\ Serves(cache[k][h], c)'
  <2>1. PICK c \in Calls : c.api = k /\ c.header = h /\ Serves(cache'[k][h], c)
    BY <1>3, CacheServed
  <2>2. \/ orders' = orders
        \/ \E p \in OrderIds : orders[p] = NoOrder
            /\ \A q \in OrderIds : q # p => orders'[q] = orders[q]
    BY <1>0, OrdersStay
  <2> QED
    BY <2>1, <2>2 DEF Serves
<1> QED
  BY <1>1, <1>2, <1>3 DEF AllServed

-----------------------------------------------------------------------------
(* CounterWillExpire *)

(* A step counts one fault, or none. *)
LEMMA RequestFaultOrNot == [RequestNext]_requestVars => errors' = errors \/ RequestFault
BY DEF RequestNext, requestVars, Arrive, ArriveUncounted, SetExpiry, ApplyLimit, CheckCache,
       LookForDuplicate, InsertOrder, StoreResponse, Refuse, RequestRedisFails, RequestKilled,
       WindowEnds, CachedResponseExpires

(* Only an INCR makes a counter without a TTL, and its request is at EXPIRE. *)
LEMMA ExpiryKept ==
  RequestIInv /\ [RequestNext]_requestVars => WillExpire'
<1> SUFFICES ASSUME RequestIInv, [RequestNext]_requestVars, NEW k \in ApiKeys, counter'[k] > 0,
                    ~expires'[k],
                    errors' = 0
             PROVE  \E w \in Handlers : requests'[w].at = "expire" /\ requests'[w].call.api = k
  <2>1. RequestIInv /\ [RequestNext]_requestVars => RequestTypeOK'
    BY RequestTyped
  <2>2. RequestTypeOK' => errors' \in Nat
    BY RequestAssumption DEF RequestTypeOK
  <2> QED
    BY <2>1, <2>2 DEF WillExpire
<1>0. RequestTypeOK /\ JobsRight /\ WillExpire
  BY DEF RequestIInv
<1>1. errors = 0 /\ errors' = errors
  <2>1. errors' = errors \/ RequestFault
    BY RequestFaultOrNot
  <2> QED
    BY <1>0, <2>1, RequestFaults
<1>2. ASSUME counter[k] > 0, ~expires[k]
      PROVE  \E w \in Handlers : requests[w].at = "expire" /\ requests[w].call.api = k
  BY <1>0, <1>1, <1>2 DEF WillExpire
(* Who is about to set the expiry is still about to, when another moves. *)
<1>3. ASSUME NEW v \in Handlers, requests[v].at # "expire", counter'[k] = counter[k],
      expires'[k] = expires[k],
             \A u \in Handlers : u # v => requests'[u] = requests[u]
      PROVE  \E w \in Handlers : requests'[w].at = "expire" /\ requests'[w].call.api = k
  BY <1>2, <1>3
<1>4. ASSUME NEW v \in Handlers, NEW call \in Calls, Arrive(v, call)
      PROVE  \E w \in Handlers : requests'[w].at = "expire" /\ requests'[w].call.api = k
  <2>1. requests[v].at = "idle" /\ \A u \in Handlers : u # v => requests'[u] = requests[u]
    BY <1>0, <1>4 DEF Arrive, JobsRight, IdleRequest
  <2>2. expires' = expires
    BY <1>4 DEF Arrive
  <2>3. CASE call.api # k
    BY <1>3, <1>4, <2>1, <2>2, <2>3 DEF Arrive
  <2>4. CASE call.api = k /\ counter[k] = 0
    <3>1. (IF counter[k] > RateLimit THEN counter[k] ELSE counter[k] + 1) = 1
      BY <1>0, <2>4, Counts
    <3>2. requests'[v].at = "expire" /\ requests'[v].call = call
      BY <1>0, <1>4, <2>4, <3>1 DEF Arrive, OpensWindow, JobsRight, IdleRequest
    <3> QED
      BY <2>4, <3>2
  <2>5. CASE call.api = k /\ counter[k] # 0
    <3>1. counter[k] > 0 /\ ~expires[k]
      BY <1>0, <2>2, <2>5, Counts
    <3> QED
      BY <1>2, <2>1, <3>1
  <2> QED
    BY <2>3, <2>4, <2>5
<1>5. ASSUME NEW v \in Handlers, SetExpiry(v)
      PROVE  \E w \in Handlers : requests'[w].at = "expire" /\ requests'[w].call.api = k
  <2>1. /\ counter' = counter /\ requests[v].at = "expire"
        /\ \A u \in Handlers : u # v => requests'[u] = requests[u]
        /\ expires' = [expires EXCEPT ![requests[v].call.api] = counter[requests[v].call.api] > 0]
    BY <1>0, <1>5, RequestGoes DEF SetExpiry, RequestPlaces
  <2>2. requests[v].call.api # k
    BY <1>0, <2>1 DEF RequestTypeOK
  <2>3. ~expires[k]
    BY <1>0, <2>1, <2>2 DEF RequestTypeOK
  <2> QED
    BY <1>2, <2>1, <2>2, <2>3
<1>6. ASSUME NEW v \in Handlers, ApplyLimit(v) \/ CheckCache(v) \/ StoreResponse(v)
      \/ Refuse(v)
      PROVE  \E w \in Handlers : requests'[w].at = "expire" /\ requests'[w].call.api = k
  <2>1. requests[v].at # "expire" /\ UNCHANGED <<counter, expires>>
    BY <1>6 DEF ApplyLimit, CheckCache, StoreResponse, Refuse
  <2>2. \A u \in Handlers : u # v => requests'[u] = requests[u]
    BY <1>0, <1>6
       DEF ApplyLimit, CheckCache, StoreResponse, Refuse, Answered, RequestGo, RequestDone,
           JobsRight
  <2> QED
    BY <1>3, <2>1, <2>2
<1>7. ASSUME NEW v \in Handlers, LookForDuplicate(v) \/ InsertOrder(v)
      PROVE  \E w \in Handlers : requests'[w].at = "expire" /\ requests'[w].call.api = k
  <2>1. requests[v].at # "expire" /\ UNCHANGED <<counter, expires>>
    BY <1>7 DEF LookForDuplicate, InsertOrder
  <2>2. \A u \in Handlers : u # v => requests'[u] = requests[u]
    BY <1>0, <1>7 DEF LookForDuplicate, InsertOrder, RequestGo, JobsRight
  <2> QED
    BY <1>3, <2>1, <2>2
<1>8. ASSUME NEW l \in ApiKeys, WindowEnds(l)
      PROVE  \E w \in Handlers : requests'[w].at = "expire" /\ requests'[w].call.api = k
  <2>1. l # k
    BY <1>0, <1>8 DEF WindowEnds, RequestTypeOK
  <2> QED
    BY <1>0, <1>2, <1>8, <2>1 DEF WindowEnds, RequestTypeOK
<1>9. CASE UNCHANGED requestVars \/ \E l \in ApiKeys, h \in Headers : CachedResponseExpires(l, h)
  BY <1>2, <1>9 DEF requestVars, CachedResponseExpires
<1>10. ASSUME NEW v \in Handlers, RequestFault PROVE FALSE
  BY <1>1, <1>10 DEF RequestFault
<1> QED
  BY <1>4, <1>5, <1>6, <1>7, <1>8, <1>9, <1>10
     DEF RequestNext, ArriveUncounted, RequestRedisFails, RequestKilled

-----------------------------------------------------------------------------
(* DoubleProcessingBounded *)

(* What each is held by somebody of its own is no more than the holders. *)
LEMMA HeldByDistinct ==
  ASSUME NEW W, IsFiniteSet(W), NEW S \in SUBSET W, NEW I \in SUBSET W, S \cap I = {},
         NEW P, NEW held, \A o \in P : \E w \in S : held[w] = o
  PROVE  IsFiniteSet(P) /\ Cardinality(P) + Cardinality(I) <= Cardinality(W)
<1> DEFINE f == [o \in P |-> CHOOSE w \in S : held[w] = o]
<1>1. \A o \in P : f[o] \in S /\ held[f[o]] = o
  OBVIOUS
<1>2. f \in Injection(P, S)
  BY <1>1 DEF Injection, IsInjective
<1>3. IsFiniteSet(S) /\ IsFiniteSet(I) /\ IsFiniteSet(S \cup I)
  BY FS_Subset
<1>4. IsFiniteSet(P) /\ Cardinality(P) <= Cardinality(S)
  BY <1>2, <1>3, FS_Injection
<1>5. Cardinality(S \cup I) = Cardinality(S) + Cardinality(I)
  <2>1. Cardinality(S \cap I) = 0
    BY FS_EmptySet
  <2>2. Cardinality(S \cup I) = Cardinality(S) + Cardinality(I) - Cardinality(S \cap I)
    BY <1>3, FS_Union
  <2> QED
    BY <1>3, <2>1, <2>2, FS_CardinalityType
<1>6. Cardinality(S \cup I) <= Cardinality(W)
  BY FS_Subset
<1> QED
  BY <1>3, <1>4, <1>5, <1>6, FS_CardinalityType

(* What is counted for a call is finite. *)
LEMMA CallSetsFinite ==
  ASSUME NEW call
  PROVE  IsFiniteSet(Placed(call)) /\ IsFiniteSet(Inserting(call)) /\ IsFiniteSet(Handlers)
<1>1. Placed(call) \subseteq OrderIds /\ Inserting(call) \subseteq Handlers
  BY DEF Placed, Inserting
<1> QED
  BY <1>1, FS_Subset, HandlersAndIdsFinite

(* A step after which no more is placed or about to be inserted for the call, *)
(* and what is to be stored still is, or the cache has an answer.             *)
LEMMA QuietlyBounded ==
  ASSUME NEW call, PlacedOnce(call), Placed(call)' = Placed(call),
      Inserting(call)' \subseteq Inserting(call),
         \/ cache'[Scope(call)][call.header] # Null
         \/ /\ cache'[Scope(call)][call.header] = cache[Scope(call)][call.header]
            /\ \A w \in Storing(call) : w \in Storing(call)'
                /\ requests'[w].order = requests[w].order
  PROVE  PlacedOnce(call)'
<1>1. cache'[Scope(call)][call.header] = Null =>
        \A o \in Placed(call)' : \E w \in Storing(call)' : requests'[w].order = o
  BY DEF PlacedOnce, Scope
<1>2. IsFiniteSet(Placed(call)) /\ IsFiniteSet(Inserting(call)) /\ IsFiniteSet(Handlers)
  BY CallSetsFinite
<1>3. Inserting(call)' \in SUBSET Inserting(call)
  OBVIOUS
<1>4. IsFiniteSet(Inserting(call)') /\ Cardinality(Inserting(call)') <= Cardinality(Inserting(call))
  BY <1>2, <1>3, FS_Subset
<1>5. Cardinality(Placed(call)') + Cardinality(Inserting(call)') <= Cardinality(Handlers)
  BY <1>2, <1>4, FS_CardinalityType DEF PlacedOnce
<1> QED
  BY <1>1, <1>5 DEF PlacedOnce, Scope

(* The step of a request that stores nothing and comes no nearer to placing *)
(* an order for the call.                                                   *)
LEMMA MovesQuietly ==
  ASSUME NEW call, PlacedOnce(call), NEW v \in Handlers,
         UNCHANGED <<orders, cache>>,
         \A u \in Handlers : u # v => requests'[u] = requests[u],
         v \notin Storing(call), v \in Inserting(call)' => v \in Inserting(call)
  PROVE  PlacedOnce(call)'
<1>1. Placed(call)' = Placed(call)
  BY DEF Placed
<1>2. Inserting(call)' \subseteq Inserting(call)
  BY DEF Inserting
<1>3. \A w \in Storing(call) : w \in Storing(call)' /\ requests'[w].order = requests[w].order
  BY DEF Storing
<1> QED
  BY <1>1, <1>2, <1>3, QuietlyBounded

(* Every step keeps the orders of a call within the requests at work on it. *)
LEMMA BoundedKept ==
  RequestIInv /\ [RequestNext]_requestVars => Bounded'
<1> SUFFICES ASSUME RequestIInv, [RequestNext]_requestVars, ~forgotten', errors' = 0,
                    NEW call \in Calls, call.header # Null
             PROVE  PlacedOnce(call)'
  BY DEF Bounded
<1>0. RequestTypeOK /\ JobsRight /\ AllServed
  BY DEF RequestIInv
<1>1. ~forgotten /\ errors = 0 /\ ~RequestFault
  <2>1. errors' = errors /\ ~RequestFault
    BY <1>0, RequestFaultOrNot, RequestFaults
  <2>2. forgotten' = forgotten \/ forgotten' = TRUE
    BY DEF RequestNext, requestVars, Arrive, ArriveUncounted, SetExpiry, ApplyLimit, CheckCache,
           LookForDuplicate, InsertOrder, StoreResponse, Refuse, RequestRedisFails, RequestKilled,
           WindowEnds, CachedResponseExpires
  <2> QED
    BY <2>1, <2>2
<1>2. PlacedOnce(call)
  BY <1>1 DEF RequestIInv, Bounded
<1>3. ASSUME NEW v \in Handlers, NEW c \in Calls, Arrive(v, c) PROVE PlacedOnce(call)'
  <2>1. requests[v].at = "idle" /\ requests'[v].at \in {"expire", "limit"}
        /\ \A u \in Handlers : u # v => requests'[u] = requests[u]
    BY <1>0, <1>3 DEF Arrive, JobsRight, IdleRequest
  <2>2. v \notin Storing(call) /\ v \notin Inserting(call)' /\ UNCHANGED <<orders, cache>>
    BY <1>3, <2>1 DEF Storing, Inserting, Arrive
  <2> QED
    BY <1>2, <2>1, <2>2, MovesQuietly
<1>4. ASSUME NEW v \in Handlers, SetExpiry(v) PROVE PlacedOnce(call)'
  <2>1. requests[v].at = "expire" /\ requests'[v].at = "limit"
        /\ \A u \in Handlers : u # v => requests'[u] = requests[u]
    BY <1>0, <1>4, RequestGoes DEF SetExpiry, RequestPlaces
  <2>2. v \notin Storing(call) /\ v \notin Inserting(call)' /\ UNCHANGED <<orders, cache>>
    BY <1>4, <2>1 DEF Storing, Inserting, SetExpiry
  <2> QED
    BY <1>2, <2>1, <2>2, MovesQuietly
<1>5. ASSUME NEW v \in Handlers, ApplyLimit(v) PROVE PlacedOnce(call)'
  <2>1. requests[v].at = "limit" /\ requests[v].call \in Calls
    BY <1>0, <1>5 DEF ApplyLimit, JobsRight, CallKnown
  <2>2. /\ \/ requests'[v].at = "idle"
           \/ requests'[v].call = requests[v].call /\ requests'[v].at = Inside(requests[v].call)
        /\ \A u \in Handlers : u # v => requests'[u] = requests[u]
    BY <1>0, <1>5, <2>1, RequestGoes, RequestEnds, CallParts DEF ApplyLimit, RequestPlaces
  <2>3. v \notin Storing(call) /\ v \notin Inserting(call)' /\ UNCHANGED <<orders, cache>>
    BY <1>5, <2>1, <2>2 DEF Storing, Inserting, ApplyLimit, Inside
  <2> QED
    BY <1>2, <2>2, <2>3, MovesQuietly
<1>6. ASSUME NEW v \in Handlers, CheckCache(v) PROVE PlacedOnce(call)'
  <2>1. requests[v].at = "cache" /\ UNCHANGED <<orders, cache>>
    BY <1>6 DEF CheckCache
  <2>2. CASE RequestDone(v) \/ (RequestGo(v, "view") /\ requests[v].call # call)
    <3>1. /\ requests'[v].at = "idle" \/ requests'[v].call # call
          /\ \A u \in Handlers : u # v => requests'[u] = requests[u]
      BY <1>0, <2>1, <2>2, RequestGoes, RequestEnds DEF RequestPlaces
    <3>2. v \notin Storing(call) /\ v \notin Inserting(call)'
      BY <2>1, <3>1 DEF Storing, Inserting
    <3> QED
      BY <1>2, <2>1, <3>1, <3>2, MovesQuietly
  <2>3. CASE RequestGo(v, "view") /\ requests[v].call = call
        /\ cache[Scope(call)][call.header] = Null
    <3>1. requests'[v].at = "view" /\ \A u \in Handlers : u # v => requests'[u] = requests[u]
      BY <1>0, <2>1, <2>3, RequestGoes DEF RequestPlaces
    <3>2. \A o \in Placed(call)' : \E w \in Storing(call)' : requests'[w].order = o
      BY <1>2, <2>1, <2>3, <3>1 DEF PlacedOnce, Placed, Storing
    <3> DEFINE held == [w \in Handlers |-> requests'[w].order]
    <3>3. \A o \in Placed(call)' : \E w \in Storing(call)' : held[w] = o
      BY <3>2 DEF Storing
    <3>4. /\ Storing(call)' \in SUBSET Handlers /\ Inserting(call)' \in SUBSET Handlers
          /\ Storing(call)' \cap Inserting(call)' = {}
      BY DEF Storing, Inserting
    <3>5. Cardinality(Placed(call)') + Cardinality(Inserting(call)') <= Cardinality(Handlers)
      <4> HIDE DEF held
      <4> QED BY <3>3, <3>4, HeldByDistinct, HandlersAndIdsFinite
    <3> QED
      BY <3>2, <3>5 DEF PlacedOnce
  <2> QED
    BY <1>6, <2>2, <2>3 DEF CheckCache, Answered
<1>7. ASSUME NEW v \in Handlers, LookForDuplicate(v) PROVE PlacedOnce(call)'
  <2>1. requests[v].at = "view" /\ UNCHANGED <<orders, cache>>
    BY <1>7 DEF LookForDuplicate
  <2>2. RequestGo(v, "insert")
        \/ \E o \in OrderIds : requests' = [requests EXCEPT ![v].at = "store", ![v].order = o]
    BY <1>7 DEF LookForDuplicate, Duplicates
  <2>3. requests'[v].call = requests[v].call
        /\ \A u \in Handlers : u # v => requests'[u] = requests[u]
    BY <1>0, <2>1, <2>2, RequestGoes, Finds DEF RequestPlaces
  <2>4. v \notin Storing(call) /\ (v \in Inserting(call)' => v \in Inserting(call))
    BY <2>1, <2>3 DEF Storing, Inserting
  <2> QED
    BY <1>2, <2>1, <2>3, <2>4, MovesQuietly
<1>8. ASSUME NEW v \in Handlers, NEW o \in OrderIds, requests[v].at = "insert",
      orders[o] = NoOrder,
             orders'[o].call = requests[v].call, \A p \in OrderIds : p # o
                 => orders'[p] = orders[p],
             requests' = [requests EXCEPT ![v].at = "store", ![v].order = o], cache' = cache
      PROVE  PlacedOnce(call)'
  <2>1. /\ requests'[v].at = "store" /\ requests'[v].order = o
        /\ requests'[v].call = requests[v].call
        /\ \A u \in Handlers : u # v => requests'[u] = requests[u]
    BY <1>0, <1>8, Finds
  <2>2. o \notin Placed(call)
    BY <1>8, CallParts DEF Placed, NoOrder
  <2>3. CASE requests[v].call # call
    <3>1. Placed(call)' = Placed(call)
      BY <1>8, <2>2, <2>3 DEF Placed
    <3>2. Inserting(call)' \subseteq Inserting(call)
      BY <2>1, <2>3 DEF Inserting
    <3>3. \A w \in Storing(call) : w \in Storing(call)' /\ requests'[w].order = requests[w].order
      BY <2>1, <2>3 DEF Storing
    <3> QED
      BY <1>2, <1>8, <3>1, <3>2, <3>3, QuietlyBounded
  <2>4. CASE requests[v].call = call
    <3>1. Placed(call)' = Placed(call) \cup {o} /\ Inserting(call)' = Inserting(call) \ {v}
      <4>1. ASSUME NEW p \in OrderIds PROVE p \in Placed(call)' <=> p \in Placed(call) \/ p = o
        BY <1>8, <2>4 DEF Placed
      <4>2. Placed(call) \subseteq OrderIds /\ Placed(call)' \subseteq OrderIds
        BY DEF Placed
      <4>3. Placed(call)' = Placed(call) \cup {o}
        BY <1>8, <4>1, <4>2
      <4>4. Inserting(call)' = Inserting(call) \ {v}
        BY <2>1, <2>4 DEF Inserting
      <4> QED
        BY <4>3, <4>4
    <3>2. v \in Inserting(call)
      BY <1>8, <2>4 DEF Inserting
    <3>3. v \in Inserting(call) /\ IsFiniteSet(Placed(call)) /\ IsFiniteSet(Inserting(call))
      BY <3>2, CallSetsFinite
    <3>4. /\ Cardinality(Placed(call) \cup {o}) = Cardinality(Placed(call)) + 1
          /\ Cardinality(Inserting(call) \ {v}) = Cardinality(Inserting(call)) - 1
      BY <2>2, <3>3, FS_AddElement, FS_RemoveElement
    <3>5. Cardinality(Placed(call)') + Cardinality(Inserting(call)') <= Cardinality(Handlers)
      BY <1>2, <3>1, <3>3, <3>4, FS_CardinalityType, HandlersAndIdsFinite DEF PlacedOnce
    <3>6. cache'[Scope(call)][call.header] = Null =>
            \A p \in Placed(call)' : \E w \in Storing(call)' : requests'[w].order = p
      <4>1. v \in Storing(call)' /\ \A w \in Storing(call) : w \in Storing(call)'
            /\ requests'[w].order = requests[w].order
        BY <1>8, <2>1, <2>4 DEF Storing
      <4>2. ASSUME cache[Scope(call)][call.header] = Null, NEW p \in Placed(call)
            PROVE  \E w \in Storing(call)' : requests'[w].order = p
        <5>1. PICK w \in Storing(call) : requests[w].order = p
          BY <1>2, <4>2 DEF PlacedOnce
        <5> QED
          BY <4>1, <5>1
      <4>3. cache'[Scope(call)][call.header] = cache[Scope(call)][call.header]
        BY <1>8 DEF Scope
      <4> QED
        BY <2>1, <3>1, <4>1, <4>2, <4>3
    <3> QED
      BY <3>5, <3>6 DEF PlacedOnce, Scope
  <2> QED
    BY <2>3, <2>4
<1>9. ASSUME NEW v \in Handlers, StoreResponse(v) PROVE PlacedOnce(call)'
  <2>1. /\ requests[v].at = "store" /\ requests[v].call \in Calls /\ requests[v].order \in OrderIds
        /\ UNCHANGED orders
    BY <1>0, <1>9 DEF StoreResponse, JobsRight, CallKnown, AllServed, Serves
  <2>2. requests'[v].at = "idle" /\ \A u \in Handlers : u # v => requests'[u] = requests[u]
    BY <1>0, <1>9, RequestEnds DEF StoreResponse, Answered
  <2>3. Placed(call)' = Placed(call) /\ Inserting(call)' \subseteq Inserting(call)
    BY <2>1, <2>2 DEF Placed, Inserting
  <2>4. \/ cache' = cache /\ requests[v].call.header = Null
        \/ cache' =
             [cache EXCEPT ![requests[v].call.api][requests[v].call.header] = requests[v].order]
    BY <1>9 DEF StoreResponse, Scope, Cacheable
  <2>5. call.api \in ApiKeys /\ call.header \in Headers /\ requests[v].order # Null
    BY <2>1, CallParts, RequestAssumption
  <2>6. CASE requests[v].call = call
    <3>1. cache'[call.api][call.header] # Null
      BY <1>0, <2>4, <2>5, <2>6 DEF RequestTypeOK
    <3> QED
      BY <1>2, <2>3, <3>1, QuietlyBounded DEF Scope
  <2>7. CASE requests[v].call # call
    <3>1. \A w \in Storing(call) : w \in Storing(call)' /\ requests'[w].order = requests[w].order
      BY <2>2, <2>7 DEF Storing
    <3>2. \/ cache'[call.api][call.header] # Null
          \/ cache'[call.api][call.header] = cache[call.api][call.header]
      BY <1>0, <2>4, <2>5 DEF RequestTypeOK
    <3> QED
      BY <1>2, <2>3, <3>1, <3>2, QuietlyBounded DEF Scope
  <2> QED
    BY <2>6, <2>7
<1>10. ASSUME NEW v \in Handlers, Refuse(v) PROVE PlacedOnce(call)'
  <2>1. requests'[v].at = "idle" /\ \A u \in Handlers : u # v => requests'[u] = requests[u]
    BY <1>0, <1>10, RequestEnds DEF Refuse
  <2>2. v \notin Storing(call) /\ v \notin Inserting(call)' /\ UNCHANGED <<orders, cache>>
    BY <1>10, <2>1 DEF Storing, Inserting, Refuse
  <2> QED
    BY <1>2, <2>1, <2>2, MovesQuietly
<1>11. CASE UNCHANGED <<orders, cache, requests>>
  BY <1>2, <1>11 DEF PlacedOnce, Placed, Inserting, Storing, Scope
<1>12. ASSUME NEW k \in ApiKeys, NEW h \in Headers, CachedResponseExpires(k, h) PROVE FALSE
  BY <1>12 DEF CachedResponseExpires
<1>13. ASSUME NEW v \in Handlers, InsertOrder(v) PROVE PlacedOnce(call)'
  <2>1. requests[v].at = "insert" /\ requests[v].call \in Calls /\ cache' = cache
    BY <1>0, <1>13 DEF InsertOrder, JobsRight, CallKnown
  <2>2. PICK o \in OrderIds :
          /\ orders[o] = NoOrder
          /\ orders' = [orders EXCEPT ![o] = [merchant |-> Owner[requests[v].call.api],
                                              key |-> requests[v].call.body,
                                                  call |-> requests[v].call]]
          /\ requests' = [requests EXCEPT ![v].at = "store", ![v].order = o]
    BY <1>13 DEF InsertOrder
  <2>3. orders'[o].call = requests[v].call /\ \A p \in OrderIds : p # o => orders'[p] = orders[p]
    BY <1>0, <2>2 DEF RequestTypeOK
  <2> QED
    BY <1>8, <2>1, <2>2, <2>3
<1> QED
  BY <1>1, <1>3, <1>4, <1>5, <1>6, <1>7, <1>9, <1>10, <1>11, <1>12, <1>13
     DEF RequestNext, requestVars, ArriveUncounted, RequestRedisFails, RequestKilled, WindowEnds

-----------------------------------------------------------------------------
(* Nothing is there to begin with. *)
LEMMA RequestStart ==
  RequestInit => RequestIInv
<1> SUFFICES ASSUME RequestInit PROVE RequestIInv
  OBVIOUS
<1>1. RequestTypeOK
  <2>1. counter \in [ApiKeys -> 0..RateLimit + 1] /\ 0 \in 0..MaxErrors
    BY RequestAssumption DEF RequestInit
  <2>2. cache \in [ApiKeys -> [Headers -> OrderIds \cup {Null}]]
    BY DEF RequestInit
  <2>3. requests \in [Handlers -> RequestJob]
    BY RequestIdleIsJob DEF RequestInit
  <2> QED
    BY <2>1, <2>2, <2>3 DEF RequestInit, RequestTypeOK, RequestJob
<1>2. JobsRight
  BY <1>1, RequestIdleIsJob
     DEF RequestInit, RequestTypeOK, JobsRight, RequestJob, CacheHasHeader, CallKnown
<1>3. UniqueKeys
  BY DEF RequestInit, UniqueKeys, NoOrder
<1>4. AllServed
  <2>1. answers = {} /\ \A w \in Handlers : requests[w].at # "store"
    BY DEF RequestInit, IdleRequest
  <2>2. \A k \in ApiKeys, h \in Headers : cache[k][h] = Null
    BY DEF RequestInit
  <2> QED
    BY <2>1, <2>2 DEF AllServed
<1>5. WillExpire
  BY DEF RequestInit, WillExpire
<1>6. Bounded
  <2> SUFFICES ASSUME NEW call \in Calls PROVE PlacedOnce(call)
    BY DEF Bounded
  <2>1. Placed(call) = {} /\ Inserting(call) = {}
    BY CallParts DEF RequestInit, Placed, Inserting, NoOrder, IdleRequest
  <2>2. Cardinality({}) = 0 /\ Cardinality(Handlers) \in Nat
    BY FS_EmptySet, FS_CardinalityType, HandlersAndIdsFinite
  <2> QED
    BY <2>1, <2>2 DEF PlacedOnce
<1> QED
  BY <1>1, <1>2, <1>3, <1>4, <1>5, <1>6 DEF RequestIInv

(* Every step keeps every part of the invariant. *)
LEMMA RequestStep ==
  RequestIInv /\ [RequestNext]_requestVars => RequestIInv'
BY RequestTyped, UniqueKept, ServedKept, ExpiryKept, BoundedKept DEF RequestIInv

(* The invariant of the requests holds of every behaviour. *)
LEMMA RequestAlways ==
  RequestSpec => []RequestIInv
BY RequestStart, RequestStep, PTL DEF RequestSpec

(* A counter is never left without a TTL by the interleaving of INCR and    *)
(* EXPIRE alone, and the state keeps its type: for any clients and limit    *)
(* (APIKeyRateLimitMiddleware).                                             *)
THEOREM CounterWillExpireCorrect ==
  RequestSpec => []CounterWillExpire
<1>1. RequestIInv => CounterWillExpire
  BY DEF RequestIInv, WillExpire, CounterWillExpire
<1> QED
  BY <1>1, RequestAlways, PTL

(* A merchant that repeats an idempotency_key is always shown the same      *)
(* order, for any calls, overlaps, faults and expiries of the cache.        *)
THEOREM SameKeySameOrderCorrect ==
  RequestSpec => []SameKeySameOrder
<1>1. RequestIInv => SameKeySameOrder
  BY DEF RequestIInv, AllServed, UniqueKeys, Serves, SameKeySameOrder
<1> QED
  BY <1>1, RequestAlways, PTL

(* A header without a body key creates at most one order per worker, as     *)
(* long as its answer stays cached, for any number of handlers.             *)
THEOREM DoubleProcessingCorrect ==
  RequestSpec => []DoubleProcessingBounded
<1>1. RequestIInv => DoubleProcessingBounded
  <2> SUFFICES ASSUME RequestIInv, NEW call \in Calls, PlacedOnce(call)
               PROVE  Cardinality(Placed(call)) <= Cardinality(Handlers)
    BY DEF RequestIInv, Bounded, DoubleProcessingBounded, Placed
  <2>1. IsFiniteSet(Placed(call)) /\ IsFiniteSet(Inserting(call)) /\ IsFiniteSet(Handlers)
    BY CallSetsFinite
  <2> QED
    BY <2>1, FS_CardinalityType DEF PlacedOnce
<1> QED
  BY <1>1, RequestAlways, PTL

=============================================================================
