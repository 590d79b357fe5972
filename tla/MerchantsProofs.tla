-------------------------- MODULE MerchantsProofs ---------------------------
(***************************************************************************)
(* Theorems about merchants: their registration and the accounts it makes, *)
(* and, in the second part, their onboarding: KYC, activation and the live *)
(* key; for any numbers of requests, addresses, keys, documents, bank      *)
(* accounts and faults.                                                    *)
(***************************************************************************)
EXTENDS Accounts, Onboarding, FiniteSums, FiniteSetTheorems, TLAPS

(* The account of an address has all its parts. *)
Completed(e) == Taken(users[e]) /\ Taken(merchants[e]) /\ KeysOf(e) > 0

(* How far a registration has come, it has made its rows, and under its own *)
(* client's name.                                                           *)
Placed(w) ==
  LET e == jobs[w].email IN
  /\ jobs[w].at # "idle" => e \in Addresses
  /\ jobs[w].at \in {"merchant", "key", "mail"} => Taken(users[e]) /\ users[e].by = w
  /\ jobs[w].at \in {"key", "mail"} => Taken(merchants[e]) /\ merchants[e].by = w
  /\ jobs[w].at = "mail" => KeysOf(e) > 0

Told(e) == answered[e] # None =>
  users[e].by = answered[e] /\ merchants[e].by = answered[e] /\ KeysOf(e) > 0

(* The way from the mail to the active user is open to complete accounts only. *)
Invited(e) ==
  /\ \A m \in mails : m.task = "verification" /\ m.to = e => Completed(e)
  /\ links[e] # "none" => Completed(e)
  /\ users[e].state = "active" => Completed(e)

(* The requests that got past the check of their key. *)
Inside(e) == {w \in Workers : jobs[w].email = e /\ jobs[w].at \in {"touch", "newkey"}}

(* Each of them makes one late key at most, and none before the suspension. *)
Late(e) ==
  /\ KeysOf(e) <= MaxKeys
  /\ late[e] <= KeysOf(e)
  /\ merchants[e].state # "suspended" => late[e] = 0
  /\ late[e] + Cardinality(Inside(e)) <= Cardinality(Workers)

IInv ==
  /\ TypeOK
  /\ \A w \in Workers : Placed(w)
  /\ \A e \in Addresses : Told(e) /\ Invited(e) /\ Late(e)
  /\ HalfAccountOnlyByFault

-----------------------------------------------------------------------------
(* The constants, the rows and the requests. *)

(* The bounds, the finitely many clients, and None, which is neither. *)
LEMMA Limits ==
  /\ MaxKeys \in Nat /\ MaxKeys > 0 /\ MaxRetries \in Nat /\ MaxBounces \in Nat /\ MaxFaults \in Nat
  /\ IsFiniteSet(Workers) /\ None \notin Workers /\ None \notin Addresses
BY AccountAssumption

Job == [at: Places, email: Addresses \cup {None}]
JobsTyped == jobs \in [Workers -> Job]

(* The type invariant types the requests. *)
LEMMA JobsOfType == TypeOK => JobsTyped
BY DEF TypeOK, JobsTyped, Job

(* The places by name. *)
LEMMA PlacesAre ==
  {"idle", "user", "merchant", "key", "mail", "login", "page", "touch", "newkey"} \subseteq Places
BY DEF Places

(* A request that does nothing is at no address. *)
LEMMA IdleIsJob == IdleJob \in Job /\ IdleJob.at = "idle" /\ IdleJob.email = None
BY DEF IdleJob, Job, Places

(* A row is taken when it has a client, and only then. *)
LEMMA UserRows ==
  ASSUME NEW row \in UserRow
  PROVE  /\ Taken(row) => row \in [state: {"inactive", "active"}, by: Workers]
         /\ ~Taken(row) => row = NoRow
         /\ row.by # None => Taken(row)
BY Limits DEF UserRow, NoRow, Taken

(* The same of merchants. *)
LEMMA MerchantRows ==
  ASSUME NEW row \in MerchantRow
  PROVE  /\ Taken(row) => row \in [state: {"active", "suspended"}, by: Workers]
         /\ ~Taken(row) => row = NoRow
         /\ row.by # None => Taken(row)
BY Limits DEF MerchantRow, NoRow, Taken

(* A request that moves on stays at its address. *)
LEMMA Goes ==
  ASSUME JobsTyped, NEW v \in Workers, NEW place \in Places, Go(v, place)
  PROVE  /\ JobsTyped' /\ jobs'[v].at = place /\ jobs'[v].email = jobs[v].email
         /\ \A u \in Workers : u # v => jobs'[u] = jobs[u]
BY DEF JobsTyped, Go, Job

(* A request that ends leaves the others where they are. *)
LEMMA Ends ==
  ASSUME JobsTyped, NEW v \in Workers, Done(v)
  PROVE  /\ JobsTyped' /\ jobs'[v] = IdleJob
         /\ \A u \in Workers : u # v => jobs'[u] = jobs[u]
BY IdleIsJob DEF JobsTyped, Done

(* A request begins at an address, the others staying where they are. *)
LEMMA Begins ==
  ASSUME JobsTyped, NEW v \in Workers, NEW e \in Addresses, NEW place \in Places, Begin(v, e, place)
  PROVE  /\ JobsTyped' /\ jobs[v] = IdleJob /\ jobs'[v].at = place /\ jobs'[v].email = e
         /\ \A u \in Workers : u # v => jobs'[u] = jobs[u]
BY DEF JobsTyped, Begin, Job, IdleJob

(* A fault is within the bound and leaves its mark. *)
LEMMA Faults ==
  ASSUME TypeOK, Fault
  PROVE  faults' \in 0..MaxFaults /\ faults' > 0
BY Limits DEF TypeOK, Fault

(* What is read off the invariant of a request that works on an address. *)
LEMMA Working ==
  ASSUME IInv, NEW v \in Workers, jobs[v].at # "idle"
  PROVE  /\ JobsTyped /\ TypeOK /\ Placed(v) /\ jobs[v].email \in Addresses
         /\ users[jobs[v].email] \in UserRow /\ merchants[jobs[v].email] \in MerchantRow
         /\ keys[jobs[v].email] \in Keys
BY JobsOfType DEF IInv, Placed, TypeOK

-----------------------------------------------------------------------------
(* No step takes a part of an account away, or gives it to another client. *)

Rows == <<users, merchants, keys>>

Stay(e) ==
  /\ Taken(users[e]) => Taken(users'[e]) /\ users'[e].by = users[e].by
  /\ Taken(merchants[e]) => Taken(merchants'[e]) /\ merchants'[e].by = merchants[e].by
  /\ KeysOf(e)' >= KeysOf(e)

(* The two counts of keys. *)
LEMMA KeysAreNumbers ==
  ASSUME NEW k \in Keys
  PROVE  /\ k.active \in 0..MaxKeys /\ k.disabled \in 0..MaxKeys
         /\ k.active \in Nat /\ k.disabled \in Nat
BY Limits DEF Keys

(* A step that writes no row keeps all of them. *)
LEMMA RowsStay ==
  ASSUME TypeOK, UNCHANGED Rows
  PROVE  /\ users' \in [Addresses -> UserRow] /\ merchants' \in [Addresses -> MerchantRow]
         /\ keys' \in [Addresses -> Keys] /\ \A e \in Addresses : Stay(e)
<1>1. users' = users /\ merchants' = merchants /\ keys' = keys
  BY DEF Rows
<1>2. \A e \in Addresses : KeysOf(e)' = KeysOf(e) /\ KeysOf(e) \in Nat
  BY <1>1, KeysAreNumbers DEF KeysOf, TypeOK
<1> QED
  BY <1>1, <1>2 DEF TypeOK, Stay

RowsKept == /\ users' \in [Addresses -> UserRow] /\ merchants' \in [Addresses -> MerchantRow]
            /\ keys' \in [Addresses -> Keys] /\ \A e \in Addresses : Stay(e)

(* A user that is inserted, or updated under its own client. *)
LEMMA UsersGrow ==
  ASSUME TypeOK, NEW e \in Addresses, NEW row \in UserRow, Taken(row),
         Taken(users[e]) => row.by = users[e].by,
         users' = [users EXCEPT ![e] = row], merchants' = merchants, keys' = keys
  PROVE  RowsKept
<1>1. users' \in [Addresses -> UserRow] /\ users'[e] = row
      /\ \A f \in Addresses : f # e => users'[f] = users[f]
  BY DEF TypeOK
<1>2. \A f \in Addresses : KeysOf(f)' = KeysOf(f) /\ KeysOf(f) \in Nat
  BY KeysAreNumbers DEF KeysOf, TypeOK
<1> QED
  BY <1>1, <1>2 DEF RowsKept, TypeOK, Stay

(* A merchant that is inserted, or updated under its own client. *)
LEMMA MerchantsGrow ==
  ASSUME TypeOK, NEW e \in Addresses, NEW row \in MerchantRow, Taken(row),
         Taken(merchants[e]) => row.by = merchants[e].by,
         merchants' = [merchants EXCEPT ![e] = row], users' = users, keys' = keys
  PROVE  RowsKept
<1>1. merchants' \in [Addresses -> MerchantRow] /\ merchants'[e] = row
        /\ \A f \in Addresses : f # e => merchants'[f] = merchants[f]
  BY DEF TypeOK
<1>2. \A f \in Addresses : KeysOf(f)' = KeysOf(f) /\ KeysOf(f) \in Nat
  BY KeysAreNumbers DEF KeysOf, TypeOK
<1> QED
  BY <1>1, <1>2 DEF RowsKept, TypeOK, Stay

(* The keys of one merchant change and become no fewer. *)
LEMMA KeysGrow ==
  ASSUME TypeOK, NEW e \in Addresses, NEW row \in Keys,
         row.active + row.disabled >= KeysOf(e),
         keys' = [keys EXCEPT ![e] = row], users' = users, merchants' = merchants
  PROVE  /\ RowsKept /\ KeysOf(e)' = row.active + row.disabled
         /\ \A f \in Addresses : f # e => KeysOf(f)' = KeysOf(f)
<1>1. keys' \in [Addresses -> Keys] /\ keys'[e] = row
      /\ \A f \in Addresses : f # e => keys'[f] = keys[f]
  BY DEF TypeOK
<1>2. \A f \in Addresses : KeysOf(f) \in Nat
  BY KeysAreNumbers DEF KeysOf, TypeOK
<1>3. KeysOf(e)' = row.active + row.disabled /\ \A f \in Addresses : f # e => KeysOf(f)' = KeysOf(f)
  BY <1>1 DEF KeysOf
<1>4. \A f \in Addresses : KeysOf(f)' >= KeysOf(f)
  BY <1>2, <1>3
<1> QED
  BY <1>1, <1>3, <1>4 DEF RowsKept, TypeOK, Stay

(* One more key, under the bound. *)
LEMMA KeyInserted ==
  ASSUME TypeOK, NEW e \in Addresses, InsertKey(e), users' = users, merchants' = merchants
  PROVE  /\ RowsKept /\ KeysOf(e)' = KeysOf(e) + 1 /\ KeysOf(e)' <= MaxKeys /\ KeysOf(e) \in Nat
         /\ \A f \in Addresses : f # e => KeysOf(f)' = KeysOf(f)
<1> DEFINE row == [keys[e] EXCEPT !.active = keys[e].active + 1]
<1>1. keys[e] \in Keys /\ KeysOf(e) < MaxKeys
  BY DEF TypeOK, InsertKey
<1>2. row \in Keys /\ row.active = keys[e].active + 1 /\ row.disabled = keys[e].disabled
      /\ KeysOf(e) \in Nat
  BY <1>1, Limits DEF Keys, KeysOf
<1>3. keys' = [keys EXCEPT ![e] = row]
  BY DEF InsertKey
<1>4. row.active + row.disabled = KeysOf(e) + 1 /\ row.active + row.disabled >= KeysOf(e)
  BY <1>1, <1>2, KeysAreNumbers DEF KeysOf
<1> HIDE DEF row
<1>5. /\ RowsKept /\ KeysOf(e)' = KeysOf(e) + 1
      /\ \A f \in Addresses : f # e => KeysOf(f)' = KeysOf(f)
  BY <1>2, <1>3, <1>4, KeysGrow
<1> QED
  BY <1>1, <1>2, <1>5, Limits

(* A user name is taken once. *)
LEMMA CreateUserRows ==
  ASSUME IInv, NEW v \in Workers, CreateUser(v)
  PROVE  RowsKept
<1> DEFINE e == jobs[v].email
<1>1. TypeOK /\ e \in Addresses /\ merchants' = merchants /\ keys' = keys
  BY Working DEF CreateUser
<1>2. CASE users' = users
  BY <1>1, <1>2, RowsStay DEF RowsKept, Rows
<1>3. CASE users' # users
  <2>1. ~Taken(users[e]) /\ users' = [users EXCEPT ![e] = NewUser(v)]
    BY <1>3 DEF CreateUser, UserNameFree
  <2>2. NewUser(v) \in UserRow /\ Taken(NewUser(v))
    BY DEF NewUser, UserRow, Taken
  <2> HIDE DEF e
  <2> QED
    BY <1>1, <2>1, <2>2, UsersGrow
<1> QED
  BY <1>2, <1>3

(* The address of a merchant is taken once. *)
LEMMA CreateMerchantRows ==
  ASSUME IInv, NEW v \in Workers, CreateMerchant(v)
  PROVE  RowsKept
<1> DEFINE e == jobs[v].email
           row == [state |-> "active", by |-> v]
<1>1. TypeOK /\ e \in Addresses /\ users' = users /\ keys' = keys
  BY Working DEF CreateMerchant
<1>2. CASE merchants' = merchants
  BY <1>1, <1>2, RowsStay DEF RowsKept, Rows
<1>3. CASE merchants' # merchants
  <2>1. ~Taken(merchants[e]) /\ merchants' = [merchants EXCEPT ![e] = row]
    BY <1>3 DEF CreateMerchant
  <2>2. row \in MerchantRow /\ Taken(row)
    BY DEF MerchantRow, Taken
  <2> HIDE DEF e, row
  <2> QED
    BY <1>1, <2>1, <2>2, MerchantsGrow
<1> QED
  BY <1>2, <1>3

(* Disabling a key and enabling it again changes no count. *)
LEMMA SetKeyActiveRows ==
  ASSUME IInv, NEW e \in Addresses, NEW active \in BOOLEAN, SetKeyActive(e, active)
  PROVE  RowsKept /\ \A f \in Addresses : KeysOf(f)' = KeysOf(f)
<1> DEFINE row == IF active THEN [active |-> keys[e].active + 1, disabled |-> keys[e].disabled - 1]
                            ELSE [active |-> keys[e].active - 1, disabled |-> keys[e].disabled + 1]
<1>1. /\ TypeOK /\ users' = users /\ merchants' = merchants
      /\ keys[e] \in Keys /\ KeysOf(e) <= MaxKeys
      /\ IF active THEN keys[e].disabled > 0 ELSE keys[e].active > 0
  BY DEF IInv, TypeOK, SetKeyActive, Late
<1>2. keys' = [keys EXCEPT ![e] = row]
  BY DEF SetKeyActive
<1>3. /\ row.active \in 0..MaxKeys /\ row.disabled \in 0..MaxKeys
      /\ row.active + row.disabled = KeysOf(e) /\ row.active + row.disabled >= KeysOf(e)
  BY <1>1, KeysAreNumbers, Limits DEF KeysOf
<1>4. row \in Keys
  BY <1>3 DEF Keys
<1> HIDE DEF row
<1> QED
  BY <1>1, <1>2, <1>3, <1>4, KeysGrow

(* Suspending a merchant leaves it its client. *)
LEMMA SetSuspendedRows ==
  ASSUME IInv, NEW e \in Addresses, NEW suspended \in BOOLEAN, SetSuspended(e, suspended)
  PROVE  RowsKept
<1> DEFINE state == IF suspended THEN "suspended" ELSE "active"
           row == [merchants[e] EXCEPT !.state = state]
<1>1. /\ TypeOK /\ users' = users /\ keys' = keys /\ merchants' = [merchants EXCEPT ![e] = row]
      /\ Taken(merchants[e]) /\ merchants[e] \in MerchantRow
  BY DEF IInv, SetSuspended, TypeOK
<1>2. merchants[e] \in [state: {"active", "suspended"}, by: Workers]
  BY <1>1, MerchantRows
<1>3. row \in MerchantRow /\ Taken(row) /\ row.by = merchants[e].by
  BY <1>2 DEF MerchantRow, Taken
<1> HIDE DEF row
<1> QED
  BY <1>1, <1>3, MerchantsGrow

(* A link is only out for an account with a user. *)
LEMMA VerifyEmailRows ==
  ASSUME IInv, NEW e \in Addresses, VerifyEmail(e)
  PROVE  RowsKept
<1> DEFINE row == [users[e] EXCEPT !.state = "active"]
<1>1. /\ TypeOK /\ merchants' = merchants /\ keys' = keys /\ users' = [users EXCEPT ![e] = row]
      /\ Taken(users[e]) /\ users[e] \in UserRow
  BY DEF IInv, VerifyEmail, TypeOK, Invited, Completed
<1>2. users[e] \in [state: {"inactive", "active"}, by: Workers]
  BY <1>1, UserRows
<1>3. row \in UserRow /\ Taken(row) /\ row.by = users[e].by
  BY <1>2 DEF UserRow, Taken
<1> HIDE DEF row
<1> QED
  BY <1>1, <1>3, UsersGrow

(* The steps that write rows. *)
LEMMA RowsChange ==
  [Next]_vars =>
    \/ UNCHANGED Rows
    \/ \E v \in Workers : CreateUser(v) \/ CreateMerchant(v) \/ CreateFirstKey(v) \/ GenerateKey(v)
    \/ \E e \in Addresses : VerifyEmail(e)
    \/ \E e \in Addresses, b \in BOOLEAN : SetKeyActive(e, b) \/ SetSuspended(e, b)
BY DEF Next, Work, vars, Rows, Register, QueueVerification, QueueFails, SendMail, MailFails,
       Discard, WorkerKilled, QueueKycMail, LinkExpires, Authenticate, Login, DashboardLogin,
       OpenDashboard, ValidateKey, TouchKey, Killed, NoKeyLeft

(* Every step keeps the rows that are there, and their clients. *)
LEMMA RowsAreKept ==
  ASSUME IInv, [Next]_vars
  PROVE  RowsKept
<1>1. CASE UNCHANGED Rows
  BY <1>1, RowsStay DEF IInv, RowsKept
<1>2. ASSUME NEW v \in Workers, CreateFirstKey(v) PROVE RowsKept
  <2>1. TypeOK /\ jobs[v].email \in Addresses
    BY <1>2, Working DEF CreateFirstKey
  <2> QED
    BY <1>2, <2>1, KeyInserted DEF CreateFirstKey
<1>3. ASSUME NEW v \in Workers, GenerateKey(v) PROVE RowsKept
  <2>1. TypeOK /\ jobs[v].email \in Addresses
    BY <1>3, Working DEF GenerateKey
  <2> QED
    BY <1>3, <2>1, KeyInserted DEF GenerateKey
<1> QED
  BY <1>1, <1>2, <1>3, RowsChange, CreateUserRows, CreateMerchantRows, SetKeyActiveRows,
     SetSuspendedRows, VerifyEmailRows

-----------------------------------------------------------------------------
(* The requests: what a registration has made stays made while it goes on. *)

PlacedKept == JobsTyped' /\ \A w \in Workers : Placed(w)'

(* Who does not move keeps what it has made. *)
LEMMA StaysPlaced ==
  ASSUME IInv, RowsKept, NEW u \in Workers, jobs'[u] = jobs[u]
  PROVE  Placed(u)'
<1>1. /\ Placed(u) /\ TypeOK
      /\ users' \in [Addresses -> UserRow] /\ merchants' \in [Addresses -> MerchantRow]
  BY DEF IInv, RowsKept
<1>2. CASE jobs[u].at = "idle"
  BY <1>2 DEF Placed
<1>3. CASE jobs[u].at # "idle"
  <2>1. PICK e \in Addresses : e = jobs[u].email
    BY <1>1, <1>3 DEF Placed
  <2>2. KeysOf(e) \in Nat /\ KeysOf(e)' \in Nat /\ Stay(e)
    BY <1>1, KeysAreNumbers DEF KeysOf, TypeOK, RowsKept
  <2>3. KeysOf(e) > 0 => KeysOf(e)' > 0
    BY <2>2 DEF Stay
  <2>4. KeysOf(e)' = keys'[e].active + keys'[e].disabled
    BY DEF KeysOf
  <2> QED
    BY <1>1, <2>1, <2>2, <2>3, <2>4 DEF Placed, Stay, KeysOf
<1> QED
  BY <1>2, <1>3

(* When one request moves rightly, all requests stay right. *)
LEMMA OthersPlaced ==
  ASSUME IInv, RowsKept, NEW v \in Workers, JobsTyped', Placed(v)',
         \A u \in Workers : u # v => jobs'[u] = jobs[u]
  PROVE  PlacedKept
BY StaysPlaced DEF PlacedKept

(* A request that ends has nothing to keep. *)
LEMMA EndedPlaced ==
  ASSUME IInv, RowsKept, NEW v \in Workers, Done(v)
  PROVE  PlacedKept
<1>1. JobsTyped
  BY JobsOfType DEF IInv
<1>2. Placed(v)'
  BY <1>1, Ends, IdleIsJob DEF Placed
<1> QED
  BY <1>1, <1>2, Ends, OthersPlaced

(* A request that begins has made nothing yet. *)
LEMMA BegunPlaced ==
  ASSUME IInv, RowsKept, NEW v \in Workers, NEW e \in Addresses,
         NEW place \in {"user", "login", "page", "touch"}, Begin(v, e, place)
  PROVE  PlacedKept
<1>1. JobsTyped /\ place \in Places
  BY JobsOfType, PlacesAre DEF IInv
<1>2. Placed(v)'
  BY <1>1, Begins DEF Placed
<1> QED
  BY <1>1, <1>2, Begins, OthersPlaced

(* create_user: the row is the request's own, or it ends. *)
LEMMA CreateUserPlaced ==
  ASSUME IInv, RowsKept, NEW v \in Workers, CreateUser(v)
  PROVE  PlacedKept
<1> DEFINE e == jobs[v].email
<1>1. TypeOK /\ JobsTyped /\ e \in Addresses
  BY Working DEF CreateUser
<1>2. CASE ~UserNameFree(e)
  BY <1>2, EndedPlaced DEF CreateUser
<1>3. CASE UserNameFree(e)
  <2>1. users' = [users EXCEPT ![e] = NewUser(v)] /\ Go(v, "merchant")
    BY <1>3 DEF CreateUser, UserNameFree
  <2>2. /\ JobsTyped' /\ jobs'[v].at = "merchant" /\ jobs'[v].email = e
        /\ \A u \in Workers : u # v => jobs'[u] = jobs[u]
    BY <1>1, <2>1, Goes, PlacesAre
  <2>3. users'[e] = NewUser(v)
    BY <1>1, <2>1 DEF TypeOK
  <2>4. Placed(v)'
    BY <1>1, <2>2, <2>3 DEF Placed, NewUser, Taken
  <2> QED
    BY <2>2, <2>4, OthersPlaced
<1> QED
  BY <1>2, <1>3

(* The merchant is the request's own, or it ends. *)
LEMMA CreateMerchantPlaced ==
  ASSUME IInv, RowsKept, NEW v \in Workers, CreateMerchant(v)
  PROVE  PlacedKept
<1> DEFINE e == jobs[v].email
<1>1. TypeOK /\ JobsTyped /\ e \in Addresses /\ Placed(v) /\ jobs[v].at = "merchant"
      /\ users' = users
  BY Working DEF CreateMerchant
<1>2. CASE Taken(merchants[e])
  BY <1>2, EndedPlaced DEF CreateMerchant
<1>3. CASE ~Taken(merchants[e])
  <2>1. merchants' = [merchants EXCEPT ![e] = [state |-> "active", by |-> v]] /\ Go(v, "key")
    BY <1>3 DEF CreateMerchant
  <2>2. /\ JobsTyped' /\ jobs'[v].at = "key" /\ jobs'[v].email = e
        /\ \A u \in Workers : u # v => jobs'[u] = jobs[u]
    BY <1>1, <2>1, Goes, PlacesAre
  <2>3. merchants'[e] = [state |-> "active", by |-> v]
    BY <1>1, <2>1 DEF TypeOK
  <2>4. Placed(v)'
    BY <1>1, <2>2, <2>3 DEF Placed, Taken
  <2> QED
    BY <2>2, <2>4, OthersPlaced
<1> QED
  BY <1>2, <1>3

(* With the first key the account is complete. *)
LEMMA CreateFirstKeyPlaced ==
  ASSUME IInv, RowsKept, NEW v \in Workers, CreateFirstKey(v)
  PROVE  PlacedKept
<1>1. PICK e \in Addresses : e = jobs[v].email
  BY Working DEF CreateFirstKey
<1>2. /\ TypeOK /\ JobsTyped /\ Placed(v) /\ jobs[v].at = "key"
      /\ users' = users /\ merchants' = merchants /\ Go(v, "mail") /\ InsertKey(e)
  BY <1>1, Working DEF CreateFirstKey
<1>3. /\ JobsTyped' /\ jobs'[v].at = "mail" /\ jobs'[v].email = e
      /\ \A u \in Workers : u # v => jobs'[u] = jobs[u]
  BY <1>1, <1>2, Goes, PlacesAre
<1>4. keys'[e].active + keys'[e].disabled > 0
  <2>1. KeysOf(e)' = KeysOf(e) + 1 /\ KeysOf(e) \in Nat
    BY <1>2, KeyInserted
  <2>2. KeysOf(e)' > 0
    BY <2>1
  <2> QED
    BY <2>2 DEF KeysOf
<1>5. Placed(v)'
  BY <1>1, <1>2, <1>3, <1>4 DEF Placed, KeysOf
<1> QED
  BY <1>3, <1>5, OthersPlaced

(* An authenticated request goes on to make a key, or ends. *)
LEMMA TouchKeyPlaced ==
  ASSUME IInv, RowsKept, NEW v \in Workers, TouchKey(v)
  PROVE  PlacedKept
<1>1. CASE Done(v)
  BY <1>1, EndedPlaced
<1>2. CASE Go(v, "newkey")
  <2>1. JobsTyped /\ jobs[v].email \in Addresses
    BY Working DEF TouchKey
  <2>2. /\ JobsTyped' /\ jobs'[v].at = "newkey" /\ jobs'[v].email = jobs[v].email
        /\ \A u \in Workers : u # v => jobs'[u] = jobs[u]
    BY <1>2, <2>1, Goes, PlacesAre
  <2>3. Placed(v)'
    BY <2>1, <2>2 DEF Placed
  <2> QED
    BY <2>2, <2>3, OthersPlaced
<1> QED
  BY <1>1, <1>2 DEF TouchKey

(* How a step can move a request. *)
LEMMA JobsChange ==
  [Next]_vars =>
    \/ jobs' = jobs
    \/ \E v \in Workers :
         \/ Done(v)
         \/ \E e \in Addresses, place \in {"user", "login", "page"} : Begin(v, e, place)
         \/ \E e \in Addresses : ValidateKey(v, e)
         \/ CreateUser(v) \/ CreateMerchant(v) \/ CreateFirstKey(v) \/ TouchKey(v)
BY DEF Next, Work, vars, Register, QueueVerification, QueueFails, Answer, SendMail, MailFails,
       Discard, WorkerKilled, QueueKycMail, LinkExpires, Authenticate, Login, DashboardLogin,
       OpenDashboard, GenerateKey, Killed, NoKeyLeft, VerifyEmail, SetKeyActive, SetSuspended

(* Every step keeps every request and what it has made. *)
LEMMA AllPlaced ==
  ASSUME IInv, [Next]_vars
  PROVE  PlacedKept
<1>1. RowsKept
  BY RowsAreKept
<1>2. CASE jobs' = jobs
  <2>1. JobsTyped'
    BY <1>2, JobsOfType DEF IInv, JobsTyped
  <2> QED
    BY <1>1, <1>2, <2>1, StaysPlaced DEF PlacedKept
<1> QED
  BY <1>1, <1>2, JobsChange, EndedPlaced, BegunPlaced, CreateUserPlaced, CreateMerchantPlaced,
     CreateFirstKeyPlaced, TouchKeyPlaced DEF ValidateKey

-----------------------------------------------------------------------------
(* The mails, the links and the answers. *)

(* Only a registration at its mail answers. *)
LEMMA AnswersChange ==
  [Next]_vars => answered' = answered \/ \E v \in Workers : jobs[v].at = "mail" /\ Answer(v)
BY DEF Next, Work, vars, Register, CreateUser, CreateMerchant, CreateFirstKey, QueueVerification,
       QueueFails, SendMail, MailFails, Discard, WorkerKilled, QueueKycMail, LinkExpires,
       Authenticate, Login, DashboardLogin, OpenDashboard, ValidateKey, TouchKey, GenerateKey,
       Killed, NoKeyLeft, VerifyEmail, SetKeyActive, SetSuspended

(* An account that is complete stays complete. *)
LEMMA CompleteStays ==
  ASSUME IInv, RowsKept, NEW e \in Addresses
  PROVE  /\ KeysOf(e) \in Nat /\ KeysOf(e)' \in Nat
         /\ KeysOf(e) > 0 => KeysOf(e)' > 0
         /\ Completed(e) => Completed(e)'
<1>1. KeysOf(e) \in Nat /\ KeysOf(e)' \in Nat
  BY KeysAreNumbers DEF IInv, TypeOK, RowsKept, KeysOf
<1>2. Stay(e)
  BY DEF RowsKept
<1>3. KeysOf(e) > 0 => KeysOf(e)' > 0
  BY <1>1, <1>2 DEF Stay
<1> QED
  BY <1>1, <1>2, <1>3 DEF Stay, Completed

(* Who is told so has the whole account. *)
LEMMA ToldKept ==
  ASSUME IInv, [Next]_vars, NEW e \in Addresses
  PROVE  Told(e)' /\ answered' \in [Addresses -> Workers \cup {None}]
<1>1. RowsKept /\ TypeOK /\ users[e] \in UserRow /\ merchants[e] \in MerchantRow /\ Told(e)
  BY RowsAreKept DEF IInv, TypeOK
<1>2. ASSUME answered'[e] = answered[e] PROVE Told(e)'
  <2>1. Stay(e)
    BY <1>1 DEF RowsKept
  <2>2. answered[e] # None => Taken(users[e]) /\ Taken(merchants[e])
    BY <1>1, UserRows, MerchantRows DEF Told
  <2> QED
    BY <1>1, <1>2, <2>1, <2>2, CompleteStays DEF Told, Stay
<1>3. ASSUME NEW v \in Workers, jobs[v].at = "mail", Answer(v)
      PROVE  Told(e)' /\ answered' \in [Addresses -> Workers \cup {None}]
  <2>1. PICK f \in Addresses : f = jobs[v].email
    BY <1>3, Working
  <2>2. answered' = [answered EXCEPT ![f] = v]
    BY <1>3, <2>1 DEF Answer
  <2>3. answered' \in [Addresses -> Workers \cup {None}] /\ answered'[f] = v
          /\ (f # e => answered'[e] = answered[e])
    BY <1>1, <2>2 DEF TypeOK
  <2>4. CASE f = e
    <3>1. Taken(users[e]) /\ users[e].by = v /\ Taken(merchants[e]) /\ merchants[e].by = v
      BY <1>3, <2>1, <2>4, Working DEF Placed
    <3>2. KeysOf(e) > 0
      BY <1>3, <2>1, <2>4, Working DEF Placed, KeysOf
    <3>3. KeysOf(e)' > 0
      BY <1>1, <3>2, CompleteStays
    <3>4. Stay(e)
      BY <1>1 DEF RowsKept
    <3> QED
      BY <2>3, <2>4, <3>1, <3>3, <3>4 DEF Told, Stay
  <2> QED
    BY <1>2, <2>3, <2>4
<1>4. CASE answered' = answered
  BY <1>1, <1>2, <1>4 DEF TypeOK
<1> QED
  BY <1>3, <1>4, AnswersChange

(* What is in the queue after a step was in it before, perhaps with a retry *)
(* less, or was queued by it.                                               *)
LEMMA MailsChange ==
  [Next]_vars =>
    \/ mails' \subseteq mails
    \/ \E m \in mails : m.retries < MaxRetries
        /\ mails' = (mails \ {m}) \cup {[m EXCEPT !.retries = @ + 1]}
    \/ \E e \in Addresses : mails' = Queued("kyc", e)
    \/ \E v \in Workers : jobs[v].at = "mail" /\ mails' = Queued("verification", jobs[v].email)
<1> SUFFICES ASSUME [Next]_vars
             PROVE  \/ mails' \subseteq mails
                    \/ \E m \in mails : /\ m.retries < MaxRetries
                                        /\ mails' = (mails \ {m})
                                            \cup {[m EXCEPT !.retries = @ + 1]}
                    \/ \E e \in Addresses : mails' = Queued("kyc", e)
                    \/ \E v \in Workers : jobs[v].at = "mail"
                        /\ mails' = Queued("verification", jobs[v].email)
  OBVIOUS
<1>1. ASSUME NEW m \in mails, MailFails(m)
      PROVE  \/ mails' \subseteq mails
             \/ m.retries < MaxRetries /\ mails' = (mails \ {m}) \cup {[m EXCEPT !.retries = @ + 1]}
  BY <1>1 DEF MailFails, MayRetry
<1>2. CASE \E v \in Workers : QueueVerification(v)
  BY <1>2 DEF QueueVerification
<1>3. CASE \E e \in Addresses : QueueKycMail(e)
  BY <1>3 DEF QueueKycMail
<1>4. CASE \E m \in mails : SendMail(m) \/ Discard(m) \/ WorkerKilled(m)
  BY <1>4 DEF SendMail, Discard, WorkerKilled
<1>5. CASE mails' = mails
  BY <1>5
<1>6. \/ mails' = mails
      \/ \E v \in Workers : QueueVerification(v)
      \/ \E e \in Addresses : QueueKycMail(e)
      \/ \E m \in mails : SendMail(m) \/ MailFails(m) \/ Discard(m) \/ WorkerKilled(m)
  BY DEF Next, Work, vars, Register, CreateUser, CreateMerchant, CreateFirstKey, QueueFails,
         LinkExpires, Authenticate, Login, DashboardLogin, OpenDashboard, ValidateKey, TouchKey,
         GenerateKey, Killed, NoKeyLeft, VerifyEmail, SetKeyActive, SetSuspended
<1> QED
  BY <1>1, <1>2, <1>3, <1>4, <1>5, <1>6

(* A verification mail was queued before, or is by a complete registration. *)
LEMMA MailsKept ==
  ASSUME IInv, [Next]_vars
  PROVE  /\ mails' \subseteq Mail
         /\ \A m \in mails' : m.task = "verification" =>
              \/ \E n \in mails : n.task = "verification" /\ n.to = m.to
              \/ \E v \in Workers : jobs[v].at = "mail" /\ jobs[v].email = m.to
<1>1. mails \subseteq Mail
  BY DEF IInv, TypeOK
<1>2. CASE mails' \subseteq mails
  BY <1>1, <1>2
<1>3. ASSUME NEW m \in mails, m.retries < MaxRetries,
             mails' = (mails \ {m}) \cup {[m EXCEPT !.retries = @ + 1]}
      PROVE  /\ mails' \subseteq Mail
             /\ \A n \in mails' : \E o \in mails : o.task = n.task /\ o.to = n.to
  <2> DEFINE again == [m EXCEPT !.retries = @ + 1]
  <2>1. again \in Mail /\ again.task = m.task /\ again.to = m.to
    BY <1>1, <1>3, Limits DEF Mail
  <2> HIDE DEF again
  <2>2. mails' = (mails \ {m}) \cup {again}
    BY <1>3 DEF again
  <2> QED
    BY <1>1, <2>1, <2>2
<1>4. ASSUME NEW task \in {"kyc", "verification"}, NEW e \in Addresses, mails' = Queued(task, e)
      PROVE  /\ mails' \subseteq Mail
             /\ \A n \in mails' : n \in mails \/ (n.task = task /\ n.to = e)
  BY <1>1, <1>4, Limits DEF Queued, Mail
<1>5. ASSUME NEW v \in Workers, jobs[v].at = "mail", mails' = Queued("verification", jobs[v].email)
      PROVE  /\ mails' \subseteq Mail
             /\ \A n \in mails' : n \in mails \/ n.to = jobs[v].email
  <2>1. PICK e \in Addresses : e = jobs[v].email
    BY <1>5, Working
  <2> QED
    BY <1>4, <1>5, <2>1
<1> QED
  BY <1>2, <1>3, <1>4, <1>5, MailsChange

(* A link comes with a verification mail, and ends with its day. *)
LEMMA LinksChange ==
  [Next]_vars =>
    \/ links' = links
    \/ \E m \in mails : m.task = "verification" /\ links' = [links EXCEPT ![m.to] = "valid"]
    \/ \E e \in Addresses : links[e] = "valid" /\ links' = [links EXCEPT ![e] = "expired"]
BY DEF Next, Work, vars, Register, CreateUser, CreateMerchant, CreateFirstKey, QueueVerification,
       Answer, QueueFails, SendMail, Registered, MailFails, Discard, WorkerKilled, QueueKycMail,
       LinkExpires, Authenticate, Login, DashboardLogin, OpenDashboard, ValidateKey, TouchKey,
       GenerateKey, Killed, NoKeyLeft, VerifyEmail, SetKeyActive, SetSuspended

(* Whoever has a link has a complete account. *)
LEMMA LinksKept ==
  ASSUME IInv, [Next]_vars
  PROVE  /\ links' \in [Addresses -> {"none", "valid", "expired"}]
         /\ \A e \in Addresses : links'[e] # "none" => Completed(e)
<1>1. /\ links \in [Addresses -> {"none", "valid", "expired"}]
      /\ \A e \in Addresses : links[e] # "none" => Completed(e)
  BY DEF IInv, TypeOK, Invited
<1>2. CASE links' = links
  BY <1>1, <1>2
<1>3. ASSUME NEW m \in mails, m.task = "verification", links' = [links EXCEPT ![m.to] = "valid"]
      PROVE  /\ links' \in [Addresses -> {"none", "valid", "expired"}]
             /\ \A e \in Addresses : links'[e] # "none" => Completed(e)
  <2>1. m.to \in Addresses
    BY DEF IInv, TypeOK, Mail
  <2>2. Completed(m.to)
    BY <1>3, <2>1 DEF IInv, Invited
  <2> QED
    BY <1>1, <1>3, <2>1, <2>2
<1>4. ASSUME NEW e \in Addresses, links[e] = "valid", links' = [links EXCEPT ![e] = "expired"]
      PROVE  /\ links' \in [Addresses -> {"none", "valid", "expired"}]
             /\ \A f \in Addresses : links'[f] # "none" => Completed(f)
  BY <1>1, <1>4
<1> QED
  BY <1>2, <1>3, <1>4, LinksChange

(* Users are written by registrations and verifications. *)
LEMMA UsersChange ==
  [Next]_vars => users' = users \/ (\E v \in Workers : CreateUser(v))
      \/ \E e \in Addresses : VerifyEmail(e)
BY DEF Next, Work, vars, Register, CreateMerchant, CreateFirstKey, QueueVerification, QueueFails,
       SendMail, MailFails, Discard, WorkerKilled, QueueKycMail, LinkExpires, Authenticate, Login,
       DashboardLogin, OpenDashboard, ValidateKey, TouchKey, GenerateKey, Killed, NoKeyLeft,
       SetKeyActive, SetSuspended

(* Only the link makes a user active. *)
LEMMA ActivesKept ==
  ASSUME IInv, [Next]_vars, NEW e \in Addresses, users'[e].state = "active"
  PROVE  Completed(e)
<1>1. TypeOK /\ Invited(e)
  BY DEF IInv
<1>2. CASE users' = users
  BY <1>1, <1>2 DEF Invited
<1>3. ASSUME NEW v \in Workers, CreateUser(v) PROVE users'[e] = users[e] \/ users'[e] = NewUser(v)
  BY <1>1, <1>3 DEF CreateUser, TypeOK
<1>4. ASSUME NEW f \in Addresses, VerifyEmail(f) PROVE users'[e] = users[e] \/ links[e] = "valid"
  BY <1>1, <1>4 DEF VerifyEmail, TypeOK
<1>5. \A v \in Workers : NewUser(v).state # "active"
  BY DEF NewUser
<1> QED
  BY <1>1, <1>2, <1>3, <1>4, <1>5, UsersChange DEF Invited

(* Every step leaves mails, links and active users to complete accounts. *)
LEMMA InvitedKept ==
  ASSUME IInv, [Next]_vars, NEW e \in Addresses
  PROVE  Invited(e)'
<1>1. RowsKept /\ Invited(e)
  BY RowsAreKept DEF IInv
<1>2. Completed(e) => Completed(e)'
  BY <1>1, CompleteStays
<1>3. ASSUME NEW v \in Workers, jobs[v].at = "mail", jobs[v].email = e PROVE Completed(e)
  BY <1>3, Working DEF Placed, Completed, KeysOf
<1>4. \A m \in mails' : m.task = "verification" /\ m.to = e => Completed(e)
  BY <1>1, <1>3, MailsKept DEF Invited
<1>5. users'[e].state = "active" => Completed(e)
  BY ActivesKept
<1>6. links'[e] # "none" => Completed(e)
  BY LinksKept
<1> QED
  BY <1>2, <1>4, <1>5, <1>6 DEF Invited

-----------------------------------------------------------------------------
(* A registration that goes on has only its own next step, or a fault. *)

(* Without a fault a registration between two INSERTs makes its next step. *)
LEMMA GoesOn ==
  ASSUME IInv, [Next]_vars, ~Fault, NEW w \in Workers, jobs[w].at \in {"merchant", "key"}
  PROVE  jobs'[w] = jobs[w] \/ CreateMerchant(w) \/ CreateFirstKey(w) \/ NoKeyLeft(w)
<1>1. JobsTyped /\ jobs[w] # IdleJob
  BY Working, IdleIsJob
<1> DEFINE Mine(v) ==
      \/ \E e \in Addresses :
           \/ \E asTyped \in {"small", "capitals"} : Register(v, e, asTyped)
           \/ Authenticate(v, e) \/ DashboardLogin(v, e) \/ ValidateKey(v, e)
      \/ Work(v) \/ QueueFails(v) \/ Killed(v)
<1>2. jobs' = jobs \/ \E v \in Workers : Mine(v)
  BY DEF Next, vars, SendMail, MailFails, Discard, WorkerKilled, QueueKycMail, VerifyEmail,
         LinkExpires, SetKeyActive, SetSuspended
<1>3. ASSUME NEW v \in Workers, v # w, Mine(v) PROVE jobs'[w] = jobs[w]
  BY <1>1, <1>3
     DEF Register, Authenticate, DashboardLogin, ValidateKey, Begin, Work, CreateUser,
         CreateMerchant, CreateFirstKey, QueueVerification, Answer, Login, OpenDashboard,
         TouchKey, GenerateKey, NoKeyLeft, QueueFails, Killed, Go, Done, JobsTyped
<1>4. CASE Mine(w)
  <2>1. Work(w)
    BY <1>1, <1>4
       DEF Register, Authenticate, DashboardLogin, ValidateKey, Begin, QueueFails, Killed
  <2> QED
    BY <2>1 DEF Work, CreateUser, QueueVerification, Login, OpenDashboard, TouchKey, GenerateKey
<1> HIDE DEF Mine
<1> QED
  BY <1>2, <1>3, <1>4

(* Merchants are written by registrations and administrators. *)
LEMMA MerchantsChange ==
  [Next]_vars =>
    \/ merchants' = merchants
    \/ \E v \in Workers : CreateMerchant(v)
    \/ \E e \in Addresses, b \in BOOLEAN : SetSuspended(e, b)
BY DEF Next, Work, vars, Register, CreateUser, CreateFirstKey, QueueVerification, QueueFails,
       SendMail, MailFails, Discard, WorkerKilled, QueueKycMail, LinkExpires, Authenticate, Login,
       DashboardLogin, OpenDashboard, ValidateKey, TouchKey, GenerateKey, Killed, NoKeyLeft,
       VerifyEmail, SetKeyActive

(* A user that is there without a merchant is one a registration is at. *)
LEMMA UserGoesOn ==
  ASSUME IInv, [Next]_vars, faults = 0, ~Fault, NEW e \in Addresses,
         Taken(users'[e]), ~Taken(merchants'[e])
  PROVE  \E w \in Workers : jobs'[w].email = e /\ jobs'[w].at = "merchant"
<1>1. RowsKept /\ TypeOK /\ JobsTyped /\ Stay(e)
  BY RowsAreKept, JobsOfType DEF IInv, RowsKept
<1>2. CASE Taken(users[e])
  <2>1. ~Taken(merchants[e])
    BY <1>1 DEF Stay
  <2>2. PICK w \in Workers : jobs[w].email = e /\ jobs[w].at = "merchant"
    BY <1>2, <2>1 DEF IInv, HalfAccountOnlyByFault
  <2>3. ~CreateMerchant(w)
    <3> SUFFICES ASSUME CreateMerchant(w) PROVE FALSE
      OBVIOUS
    <3>1. merchants' = [merchants EXCEPT ![e] = [state |-> "active", by |-> w]]
      BY <2>1, <2>2 DEF CreateMerchant
    <3> QED
      BY <1>1, <3>1 DEF TypeOK, Taken
  <2> QED
    BY <2>2, <2>3, GoesOn DEF CreateFirstKey, NoKeyLeft
<1>3. CASE ~Taken(users[e])
  <2>1. users'[e] # users[e]
    BY <1>3
  <2>2. ASSUME NEW f \in Addresses, VerifyEmail(f) PROVE FALSE
    <3>1. users' = [users EXCEPT ![f].state = "active"] /\ Taken(users[f])
      BY <2>2 DEF VerifyEmail, IInv, Invited, Completed
    <3> QED
      BY <1>1, <1>3, <2>1, <3>1 DEF TypeOK
  <2>3. PICK v \in Workers : CreateUser(v)
    BY <2>1, <2>2, UsersChange
  <2>4. jobs[v].email = e /\ Go(v, "merchant")
    BY <1>1, <2>1, <2>3 DEF CreateUser, TypeOK
  <2> QED
    BY <1>1, <2>4, Goes, PlacesAre
<1> QED
  BY <1>2, <1>3

(* A merchant that is there without a key is one a registration is at. *)
LEMMA MerchantGoesOn ==
  ASSUME IInv, [Next]_vars, faults = 0, ~Fault, NEW e \in Addresses,
         Taken(merchants'[e]), KeysOf(e)' = 0
  PROVE  \E w \in Workers : jobs'[w].email = e /\ jobs'[w].at = "key"
<1>1. RowsKept /\ TypeOK /\ JobsTyped /\ Stay(e)
  BY RowsAreKept, JobsOfType DEF IInv, RowsKept
<1>2. KeysOf(e) = 0
  BY <1>1, CompleteStays
<1>3. CASE Taken(merchants[e])
  <2>1. PICK w \in Workers : jobs[w].email = e /\ jobs[w].at = "key"
    BY <1>2, <1>3 DEF IInv, HalfAccountOnlyByFault
  <2>2. ~CreateFirstKey(w)
    <3> SUFFICES ASSUME CreateFirstKey(w) PROVE FALSE
      OBVIOUS
    <3>1. InsertKey(e) /\ users' = users /\ merchants' = merchants
      BY <2>1 DEF CreateFirstKey
    <3>2. KeysOf(e)' = KeysOf(e) + 1
      BY <1>1, <3>1, KeyInserted
    <3> QED
      BY <1>2, <3>2
  <2>3. ~NoKeyLeft(w)
    BY <1>2, <2>1, Limits DEF NoKeyLeft, KeysOf
  <2> QED
    BY <2>1, <2>2, <2>3, GoesOn DEF CreateMerchant
<1>4. CASE ~Taken(merchants[e])
  <2>1. merchants'[e] # merchants[e]
    BY <1>4
  <2>2. ASSUME NEW f \in Addresses, NEW b \in BOOLEAN, SetSuspended(f, b) PROVE FALSE
    BY <1>1, <1>4, <2>1, <2>2 DEF SetSuspended, TypeOK
  <2>3. PICK v \in Workers : CreateMerchant(v)
    BY <2>1, <2>2, MerchantsChange
  <2>4. jobs[v].email = e /\ Go(v, "key")
    BY <1>1, <2>1, <2>3 DEF CreateMerchant, TypeOK
  <2> QED
    BY <1>1, <2>4, Goes, PlacesAre
<1> QED
  BY <1>3, <1>4

-----------------------------------------------------------------------------
(* The keys made late. *)

(* Late keys are counted by key generation, anew with every suspension. *)
LEMMA LateChange ==
  [Next]_vars =>
    \/ late' = late
    \/ \E v \in Workers : GenerateKey(v)
    \/ \E e \in Addresses, b \in BOOLEAN : SetSuspended(e, b)
BY DEF Next, Work, vars, Register, CreateUser, CreateMerchant, CreateFirstKey, QueueVerification,
       QueueFails, SendMail, MailFails, Discard, WorkerKilled, QueueKycMail, LinkExpires,
       Authenticate, Login, DashboardLogin, OpenDashboard, ValidateKey, TouchKey, Killed,
       NoKeyLeft, VerifyEmail, SetKeyActive

(* No step goes over the bound on keys. *)
LEMMA KeysBounded ==
  ASSUME IInv, [Next]_vars, NEW e \in Addresses
  PROVE  KeysOf(e)' <= MaxKeys /\ KeysOf(e)' >= KeysOf(e)
<1>1. KeysOf(e)' >= KeysOf(e) /\ KeysOf(e) <= MaxKeys
  BY RowsAreKept DEF RowsKept, Stay, IInv, Late
<1>2. ASSUME NEW v \in Workers, CreateFirstKey(v) \/ GenerateKey(v)
      PROVE  KeysOf(e)' <= MaxKeys
  <2>1. PICK f \in Addresses : f = jobs[v].email
    BY <1>2, Working DEF CreateFirstKey, GenerateKey
  <2>2. InsertKey(f) /\ users' = users /\ merchants' = merchants /\ TypeOK
    BY <1>2, <2>1 DEF CreateFirstKey, GenerateKey, IInv
  <2>3. KeysOf(f)' <= MaxKeys /\ (f # e => KeysOf(e)' = KeysOf(e))
    BY <2>2, KeyInserted
  <2> QED
    BY <1>1, <2>3
<1>3. ASSUME NEW f \in Addresses, NEW b \in BOOLEAN, SetKeyActive(f, b)
      PROVE  KeysOf(e)' <= MaxKeys
  BY <1>1, <1>3, SetKeyActiveRows
<1>4. ASSUME keys' = keys PROVE KeysOf(e)' <= MaxKeys
  BY <1>1, <1>4 DEF KeysOf
<1> QED
  BY <1>1, <1>2, <1>3, <1>4, RowsChange
     DEF Rows, CreateUser, CreateMerchant, VerifyEmail, SetSuspended

(* Who is inside has been let in by the check of the key. *)
LEMMA InsideShrinks ==
  ASSUME IInv, [Next]_vars, NEW e \in Addresses, ~\E v \in Workers : ValidateKey(v, e)
  PROVE  Inside(e)' \subseteq Inside(e)
<1>1. JobsTyped
  BY JobsOfType DEF IInv
<1>2. SUFFICES ASSUME NEW w \in Workers, jobs'[w].email = e, jobs'[w].at \in {"touch", "newkey"}
               PROVE  jobs[w].email = e /\ jobs[w].at \in {"touch", "newkey"}
  BY DEF Inside
<1>3. CASE jobs' = jobs
  BY <1>2, <1>3
<1>4. ASSUME NEW v \in Workers, Done(v) PROVE jobs'[w] = jobs[w]
  BY <1>1, <1>2, <1>4, Ends, IdleIsJob
<1>5. ASSUME NEW v \in Workers, NEW f \in Addresses, NEW place \in {"user", "login", "page"},
             Begin(v, f, place)
      PROVE  jobs'[w] = jobs[w]
  BY <1>1, <1>2, <1>5, Begins, PlacesAre
<1>6. ASSUME NEW v \in Workers, NEW f \in Addresses, ValidateKey(v, f) PROVE jobs'[w] = jobs[w]
  <2>1. Begin(v, f, "touch") /\ f # e
    BY <1>6 DEF ValidateKey
  <2> QED
    BY <1>1, <1>2, <2>1, Begins, PlacesAre
<1>7. ASSUME NEW v \in Workers, NEW place \in {"merchant", "key", "mail"}, Go(v, place)
      PROVE  jobs'[w] = jobs[w]
  BY <1>1, <1>2, <1>7, Goes, PlacesAre
<1>8. ASSUME NEW v \in Workers, TouchKey(v)
      PROVE  jobs'[w] = jobs[w] \/ (jobs[w].at = "touch" /\ jobs'[w].email = jobs[w].email)
  <2>1. CASE Go(v, "newkey")
    BY <1>1, <1>8, <2>1, Goes, PlacesAre DEF TouchKey
  <2> QED
    BY <1>4, <1>8, <2>1 DEF TouchKey
<1> QED
  BY <1>2, <1>3, <1>4, <1>5, <1>6, <1>7, <1>8, JobsChange
     DEF CreateUser, CreateMerchant, CreateFirstKey

(* Some requests are no more than all of them. *)
LEMMA InsideFinite ==
  ASSUME NEW S \in SUBSET Workers
  PROVE  /\ IsFiniteSet(S) /\ Cardinality(S) \in Nat /\ Cardinality(Workers) \in Nat
         /\ Cardinality(S) <= Cardinality(Workers)
BY Limits, FS_Subset, FS_CardinalityType

(* A step that lets nobody in and makes no late key. *)
LEMMA LateIfLess ==
  ASSUME IInv, [Next]_vars, NEW e \in Addresses, late'[e] = late[e],
         Inside(e)' \subseteq Inside(e),
         merchants'[e].state # "suspended" => late[e] = 0
  PROVE  Late(e)'
<1>1. late[e] \in Nat /\ Late(e) /\ KeysOf(e) \in Nat /\ KeysOf(e)' \in Nat
  <2>1. TypeOK
    BY DEF IInv
  <2> QED
    BY <2>1, Limits, RowsAreKept, CompleteStays DEF IInv, TypeOK
<1>2. KeysOf(e)' <= MaxKeys /\ KeysOf(e)' >= KeysOf(e)
  BY KeysBounded
<1>3. Cardinality(Inside(e)') <= Cardinality(Inside(e)) /\ Cardinality(Inside(e)') \in Nat
        /\ Cardinality(Inside(e)) \in Nat /\ Cardinality(Workers) \in Nat
  <2>1. Inside(e) \in SUBSET Workers /\ Inside(e)' \in SUBSET Workers
    BY DEF Inside
  <2> QED
    BY <2>1, InsideFinite, FS_Subset
<1>4. Cardinality(Inside(e))' = Cardinality(Inside(e)')
  OBVIOUS
<1> QED
  BY <1>1, <1>2, <1>3, <1>4, Limits DEF Late

(* A late key costs the request that makes it its place inside. *)
LEMMA GenerateKeyLate ==
  ASSUME IInv, [Next]_vars, NEW e \in Addresses, NEW v \in Workers, GenerateKey(v)
  PROVE  Late(e)' /\ late' \in [Addresses -> 0..MaxKeys]
<1>1. PICK f \in Addresses : f = jobs[v].email
  BY Working DEF GenerateKey
<1>2. /\ TypeOK /\ JobsTyped /\ InsertKey(f) /\ users' = users /\ merchants' = merchants /\ Done(v)
      /\ jobs[v].at = "newkey" /\ Late(e) /\ Late(f)
      /\ late' = IF merchants[f].state = "suspended" THEN [late EXCEPT ![f] = late[f] + 1] ELSE late
  BY <1>1, JobsOfType DEF GenerateKey, IInv
<1>3. KeysOf(f)' = KeysOf(f) + 1 /\ KeysOf(f)' <= MaxKeys /\ KeysOf(f) \in Nat
  BY <1>2, KeyInserted
<1>4. late[f] \in Nat /\ late[f] <= KeysOf(f) /\ late[f] + 1 \in 0..MaxKeys
  <2>1. late[f] \in Nat /\ late[f] <= KeysOf(f)
    BY <1>2, Limits DEF TypeOK, Late
  <2> QED
    BY <1>3, <2>1, Limits
<1>5. late' \in [Addresses -> 0..MaxKeys]
  BY <1>2, <1>4 DEF TypeOK
<1>6. Inside(e)' \subseteq Inside(e)
  <2>1. ~\E u \in Workers : ValidateKey(u, e)
    <3> SUFFICES ASSUME NEW u \in Workers, ValidateKey(u, e) PROVE FALSE
      OBVIOUS
    <3>1. jobs[u] = IdleJob /\ jobs'[u].at = "touch" /\ jobs'[v] = IdleJob
            /\ \A x \in Workers : x # v => jobs'[x] = jobs[x]
      BY <1>2, Begins, Ends, PlacesAre DEF ValidateKey
    <3> QED
      BY <3>1, IdleIsJob
  <2> QED
    BY <2>1, InsideShrinks
<1>7. CASE f = e /\ merchants[e].state = "suspended"
  <2>1. late'[e] = late[e] + 1
    BY <1>2, <1>7 DEF TypeOK
  <2>2. v \in Inside(e) /\ v \notin Inside(e)' /\ Inside(e)' \subseteq Inside(e) \ {v}
    BY <1>1, <1>2, <1>6, <1>7, Ends, IdleIsJob DEF Inside
  <2>3. /\ Cardinality(Inside(e)') + 1 <= Cardinality(Inside(e))
        /\ Cardinality(Inside(e)') \in Nat /\ Cardinality(Inside(e)) \in Nat
        /\ Cardinality(Workers) \in Nat
    <3>1. Inside(e) \in SUBSET Workers /\ Inside(e)' \in SUBSET Workers
          /\ Inside(e) \ {v} \in SUBSET Workers
      BY DEF Inside
    <3>2. IsFiniteSet(Inside(e)) /\ IsFiniteSet(Inside(e) \ {v})
      BY <3>1, InsideFinite
    <3>3. Cardinality(Inside(e) \ {v}) = Cardinality(Inside(e)) - 1
      BY <2>2, <3>2, FS_RemoveElement
    <3>4. Cardinality(Inside(e)') <= Cardinality(Inside(e) \ {v})
      BY <2>2, <3>2, FS_Subset
    <3>5. Cardinality(Inside(e)') \in Nat /\ Cardinality(Inside(e)) \in Nat
          /\ Cardinality(Workers) \in Nat
      BY <3>1, InsideFinite
    <3> QED
      BY <3>3, <3>4, <3>5
  <2>4. late[e] + Cardinality(Inside(e)) <= Cardinality(Workers)
    BY <1>2 DEF Late
  <2>5. Cardinality(Inside(e))' = Cardinality(Inside(e)')
    OBVIOUS
  <2> QED
    BY <1>2, <1>3, <1>4, <1>5, <1>7, <2>1, <2>3, <2>4, <2>5 DEF Late
<1>8. CASE ~(f = e /\ merchants[e].state = "suspended")
  <2>1. late'[e] = late[e]
    BY <1>2, <1>8 DEF TypeOK
  <2> QED
    BY <1>2, <1>5, <1>6, <2>1, LateIfLess DEF Late
<1> QED
  BY <1>7, <1>8

(* Every step keeps the late keys within the requests still inside. *)
LEMMA LateKept ==
  ASSUME IInv, [Next]_vars, NEW e \in Addresses
  PROVE  Late(e)' /\ late' \in [Addresses -> 0..MaxKeys]
<1>1. TypeOK /\ JobsTyped /\ Late(e) /\ RowsKept
  BY JobsOfType, RowsAreKept DEF IInv
<1>2. ASSUME NEW f \in Addresses, NEW b \in BOOLEAN, SetSuspended(f, b)
      PROVE  Late(e)' /\ late' \in [Addresses -> 0..MaxKeys]
  <2>1. /\ late' = [late EXCEPT ![f] = 0] /\ jobs' = jobs
        /\ f # e => merchants'[e] = merchants[e]
    BY <1>1, <1>2 DEF SetSuspended, TypeOK
  <2>2. late' \in [Addresses -> 0..MaxKeys] /\ late'[f] = 0 /\ (f # e => late'[e] = late[e])
    BY <1>1, <2>1, Limits DEF TypeOK
  <2>3. Inside(e)' = Inside(e) /\ Inside(e) \in SUBSET Workers
    BY <2>1 DEF Inside
  <2>4. CASE f = e
    <3>1. /\ KeysOf(e)' <= MaxKeys /\ KeysOf(e)' \in Nat
          /\ Cardinality(Inside(e)) \in Nat /\ Cardinality(Inside(e)) <= Cardinality(Workers)
      BY <1>1, <2>3, KeysBounded, CompleteStays, InsideFinite
    <3>2. Cardinality(Inside(e))' = Cardinality(Inside(e))
      BY <2>3
    <3> QED
      BY <2>2, <2>4, <3>1, <3>2 DEF Late
  <2>5. CASE f # e
    BY <1>1, <2>1, <2>2, <2>3, <2>5, LateIfLess DEF Late
  <2> QED
    BY <2>4, <2>5
<1>3. ASSUME ~\E f \in Addresses, b \in BOOLEAN : SetSuspended(f, b), late' = late
      PROVE  Late(e)' /\ late' \in [Addresses -> 0..MaxKeys]
  <2>1. merchants'[e].state # "suspended" => late[e] = 0
    <3>1. ASSUME NEW v \in Workers, CreateMerchant(v)
          PROVE  merchants'[e] = merchants[e] \/ ~Taken(merchants[e])
      BY <1>1, <3>1 DEF CreateMerchant, TypeOK
    <3>2. ~Taken(merchants[e]) => late[e] = 0
      BY <1>1 DEF Late, Taken
    <3> QED
      BY <1>1, <1>3, <3>1, <3>2, MerchantsChange DEF Late
  <2>2. CASE \E v \in Workers : ValidateKey(v, e)
    <3>1. KeyValid(e) /\ merchants' = merchants /\ keys' = keys
      BY <2>2 DEF ValidateKey
    <3>2. late'[e] = 0
      BY <1>1, <1>3, <3>1 DEF KeyValid, Late
    <3>3. /\ KeysOf(e)' <= MaxKeys /\ KeysOf(e)' \in Nat
          /\ Cardinality(Inside(e)') \in Nat /\ Cardinality(Inside(e)') <= Cardinality(Workers)
      <4>1. Inside(e)' \in SUBSET Workers
        BY DEF Inside
      <4> QED
        BY <1>1, <4>1, KeysBounded, CompleteStays, InsideFinite
    <3>4. Cardinality(Inside(e))' = Cardinality(Inside(e)')
      OBVIOUS
    <3>5. Late(e)'
      BY <3>2, <3>3, <3>4 DEF Late
    <3> QED
      BY <1>1, <1>3, <3>5 DEF TypeOK
  <2>3. CASE ~\E v \in Workers : ValidateKey(v, e)
    <3>1. Inside(e)' \subseteq Inside(e)
      BY <2>3, InsideShrinks
    <3>2. late'[e] = late[e] /\ late' \in [Addresses -> 0..MaxKeys]
      BY <1>1, <1>3 DEF TypeOK
    <3> QED
      BY <2>1, <3>1, <3>2, LateIfLess
  <2> QED
    BY <2>2, <2>3
<1> QED
  BY <1>2, <1>3, GenerateKeyLate, LateChange

-----------------------------------------------------------------------------
(* The invariant holds of every behaviour. *)

(* A step counts one fault and one failed mail at most. *)
LEMMA FaultOrNot ==
  [Next]_vars => /\ faults' = faults \/ Fault
                 /\ bounces' = bounces \/ (bounces < MaxBounces /\ bounces' = bounces + 1)
BY DEF Next, Work, vars, Register, CreateUser, CreateMerchant, CreateFirstKey, QueueVerification,
       QueueFails, SendMail, MailFails, Discard, WorkerKilled, QueueKycMail, LinkExpires,
       Authenticate, Login, DashboardLogin, OpenDashboard, ValidateKey, TouchKey, GenerateKey,
       Killed, NoKeyLeft, VerifyEmail, SetKeyActive, SetSuspended

(* Every step leaves the state of its type. *)
LEMMA Typed ==
  ASSUME IInv, [Next]_vars
  PROVE  TypeOK'
<1>1. TypeOK /\ RowsKept /\ PlacedKept /\ mails' \subseteq Mail
  BY RowsAreKept, AllPlaced, MailsKept DEF IInv
<1>2. links' \in [Addresses -> {"none", "valid", "expired"}]
  BY LinksKept
<1>3. answered' \in [Addresses -> Workers \cup {None}] /\ late' \in [Addresses -> 0..MaxKeys]
  <2>1. CASE Addresses = {}
    <3>1. answered' = answered \/ \E v \in Workers : jobs[v].at = "mail" /\ Answer(v)
      BY AnswersChange
    <3>2. answered' = answered
      BY <2>1, <3>1, Working
    <3>3. late' = late
      BY <2>1, LateChange, Working DEF GenerateKey
    <3> QED
      BY <1>1, <3>2, <3>3 DEF TypeOK
  <2>2. CASE Addresses # {}
    BY <2>2, ToldKept, LateKept
  <2> QED
    BY <2>1, <2>2
<1>4. bounces' \in 0..MaxBounces /\ faults' \in 0..MaxFaults
  BY <1>1, FaultOrNot, Faults, Limits DEF TypeOK
<1> QED
  BY <1>1, <1>2, <1>3, <1>4 DEF TypeOK, RowsKept, PlacedKept, JobsTyped, Job

(* Nothing is there to begin with. *)
LEMMA Start == Init => IInv
<1> SUFFICES ASSUME Init PROVE IInv
  OBVIOUS
<1>1. /\ NoRow \in UserRow /\ NoRow \in MerchantRow /\ ~Taken(NoRow) /\ NoRow.state = "none"
      /\ [active |-> 0, disabled |-> 0] \in Keys
  BY Limits DEF NoRow, UserRow, MerchantRow, Taken, Keys
<1>2. TypeOK
  BY <1>1, IdleIsJob, Limits DEF Init, TypeOK, Job
<1>3. \A w \in Workers : Placed(w)
  BY IdleIsJob DEF Init, Placed
<1>4. ASSUME NEW e \in Addresses PROVE Told(e) /\ Invited(e) /\ Late(e)
  <2>1. /\ ~Taken(users[e]) /\ users[e].state = "none" /\ ~Taken(merchants[e]) /\ KeysOf(e) = 0
        /\ answered[e] = None /\ links[e] = "none" /\ late[e] = 0 /\ mails = {}
    BY <1>1, <1>4 DEF Init, KeysOf
  <2>2. Inside(e) \in SUBSET Workers
    BY DEF Inside
  <2> QED
    BY <2>1, <2>2, InsideFinite, Limits DEF Told, Invited, Late
<1>5. HalfAccountOnlyByFault
  BY <1>1 DEF Init, HalfAccountOnlyByFault
<1> QED
  BY <1>2, <1>3, <1>4, <1>5 DEF IInv

(* Every step keeps half accounts to registrations that go on, or to faults. *)
LEMMA HalfKept ==
  ASSUME IInv, [Next]_vars
  PROVE  HalfAccountOnlyByFault'
<1>1. CASE Fault
  BY <1>1, Faults DEF IInv, HalfAccountOnlyByFault
<1>2. CASE ~Fault
  <2>1. faults' = faults
    BY <1>2, FaultOrNot
  <2> QED
    BY <1>2, <2>1, UserGoesOn, MerchantGoesOn DEF HalfAccountOnlyByFault
<1> QED
  BY <1>1, <1>2

(* Every step keeps every part of the invariant. *)
LEMMA Step == IInv /\ [Next]_vars => IInv'
<1> SUFFICES ASSUME IInv, [Next]_vars PROVE IInv'
  OBVIOUS
<1>1. \A w \in Workers : Placed(w)'
  BY AllPlaced DEF PlacedKept
<1>2. \A e \in Addresses : Told(e)' /\ Invited(e)' /\ Late(e)'
  BY ToldKept, InvitedKept, LateKept
<1> QED
  BY <1>1, <1>2, Typed, HalfKept DEF IInv

(* The invariant of the accounts holds of every behaviour. *)
LEMMA Always == Spec => []IInv
BY Start, Step, PTL DEF Spec

(* Who is told that the account is created is the client whose password and *)
(* details it has, however registrations of the address overlap.            *)
THEOREM AccountIsWholeCorrect == Spec => []AccountIsWhole
<1>1. IInv => AccountIsWhole
  BY DEF IInv, AccountIsWhole, Told
<1> QED
  BY <1>1, Always, PTL

(* Without a fault, half an account is one whose registration goes on. *)
THEOREM HalfAccountOnlyByFaultCorrect == Spec => []HalfAccountOnlyByFault
<1>1. IInv => HalfAccountOnlyByFault
  BY DEF IInv
<1> QED
  BY <1>1, Always, PTL

(* Nobody logs in to an account without a merchant, faults or not. *)
THEOREM ActiveUserHasMerchantCorrect == Spec => []ActiveUserHasMerchant
<1>1. IInv => ActiveUserHasMerchant
  BY DEF IInv, Invited, Completed, ActiveUserHasMerchant
<1> QED
  BY <1>1, Always, PTL

(* A suspended merchant gets one more key at most from each request that was *)
(* authenticated before.                                                     *)
THEOREM LateKeysBoundedCorrect == Spec => []LateKeysBounded
<1>1. ASSUME IInv, NEW e \in Addresses PROVE late[e] <= Cardinality(Workers)
  <2>1. Inside(e) \in SUBSET Workers
    BY DEF Inside
  <2>2. Cardinality(Inside(e)) \in Nat /\ Cardinality(Workers) \in Nat
    BY <2>1, InsideFinite
  <2>3. late[e] \in Nat /\ Late(e)
    BY <1>1, Limits DEF IInv, TypeOK
  <2> QED
    BY <2>2, <2>3 DEF Late
<1>2. IInv => LateKeysBounded
  BY <1>1 DEF LateKeysBounded
<1> QED
  BY <1>2, Always, PTL

-----------------------------------------------------------------------------
(* The mails that are lost. *)

(* A mail has been retried for a failure of the mail server each time, so    *)
(* that the first one given up is given up at failure MaxRetries + 1.        *)
MailInv ==
  /\ \A m \in mails : m.retries <= bounces
  /\ bounces <= MaxRetries => IsFiniteSet(Unmailed) /\ Cardinality(Unmailed) <= faults

(* The failures of the mail server, and the mails that they put back. *)
LEMMA BouncesChange ==
  [Next]_vars =>
    \/ \E m \in mails : MailFails(m)
    \/ /\ bounces' = bounces
       /\ \/ mails' \subseteq mails
          \/ \E task \in {"kyc", "verification"} : \E e : mails' = Queued(task, e)
<1>1. (\E v \in Workers : QueueVerification(v)) => mails' \subseteq mails
        \/ \E task \in {"kyc", "verification"} : \E e : mails' = Queued(task, e)
  BY DEF QueueVerification
<1>2. (\E e \in Addresses : QueueKycMail(e)) => mails' \subseteq mails
        \/ \E task \in {"kyc", "verification"} : \E e : mails' = Queued(task, e)
  BY DEF QueueKycMail
<1> QED
  BY <1>1, <1>2
     DEF Next, Work, vars, Register, CreateUser, CreateMerchant, CreateFirstKey, QueueFails,
         QueueVerification, QueueKycMail, SendMail, Discard, WorkerKilled, LinkExpires,
         Authenticate, Login, DashboardLogin, OpenDashboard, ValidateKey, TouchKey, GenerateKey,
         Killed, NoKeyLeft, VerifyEmail, SetKeyActive, SetSuspended

(* No mail has been retried more often than the mail server has failed. *)
LEMMA RetriesKept ==
  ASSUME IInv, MailInv, [Next]_vars
  PROVE  \A m \in mails' : m.retries <= bounces'
<1>1. bounces \in Nat /\ \A m \in mails : m \in Mail /\ m.retries \in Nat /\ m.retries <= bounces
  BY Limits DEF IInv, TypeOK, Mail, MailInv
<1>2. ASSUME NEW m \in mails, MailFails(m) PROVE \A n \in mails' : n.retries <= bounces'
  <2> DEFINE again == [m EXCEPT !.retries = @ + 1]
  <2>1. mails' \subseteq mails \cup {again} /\ bounces' = bounces + 1
    BY <1>2 DEF MailFails
  <2>2. again.retries = m.retries + 1
    BY <1>1 DEF Mail
  <2> HIDE DEF again
  <2> QED
    BY <1>1, <2>1, <2>2
<1>3. ASSUME NEW task, NEW e, mails' = Queued(task, e), bounces' = bounces
      PROVE  \A n \in mails' : n.retries <= bounces'
  BY <1>1, <1>3 DEF Queued
<1> QED
  BY <1>1, <1>2, <1>3, BouncesChange

(* The mail of the account waits to be sent. *)
Waits(e) == \E m \in mails : m.task = "verification" /\ m.to = e

(* Who waits no longer has got the mail, or lost it by a fault or by the last *)
(* failure of the mail server.                                                *)
LEMMA WaitEnds ==
  ASSUME IInv, [Next]_vars, NEW e \in Addresses, Waits(e), ~Waits(e)'
  PROVE  \/ links'[e] # "none"
         \/ \E m \in mails : m.to = e /\ MailFails(m) /\ ~MayRetry(m)
         \/ \E m \in mails : m.to = e /\ WorkerKilled(m)
<1>1. PICK m \in mails : m.task = "verification" /\ m.to = e
  BY DEF Waits
<1>2. m \notin mails' /\ \A n \in mails' : ~(n.task = "verification" /\ n.to = e)
  BY <1>1 DEF Waits
<1>3. TypeOK /\ m \in Mail
  BY DEF IInv, TypeOK
<1>4. \E n \in mails : SendMail(n) \/ MailFails(n) \/ Discard(n) \/ WorkerKilled(n)
  <2>1. ~(mails \subseteq mails')
    BY <1>2
  <2> QED
    BY <2>1 DEF Next, Work, vars, Register, CreateUser, CreateMerchant, CreateFirstKey, QueueFails,
       QueueVerification, QueueKycMail, Queued, LinkExpires, Authenticate, Login, DashboardLogin,
       OpenDashboard, ValidateKey, TouchKey, GenerateKey, Killed, NoKeyLeft, VerifyEmail,
       SetKeyActive, SetSuspended
<1>5. PICK n \in mails : SendMail(n) \/ MailFails(n) \/ Discard(n) \/ WorkerKilled(n)
  BY <1>4
<1>6. n = m
  BY <1>2, <1>5 DEF SendMail, MailFails, Discard, WorkerKilled
<1>7. CASE SendMail(m)
  BY <1>1, <1>3, <1>7 DEF SendMail, TypeOK
<1>8. CASE MailFails(m)
  <2>1. CASE MayRetry(m)
    <3> DEFINE again == [m EXCEPT !.retries = @ + 1]
    <3>1. again.task = m.task /\ again.to = m.to /\ again \in mails'
      BY <1>3, <1>8, <2>1 DEF MailFails, Mail
    <3> QED
      BY <1>1, <1>2, <3>1
  <2> QED
    BY <1>1, <1>8, <2>1
<1>9. CASE Discard(m)
  BY <1>1, <1>9 DEF Discard, Registered
<1> QED
  BY <1>1, <1>5, <1>6, <1>7, <1>8, <1>9

(* Who is told that its account is created waits for its mail, unless the *)
(* broker was down.                                                       *)
LEMMA AnswerMails ==
  ASSUME IInv, [Next]_vars, NEW e \in Addresses, answered'[e] # answered[e]
  PROVE  Waits(e)' \/ \E v \in Workers : jobs[v].email = e /\ QueueFails(v)
<1>1. TypeOK
  BY DEF IInv
<1>2. (\E v \in Workers : QueueVerification(v) \/ QueueFails(v)) \/ answered' = answered
  BY DEF Next, Work, vars, Register, CreateUser, CreateMerchant, CreateFirstKey, SendMail,
     MailFails, Discard, WorkerKilled, QueueKycMail, LinkExpires, Authenticate, Login,
     DashboardLogin, OpenDashboard, ValidateKey, TouchKey, GenerateKey, Killed, NoKeyLeft,
     VerifyEmail, SetKeyActive, SetSuspended
<1>3. PICK v \in Workers : QueueVerification(v) \/ QueueFails(v)
  BY <1>2
<1>4. jobs[v].email = e
  BY <1>1, <1>3 DEF QueueVerification, QueueFails, Answer, TypeOK
<1>5. CASE QueueVerification(v)
  <2>1. [task |-> "verification", to |-> e, retries |-> 0] \in mails'
    BY <1>4, <1>5 DEF QueueVerification, Queued
  <2> QED
    BY <2>1 DEF Waits
<1> QED
  BY <1>3, <1>4, <1>5

(* A link that has been there is never gone again. *)
LEMMA LinkStays ==
  ASSUME IInv, [Next]_vars, NEW e \in Addresses, links[e] # "none"
  PROVE  links'[e] # "none"
<1>1. links \in [Addresses -> {"none", "valid", "expired"}]
  BY DEF IInv, TypeOK
<1> QED
  BY <1>1, LinksChange

(* Within the retries, an account joins those without their mail by a fault. *)
LEMMA UnmailedByFault ==
  ASSUME IInv, MailInv, [Next]_vars, bounces' <= MaxRetries, NEW e \in Unmailed', e \notin Unmailed
  PROVE  \/ \E v \in Workers : jobs[v].email = e /\ QueueFails(v)
         \/ \E m \in mails : m.to = e /\ WorkerKilled(m)
<1>1. e \in Addresses /\ answered'[e] # None /\ links'[e] = "none" /\ ~Waits(e)'
  BY DEF Unmailed, Waits
<1>2. links[e] = "none"
  BY <1>1, LinkStays
<1>3. answered[e] = None \/ Waits(e)
  BY <1>1, <1>2 DEF Unmailed, Waits
<1>4. CASE answered[e] = None
  BY <1>1, <1>4, AnswerMails
<1>5. CASE Waits(e)
  <2>1. ASSUME NEW m \in mails, MailFails(m), ~MayRetry(m) PROVE FALSE
    <3>1. /\ m.retries \in 0..MaxRetries /\ m.retries <= bounces /\ bounces \in Nat
          /\ ~(m.retries < MaxRetries) /\ bounces' = bounces + 1
      BY <2>1 DEF IInv, TypeOK, Mail, MailInv, MailFails, MayRetry
    <3> QED
      BY <3>1, Limits
  <2> QED
    BY <1>1, <1>5, <2>1, WaitEnds
<1> QED
  BY <1>3, <1>4, <1>5

(* Every step loses at most one mail, and none without a fault. *)
LEMMA MailKept == IInv /\ MailInv /\ [Next]_vars => MailInv'
<1> SUFFICES ASSUME IInv, MailInv, [Next]_vars PROVE MailInv'
  OBVIOUS
<1>1. /\ faults \in Nat /\ bounces \in Nat
      /\ faults' = faults \/ (Fault /\ faults' = faults + 1)
      /\ bounces' = bounces \/ bounces' = bounces + 1
  BY FaultOrNot DEF IInv, TypeOK, Fault
<1>2. ASSUME bounces' <= MaxRetries
      PROVE  IsFiniteSet(Unmailed') /\ Cardinality(Unmailed') <= faults'
  <2>1. IsFiniteSet(Unmailed) /\ Cardinality(Unmailed) <= faults
    BY <1>1, <1>2, Limits DEF MailInv
  <2>2. CASE Unmailed' \subseteq Unmailed
    <3>1. IsFiniteSet(Unmailed') /\ Cardinality(Unmailed') <= faults
      BY <1>1, <2>1, <2>2, GrowsByNone
    <3>2. Cardinality(Unmailed') \in Nat
      BY <3>1, FS_CardinalityType
    <3> QED
      BY <1>1, <3>1, <3>2
  <2>3. CASE ~(Unmailed' \subseteq Unmailed)
    <3>1. PICK x \in Unmailed' : x \notin Unmailed
      BY <2>3
    <3>2. Fault /\ faults' = faults + 1
      BY <1>2, <3>1, UnmailedByFault DEF QueueFails, WorkerKilled, Fault
    <3>3. Unmailed' \subseteq Unmailed \cup {x}
      <4> SUFFICES ASSUME NEW y \in Unmailed', y \notin Unmailed PROVE y = x
        OBVIOUS
      <4>1. CASE \E v \in Workers : QueueFails(v)
        <5>1. mails' = mails
          BY <4>1 DEF QueueFails
        <5>2. ASSUME NEW z \in Unmailed', z \notin Unmailed
              PROVE  answered'[z] # answered[z]
          BY <5>1, <5>2, LinkStays DEF Unmailed
        <5>3. PICK v \in Workers : answered' = [answered EXCEPT ![jobs[v].email] = v]
          BY <4>1 DEF QueueFails, Answer
        <5>4. \A z \in Addresses : answered'[z] # answered[z] => z = jobs[v].email
          BY <5>3 DEF IInv, TypeOK
        <5> QED
          BY <3>1, <5>2, <5>4 DEF Unmailed
      <4>2. CASE \E m \in mails : WorkerKilled(m)
        <5>1. PICK m \in mails : mails' = mails \ {m} /\ answered' = answered /\ links' = links
          BY <4>2 DEF WorkerKilled
        <5>2. ASSUME NEW z \in Unmailed', z \notin Unmailed PROVE z = m.to
          BY <5>1, <5>2 DEF Unmailed
        <5> QED
          BY <3>1, <5>2
      <4> QED
        BY <1>2, <3>1, <4>1, <4>2, UnmailedByFault
    <3> QED
      BY <1>1, <2>1, <3>2, <3>3, GrowsByOne
  <2> QED
    BY <2>2, <2>3
<1> QED
  BY <1>2, RetriesKept DEF MailInv

(* Each fault loses the mail of one account at most, and the mail server loses *)
(* none until it has failed MaxRetries + 1 times, for any number of addresses. *)
THEOREM MailNotLostCorrect == Spec => []MailNotLost
<1>1. Init => MailInv
  <2>1. Init => Unmailed = {} /\ mails = {} /\ faults = 0
    BY DEF Init, Unmailed
  <2> QED
    BY <2>1, FS_EmptySet DEF MailInv
<1>2. IInv /\ MailInv /\ [Next]_vars => MailInv'
  BY MailKept
<1>3. MailInv => MailNotLost
  BY DEF MailInv, MailNotLost
<1> QED
  BY <1>1, <1>2, <1>3, Always, PTL DEF Spec

-----------------------------------------------------------------------------
(* Onboarding, of one merchant: its state is its own. *)

(* What a request has tested, on the merchant it loaded, at each place. *)
TestedFirst ==
  \A w \in Handlers :
    /\ reviews[w].at \in {"documents", "submit"}
        => reviews[w].seen.kyc \notin {"approved", "under_review"}
    /\ reviews[w].at \in {"approve", "reject"}
        => reviews[w].seen.kyc \in {"submitted", "under_review"}
    /\ reviews[w].at \in {"verify", "golive", "key"} => approvedOnce

KycInv == LiveWasApproved /\ TestedFirst /\ (merchant.kyc = "approved" => approvedOnce)

KycJob == [at: KycPlaces, seen: Merchant]

-----------------------------------------------------------------------------
(* A new merchant is one, and an idle request is a request. *)
LEMMA NewIsMerchant == NewMerchant \in Merchant /\ IdleReview \in KycJob /\ IdleReview.at = "idle"
BY DEF NewMerchant, Merchant, KycStatus, IdleReview, KycJob, KycPlaces

(* A request that begins remembers the merchant as it is. *)
LEMMA KycBegins ==
  ASSUME KycTypeOK, NEW w \in Handlers, NEW place \in KycPlaces, KycBegin(w, place)
  PROVE  /\ reviews' \in [Handlers -> KycJob]
         /\ reviews'[w].at = place /\ reviews'[w].seen = merchant
         /\ \A v \in Handlers : v # w => reviews'[v] = reviews[v]
BY DEF KycTypeOK, KycBegin, KycJob

(* A request that moves on keeps the merchant it loaded. *)
LEMMA KycGoes ==
  ASSUME KycTypeOK, NEW w \in Handlers, NEW place \in KycPlaces, KycGo(w, place)
  PROVE  /\ reviews' \in [Handlers -> KycJob]
         /\ reviews'[w].at = place /\ reviews'[w].seen = reviews[w].seen
         /\ \A v \in Handlers : v # w => reviews'[v] = reviews[v]
BY DEF KycTypeOK, KycGo, KycJob

(* A request that ends leaves the others where they are. *)
LEMMA KycEnds ==
  ASSUME KycTypeOK, NEW w \in Handlers, KycDone(w)
  PROVE  /\ reviews' \in [Handlers -> KycJob] /\ reviews'[w].at = "idle"
         /\ \A v \in Handlers : v # w => reviews'[v] = reviews[v]
BY NewIsMerchant DEF KycTypeOK, KycDone, KycJob

(* A step that nothing in KycInv depends on but the merchant's own columns. *)
LEMMA RowChanges ==
  ASSUME KycInv, KycTypeOK', UNCHANGED <<reviews, liveKey, approvedOnce>>,
         merchant'.kyc = "approved" => merchant.kyc = "approved",
         merchant'.live = merchant.live
  PROVE  KycInv'
BY DEF KycInv, LiveWasApproved, TestedFirst

(* A request that ends, the rows being as they were. *)
LEMMA EndsQuietly ==
  ASSUME KycInv, KycTypeOK', NEW w \in Handlers, KycDone(w), UNCHANGED <<merchant, liveKey,
      approvedOnce>>
  PROVE  KycInv'
<1>1. KycTypeOK
  BY DEF KycInv, LiveWasApproved
<1>2. reviews'[w].at = "idle" /\ \A v \in Handlers : v # w => reviews'[v] = reviews[v]
  BY <1>1, KycEnds
<1> QED
  BY <1>2 DEF KycInv, LiveWasApproved, TestedFirst

(* Every step leaves the state of its type. *)
LEMMA KycTyped ==
  KycInv /\ [KycNext]_kycVars => KycTypeOK'
<1> SUFFICES ASSUME KycTypeOK, [KycNext]_kycVars PROVE KycTypeOK'
  BY DEF KycInv, LiveWasApproved
<1>1. CASE UNCHANGED kycVars
  BY <1>1 DEF kycVars, KycTypeOK
<1>2. ASSUME NEW w \in Handlers, NEW d \in Documents, UploadDocument(w, d) PROVE KycTypeOK'
  BY <1>2, OnboardingAssumption DEF UploadDocument, Uploaded, Change, KycTypeOK, DocumentStatus
<1>3. ASSUME NEW w \in Handlers, NEW account \in BankAccounts, UpdateBank(w, account)
      PROVE KycTypeOK'
  <2>1. merchant' \in Merchant
    BY <1>3 DEF UpdateBank, WithAccount, KycTypeOK, Merchant
  <2>2. changes' \in 0..MaxChanges
    BY <1>3, OnboardingAssumption DEF UpdateBank, Change, KycTypeOK
  <2> QED
    BY <1>3, <2>1, <2>2 DEF UpdateBank, KycTypeOK
<1>4. ASSUME NEW w \in Handlers, LoadForSubmit(w) PROVE KycTypeOK'
  BY <1>4, KycBegins, OnboardingAssumption DEF LoadForSubmit, Change, KycTypeOK, KycJob, KycPlaces
<1>5. ASSUME NEW w \in Handlers, LoadForLiveKey(w) PROVE KycTypeOK'
  BY <1>5, KycBegins DEF LoadForLiveKey, KycTypeOK, KycJob, KycPlaces
<1>6. ASSUME NEW w \in Handlers, NEW verdict \in {"approve", "reject"},
             LoadForReview(w, verdict) \/ SelectForReview(w, verdict)
      PROVE  KycTypeOK'
  BY <1>6, KycBegins DEF LoadForReview, SelectForReview, KycTypeOK, KycJob, KycPlaces
<1>7. ASSUME NEW w \in Handlers, StartReview(w) PROVE KycTypeOK'
  BY <1>7 DEF StartReview, KycTypeOK, Merchant, KycStatus
<1>8. ASSUME NEW w \in Handlers, NEW d \in Documents, NEW status \in DocumentStatus,
             EditDocument(w, d, status)
      PROVE  KycTypeOK'
  BY <1>8, OnboardingAssumption DEF EditDocument, Change, KycTypeOK
<1>9. ASSUME NEW w \in Handlers, NEW active \in BOOLEAN, SetActive(w, active) PROVE KycTypeOK'
  BY <1>9 DEF SetActive, KycTypeOK, Merchant
<1>10. ASSUME NEW w \in Handlers, CheckDocuments(w) PROVE KycTypeOK'
  BY <1>10, KycGoes, KycEnds DEF CheckDocuments, KycTypeOK, KycJob, KycPlaces
<1>11. ASSUME NEW w \in Handlers, SubmitKyc(w) PROVE KycTypeOK'
  BY <1>11, KycEnds DEF SubmitKyc, WhenSubmitted, KycTypeOK, KycJob, Merchant, KycStatus
<1>12. ASSUME NEW w \in Handlers, CreateLiveKey(w) PROVE KycTypeOK'
  BY <1>12, KycEnds DEF CreateLiveKey, KycTypeOK, KycJob
<1>13. ASSUME NEW w \in Handlers, Approve(w) PROVE KycTypeOK'
  BY <1>13, KycGoes DEF Approve, KycTypeOK, KycJob, KycPlaces, Merchant, KycStatus
<1>14. ASSUME NEW w \in Handlers, VerifyDocuments(w) PROVE KycTypeOK'
  BY <1>14, KycGoes DEF VerifyDocuments, KycTypeOK, KycJob, KycPlaces, DocumentStatus
<1>15. ASSUME NEW w \in Handlers, GoLive(w) PROVE KycTypeOK'
  BY <1>15, KycGoes DEF GoLive, PennyDrop, Activated, KycTypeOK, KycJob, KycPlaces, Merchant
<1>16. ASSUME NEW w \in Handlers, Reject(w) PROVE KycTypeOK'
  BY <1>16, KycGoes DEF Reject, KycTypeOK, KycJob, KycPlaces, Merchant, KycStatus
<1>17. ASSUME NEW w \in Handlers, ResetDocuments(w) PROVE KycTypeOK'
  BY <1>17, KycEnds DEF ResetDocuments, KycTypeOK, KycJob, DocumentStatus
<1>18. ASSUME NEW w \in Handlers, Crash(w) PROVE KycTypeOK'
  BY <1>18, KycEnds, OnboardingAssumption DEF Crash, KycTypeOK, KycJob
<1> QED
  BY <1>1, <1>2, <1>3, <1>4, <1>5, <1>6, <1>7, <1>8, <1>9, <1>10, <1>11, <1>12, <1>13, <1>14,
     <1>15, <1>16, <1>17, <1>18 DEF KycNext, KycWork

(* Each step keeps what was tested, and approves nobody unasked. *)
LEMMA KycStep ==
  KycInv /\ [KycNext]_kycVars => KycInv'
<1> SUFFICES ASSUME KycInv, [KycNext]_kycVars PROVE KycInv'
  OBVIOUS
<1> USE DEF KycInv, LiveWasApproved, TestedFirst
<1>0. KycTypeOK /\ KycTypeOK' /\ merchant \in Merchant
  BY KycTyped DEF KycTypeOK
<1>1. CASE UNCHANGED kycVars
  BY <1>0, <1>1 DEF kycVars
<1>2. ASSUME NEW w \in Handlers, NEW d \in Documents, UploadDocument(w, d) PROVE KycInv'
  BY <1>0, <1>2 DEF UploadDocument
<1>3. ASSUME NEW w \in Handlers, NEW account \in BankAccounts, UpdateBank(w, account) PROVE KycInv'
  BY <1>0, <1>3, RowChanges DEF UpdateBank, WithAccount, Merchant
<1>4. ASSUME NEW w \in Handlers, LoadForSubmit(w) PROVE KycInv'
  BY <1>0, <1>4, KycBegins DEF LoadForSubmit, Submittable, KycPlaces
<1>5. ASSUME NEW w \in Handlers, LoadForLiveKey(w) PROVE KycInv'
  BY <1>0, <1>5, KycBegins DEF LoadForLiveKey, MayHaveLiveKey, KycPlaces
<1>6. ASSUME NEW w \in Handlers, NEW verdict \in {"approve", "reject"},
             LoadForReview(w, verdict) \/ SelectForReview(w, verdict)
      PROVE  KycInv'
  BY <1>0, <1>6, KycBegins DEF LoadForReview, SelectForReview, Reviewable, KycPlaces
<1>7. ASSUME NEW w \in Handlers, StartReview(w) PROVE KycInv'
  BY <1>0, <1>7, RowChanges DEF StartReview, Merchant
<1>8. ASSUME NEW w \in Handlers, NEW d \in Documents, NEW status \in DocumentStatus,
             EditDocument(w, d, status)
      PROVE  KycInv'
  BY <1>0, <1>8 DEF EditDocument
<1>9. ASSUME NEW w \in Handlers, NEW active \in BOOLEAN, SetActive(w, active) PROVE KycInv'
  BY <1>0, <1>9, RowChanges DEF SetActive, Merchant
<1>10. ASSUME NEW w \in Handlers, CheckDocuments(w) PROVE KycInv'
  <2>1. CASE KycGo(w, "submit")
    BY <1>0, <1>10, <2>1, KycGoes DEF CheckDocuments, KycPlaces
  <2>2. CASE KycDone(w)
    BY <1>0, <1>10, <2>2, EndsQuietly DEF CheckDocuments
  <2> QED
    BY <1>10, <2>1, <2>2 DEF CheckDocuments
<1>11. ASSUME NEW w \in Handlers, SubmitKyc(w) PROVE KycInv'
  BY <1>0, <1>11, KycEnds DEF SubmitKyc, WhenSubmitted, Merchant
<1>12. ASSUME NEW w \in Handlers, CreateLiveKey(w) PROVE KycInv'
  BY <1>0, <1>12, KycEnds DEF CreateLiveKey
<1>13. ASSUME NEW w \in Handlers, Approve(w) PROVE KycInv'
  BY <1>0, <1>13, KycGoes DEF Approve, KycPlaces, Merchant
<1>14. ASSUME NEW w \in Handlers, VerifyDocuments(w) PROVE KycInv'
  BY <1>0, <1>14, KycGoes DEF VerifyDocuments, KycPlaces
<1>15. ASSUME NEW w \in Handlers, GoLive(w) PROVE KycInv'
  BY <1>0, <1>15, KycGoes DEF GoLive, Activated, KycPlaces, Merchant
<1>16. ASSUME NEW w \in Handlers, Reject(w) PROVE KycInv'
  BY <1>0, <1>16, KycGoes DEF Reject, KycPlaces, Merchant
<1>17. ASSUME NEW w \in Handlers, ResetDocuments(w) PROVE KycInv'
  BY <1>0, <1>17, EndsQuietly DEF ResetDocuments
<1>18. ASSUME NEW w \in Handlers, Crash(w) PROVE KycInv'
  BY <1>0, <1>18, EndsQuietly DEF Crash
<1> QED
  BY <1>1, <1>2, <1>3, <1>4, <1>5, <1>6, <1>7, <1>8, <1>9, <1>10, <1>11, <1>12, <1>13, <1>14,
     <1>15, <1>16, <1>17, <1>18 DEF KycNext, KycWork

(* Nobody is live, approved or at work to begin with. *)
LEMMA KycStarts ==
  KycInit => KycInv
<1> SUFFICES ASSUME KycInit PROVE KycInv
  OBVIOUS
<1>1. KycTypeOK
  <2>1. docs \in [Documents -> DocumentStatus]
    BY DEF KycInit, DocumentStatus
  <2>2. reviews \in [Handlers -> KycJob]
    BY NewIsMerchant DEF KycInit
  <2>3. merchant \in Merchant
    BY NewIsMerchant DEF KycInit
  <2>4. /\ liveKey \in BOOLEAN /\ approvedOnce \in BOOLEAN
        /\ dropped \in BankAccounts \cup {Null} /\ fresh \subseteq Documents
    BY DEF KycInit
  <2>5. changes \in 0..MaxChanges /\ crashes \in 0..MaxCrashes
    <3>1. changes = 0 /\ crashes = 0
      BY DEF KycInit
    <3> QED
      BY <3>1, OnboardingAssumption
  <2> QED
    BY <2>1, <2>2, <2>3, <2>4, <2>5 DEF KycTypeOK, KycJob
<1>2. /\ \A w \in Handlers : reviews[w].at = "idle"
      /\ ~merchant.live /\ ~liveKey /\ merchant.kyc = "pending"
  BY NewIsMerchant DEF KycInit, NewMerchant
<1> QED
  BY <1>1, <1>2 DEF KycInv, LiveWasApproved, TestedFirst

(* The invariant of onboarding holds of every behaviour. *)
LEMMA KycInvariant ==
  KycSpec => []KycInv
BY KycStarts, KycStep, PTL DEF KycSpec

-----------------------------------------------------------------------------
(* However reviews, submissions and requests for live keys overlap and are  *)
(* killed: a merchant that is live, or has a live key, was approved.        *)
THEOREM LiveOnlyApproved ==
  KycSpec => []LiveWasApproved
BY KycInvariant, PTL DEF KycInv

(* A request whose merchant is still in the status it tested makes only the *)
(* transitions that the service documents.                                  *)
THEOREM TransitionsDocumented ==
  KycSpec => FreshKycTransitions
<1>1. ASSUME KycInv, [KycNext]_kycVars, merchant'.kyc # merchant.kyc
      PROVE  \/ Documented(merchant.kyc, merchant'.kyc)
             \/ \E w \in Handlers : reviews'[w] # reviews[w] /\ reviews[w].seen.kyc # merchant.kyc
  <2> DEFINE Stale ==
  \E w \in Handlers : reviews'[w] # reviews[w] /\ reviews[w].seen.kyc # merchant.kyc
             Good == Documented(merchant.kyc, merchant'.kyc) \/ Stale
  <2>1. KycTypeOK /\ merchant \in Merchant /\ merchant.kyc \in KycStatus
    BY <1>1 DEF KycInv, LiveWasApproved, KycTypeOK, Merchant
  <2>2. ASSUME NEW w \in Handlers, SubmitKyc(w) PROVE Good
    <3>1. reviews'[w] # reviews[w] /\ merchant'.kyc = "submitted" /\ reviews[w].at = "submit"
      BY <2>1, <2>2, KycEnds DEF SubmitKyc, WhenSubmitted, Merchant
    <3>2. CASE reviews[w].seen.kyc = merchant.kyc
      BY <1>1, <2>1, <3>1, <3>2 DEF KycInv, TestedFirst, Documented, KycStatus
    <3> QED
      BY <3>1, <3>2
  <2>3. ASSUME NEW w \in Handlers, Approve(w) PROVE Good
    <3>1. reviews'[w] # reviews[w] /\ merchant'.kyc = "approved" /\ reviews[w].at = "approve"
      BY <2>1, <2>3, KycGoes DEF Approve, Merchant, KycPlaces
    <3>2. CASE reviews[w].seen.kyc = merchant.kyc
      BY <1>1, <3>1, <3>2 DEF KycInv, TestedFirst, Documented
    <3> QED
      BY <3>1, <3>2
  <2>4. ASSUME NEW w \in Handlers, Reject(w) PROVE Good
    <3>1. reviews'[w] # reviews[w] /\ merchant'.kyc = "rejected" /\ reviews[w].at = "reject"
      BY <2>1, <2>4, KycGoes DEF Reject, Merchant, KycPlaces
    <3>2. CASE reviews[w].seen.kyc = merchant.kyc
      BY <1>1, <3>1, <3>2 DEF KycInv, TestedFirst, Documented
    <3> QED
      BY <3>1, <3>2
  <2>5. ASSUME NEW w \in Handlers, StartReview(w) PROVE Good
    BY <2>1, <2>5 DEF StartReview, Documented, Merchant
  <2>6. ASSUME NEW w \in Handlers, NEW account \in BankAccounts, UpdateBank(w, account)
        PROVE  merchant'.kyc = merchant.kyc
    BY <2>1, <2>6 DEF UpdateBank, WithAccount, Merchant
  <2>7. ASSUME NEW w \in Handlers, NEW active \in BOOLEAN, SetActive(w, active)
        PROVE  merchant'.kyc = merchant.kyc
    BY <2>1, <2>7 DEF SetActive, Merchant
  <2>8. ASSUME NEW w \in Handlers, GoLive(w) PROVE merchant'.kyc = merchant.kyc
    BY <2>1, <2>8 DEF GoLive, Activated, Merchant
  <2>9. ~UNCHANGED merchant
    BY <1>1
  <2> HIDE DEF Good
  <2>10. Good
    BY <1>1, <2>2, <2>3, <2>4, <2>5, <2>6, <2>7, <2>8, <2>9
    DEF KycNext, KycWork, kycVars, UploadDocument, LoadForSubmit, LoadForLiveKey,
        LoadForReview,
        SelectForReview, EditDocument, CheckDocuments, CreateLiveKey, VerifyDocuments,
        ResetDocuments, Crash
  <2> QED
    BY <2>10 DEF Good
<1> QED
  BY <1>1, KycInvariant, PTL DEF KycSpec, FreshKycTransitions

=============================================================================
