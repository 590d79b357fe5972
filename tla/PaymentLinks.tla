---------------------------- MODULE PaymentLinks ----------------------------
(***************************************************************************)
(* Payment links: PaymentLinkService.  record_payment has no caller in the *)
(* repository but its tests; a call is modelled the way every sibling      *)
(* service is called, with a link that was fetched before the transaction. *)
(***************************************************************************)
EXTENDS Naturals

CONSTANTS
  Links,
  MaxUses,   \* max_uses, 0 where it is null (the code tests its truth)
  Expires,   \* the links that have an expires_at
  Callers,   \* calls of record_payment at the same time
  MaxOrders, \* bound on the orders of one link
  Null

ASSUME LinkAssumption ==
  /\ MaxUses \in [Links -> Nat]
  /\ Expires \subseteq Links
  /\ MaxOrders \in Nat
  /\ Null \notin Links

VARIABLES
  links,   \* PaymentLink rows, as committed
  expired, \* the links whose expires_at has passed
  calls,   \* what each call of record_payment is doing
  orders   \* history: the orders made through each link

linkVars == <<links, expired, calls, orders>>

-----------------------------------------------------------------------------
(* Nothing ever assigns the fourth choice, 'expired'. *)
LinkStatus == {"none", "active", "paid", "disabled"}
Link == [status: LinkStatus, uses: Nat]
NoLink == [status |-> "none", uses |-> 0]

(* link: the object in memory while at = "loaded", the transaction's own *)
(* uncommitted version of the row while at = "updated".                  *)
IdleCall == [at |-> "idle", id |-> Null, link |-> NoLink]

LinkTypeOK ==
  /\ links \in [Links -> Link]
  /\ expired \subseteq Expires
  /\ calls \in [Callers -> [at: {"idle", "loaded", "updated"}, id: Links \cup {Null}, link: Link]]
  /\ orders \in [Links -> Nat]

LinkInit ==
  /\ links = [l \in Links |-> NoLink]
  /\ expired = {}
  /\ calls = [c \in Callers |-> IdleCall]
  /\ orders = [l \in Links |-> 0]

(* No open transaction has updated the row. *)
LinkRowFree(l) == \A c \in Callers : ~(calls[c].at = "updated" /\ calls[c].id = l)

(* PaymentLink.is_usable: of a row or of an object in memory. *)
IsUsable(l, link) ==
  /\ link.status = "active"
  /\ l \notin expired
  /\ MaxUses[l] = 0 \/ link.uses < MaxUses[l]

-----------------------------------------------------------------------------
(* create_link: whatever max_uses and expires_at the merchant asks for. *)
NewLink == [NoLink EXCEPT !.status = "active"]

CreateLink(l) ==
  /\ links[l] = NoLink
  /\ links' = [links EXCEPT ![l] = NewLink]
  /\ UNCHANGED <<expired, calls, orders>>

ExpiresAtPasses(l) ==
  /\ links[l] # NoLink
  /\ l \in Expires \ expired
  /\ expired' = expired \cup {l}
  /\ UNCHANGED <<links, calls, orders>>

GetLink(l) == [at |-> "loaded", id |-> l, link |-> links[l]]

(* The checkout page: the link as it was when the page was served. *)
LoadLink(c, l) ==
  /\ calls[c] = IdleCall
  /\ links[l] # NoLink
  /\ orders[l] < MaxOrders
  /\ calls' = [calls EXCEPT ![c] = GetLink(l)]
  /\ UNCHANGED <<links, expired, orders>>

(* 'This payment link is no longer active.' or 'Amount is required ...' *)
RefusePayment(c) ==
  /\ calls[c].at = "loaded"
  /\ calls' = [calls EXCEPT ![c] = IdleCall]
  /\ UNCHANGED <<links, expired, orders>>

(* Mutant: no auto-close. *)
ReachesNoMax(l, uses) == FALSE

(* Mutant: one use too early. *)
ReachesMaxEarly(l, uses) == MaxUses[l] > 0 /\ uses + 1 >= MaxUses[l]

ReachesMax(l, uses) == MaxUses[l] > 0 /\ uses >= MaxUses[l]

(* Both UPDATEs: the count is the one in memory plus one. *)
UsedRow(l, seen) ==
  [status |-> IF ReachesMax(l, seen.uses + 1) THEN "paid" ELSE links[l].status,
   uses |-> seen.uses + 1]

RecordPayment(c) ==
  LET call == calls[c] IN
  /\ call.at = "loaded"
  /\ IsUsable(call.id, call.link)
  /\ LinkRowFree(call.id)
  /\ calls' = [calls EXCEPT ![c].at = "updated", ![c].link = UsedRow(call.id, call.link)]
  /\ UNCHANGED <<links, expired, orders>>

LinkCommit(c) ==
  LET call == calls[c] IN
  /\ call.at = "updated"
  /\ links' = [links EXCEPT ![call.id] = call.link]
  /\ orders' = [orders EXCEPT ![call.id] = @ + 1]
  /\ calls' = [calls EXCEPT ![c] = IdleCall]
  /\ UNCHANGED expired

(* Mutant: without transaction.atomic the UPDATE stays. *)
LinkRollbackKeepsUpdate(c) ==
  links' = IF calls[c].at = "updated" THEN [links EXCEPT ![calls[c].id] = calls[c].link] ELSE links
LinkRollback(c) == UNCHANGED links

LinkCrash(c) ==
  /\ calls[c].at = "updated"
  /\ calls' = [calls EXCEPT ![c] = IdleCall]
  /\ LinkRollback(c)
  /\ UNCHANGED <<expired, orders>>

(* One UPDATE by id, whatever the status. *)
Disabled(l) == [links EXCEPT ![l].status = "disabled"]

DisableLink(l) ==
  /\ links[l] # NoLink
  /\ LinkRowFree(l)
  /\ links' = Disabled(l)
  /\ UNCHANGED <<expired, calls, orders>>

LinkNext ==
  \/ \E l \in Links : CreateLink(l) \/ ExpiresAtPasses(l) \/ DisableLink(l)
  \/ \E c \in Callers, l \in Links : LoadLink(c, l)
  \/ \E c \in Callers : RefusePayment(c) \/ RecordPayment(c) \/ LinkCommit(c) \/ LinkCrash(c)

LinkSpec == LinkInit /\ [][LinkNext]_linkVars

-----------------------------------------------------------------------------
(* A link that is not usable any more stays so: use_count may go back when a *)
(* stale count is written, but the status does not.                          *)
UnusableStaysUnusable ==
  [][\A l \in Links :
       links[l] # NoLink /\ ~IsUsable(l, links[l]) => ~IsUsable(l, links[l])']_linkVars

(* A link is marked paid, or counted as used, only by that many orders. *)
PaidWasUsed ==
  /\ LinkTypeOK
  /\ \A l \in Links :
       /\ links[l].uses <= orders[l]
       /\ links[l].status = "paid" => MaxUses[l] > 0 /\ orders[l] >= MaxUses[l]

(* "Creates an Order, increments use_count, marks paid if max_uses hit": no *)
(* more orders than max_uses are made through a link.                       *)
MaxUsesRespected == \A l \in Links : MaxUses[l] > 0 => orders[l] <= MaxUses[l]

=============================================================================
