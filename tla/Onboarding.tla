----------------------------- MODULE Onboarding -----------------------------
(***************************************************************************)
(* How one merchant goes live: KYCService, the KYC views, the merchant     *)
(* admin's actions and the generation of live API keys.  Each request      *)
(* loads the merchant once, when it is authenticated, and tests that       *)
(* object; what follows are UPDATEs by id, outside any transaction.        *)
(***************************************************************************)
EXTENDS Naturals

CONSTANTS
  Documents,    \* KYCDocument.DOCUMENT_TYPES
  Required,     \* REQUIRED_DOCUMENTS
  BankAccounts, \* bank accounts the merchant may enter
  Handlers,     \* requests served at the same time
  MaxChanges,   \* bound: uploads, bank details and submissions
  MaxCrashes,   \* bound: killed processes
  Null

ASSUME OnboardingAssumption ==
  /\ Required \subseteq Documents
  /\ MaxChanges \in Nat /\ MaxCrashes \in Nat
  /\ Null \notin BankAccounts

VARIABLES
  merchant,     \* the Merchant row
  docs,         \* KYCDocument rows, by type
  liveKey,      \* the merchant has a live API key
  reviews,      \* what each request is doing
  dropped,      \* history: the account the last penny drop went to
  approvedOnce, \* history: the KYC has been approved at some time
  fresh,        \* history: documents uploaded since the last rejection
  changes,
  crashes

kycVars == <<merchant, docs, liveKey, reviews, dropped, approvedOnce, fresh, changes, crashes>>

-----------------------------------------------------------------------------
KycStatus == {"pending", "submitted", "under_review", "approved", "rejected"}
DocumentStatus == {"none", "uploaded", "verified", "rejected"}
KycPlaces ==
  {"idle", "documents", "submit", "approve", "verify", "golive", "key", "reject", "reset"}

Merchant == [kyc: KycStatus, bank: BankAccounts \cup {Null}, verified: BOOLEAN, live: BOOLEAN,
             active: BOOLEAN]
NewMerchant ==
  [kyc |-> "pending", bank |-> Null, verified |-> FALSE, live |-> FALSE, active |-> TRUE]

IdleReview == [at |-> "idle", seen |-> NewMerchant]

KycTypeOK ==
  /\ merchant \in Merchant
  /\ docs \in [Documents -> DocumentStatus]
  /\ liveKey \in BOOLEAN
  /\ reviews \in [Handlers -> [at: KycPlaces, seen: Merchant]]
  /\ dropped \in BankAccounts \cup {Null}
  /\ approvedOnce \in BOOLEAN
  /\ fresh \subseteq Documents
  /\ changes \in 0..MaxChanges
  /\ crashes \in 0..MaxCrashes

KycInit ==
  /\ merchant = NewMerchant
  /\ docs = [d \in Documents |-> "none"]
  /\ liveKey = FALSE
  /\ reviews = [w \in Handlers |-> IdleReview]
  /\ dropped = Null
  /\ approvedOnce = FALSE
  /\ fresh = {}
  /\ changes = 0
  /\ crashes = 0

KycBegin(w, place) ==
  /\ reviews[w] = IdleReview
  /\ reviews' = [reviews EXCEPT ![w] = [at |-> place, seen |-> merchant]]

KycGo(w, place) == reviews' = [reviews EXCEPT ![w].at = place]
KycDone(w) == reviews' = [reviews EXCEPT ![w] = IdleReview]

Change == changes < MaxChanges /\ changes' = changes + 1

-----------------------------------------------------------------------------
(* The merchant, authenticated by an API key: the account must be active. *)

(* update_or_create, at any time, also of a document that has been verified. *)
Uploaded(d) == [docs EXCEPT ![d] = "uploaded"]

UploadDocument(w, d) ==
  /\ reviews[w] = IdleReview
  /\ merchant.active
  /\ Change
  /\ docs' = Uploaded(d)
  /\ fresh' = fresh \cup {d}
  /\ UNCHANGED <<merchant, liveKey, reviews, dropped, approvedOnce, crashes>>

WithAccount(account) == [merchant EXCEPT !.bank = account, !.verified = FALSE]

UpdateBank(w, account) ==
  /\ reviews[w] = IdleReview
  /\ merchant.active
  /\ Change
  /\ merchant' = WithAccount(account)
  /\ UNCHANGED <<docs, liveKey, reviews, dropped, approvedOnce, fresh, crashes>>

Submittable(seen) == seen.kyc \notin {"approved", "under_review"}

LoadForSubmit(w) ==
  /\ merchant.active
  /\ Submittable(merchant)
  /\ Change
  /\ KycBegin(w, "documents")
  /\ UNCHANGED <<merchant, docs, liveKey, dropped, approvedOnce, fresh, crashes>>

Complete == \A d \in Required : docs[d] = "uploaded"

CheckDocuments(w) ==
  /\ reviews[w].at = "documents"
  /\ IF Complete /\ reviews[w].seen.bank # Null THEN KycGo(w, "submit") ELSE KycDone(w)
  /\ UNCHANGED <<merchant, docs, liveKey, dropped, approvedOnce, fresh, changes, crashes>>

(* get_kyc_status tells the merchant so: any row of a required document will do. *)
CanSubmit ==
  /\ merchant.kyc \in {"pending", "rejected"}
  /\ \A d \in Required : docs[d] # "none"
  /\ merchant.bank # Null

WhenSubmitted == "submitted"

SubmitKyc(w) ==
  /\ reviews[w].at = "submit"
  /\ merchant' = [merchant EXCEPT !.kyc = WhenSubmitted]
  /\ KycDone(w)
  /\ UNCHANGED <<docs, liveKey, dropped, approvedOnce, fresh, changes, crashes>>

(* Mutant: any merchant may generate a live key. *)
MayHaveLiveKeyAlways(seen) == TRUE
MayHaveLiveKey(seen) == seen.kyc = "approved"

(* GenerateAPIKeyView with is_live. *)
LoadForLiveKey(w) ==
  /\ merchant.active
  /\ ~liveKey
  /\ MayHaveLiveKey(merchant)
  /\ KycBegin(w, "key")
  /\ UNCHANGED <<merchant, docs, liveKey, dropped, approvedOnce, fresh, changes, crashes>>

CreateLiveKey(w) ==
  /\ reviews[w].at = "key"
  /\ liveKey' = TRUE
  /\ KycDone(w)
  /\ UNCHANGED <<merchant, docs, dropped, approvedOnce, fresh, changes, crashes>>

-----------------------------------------------------------------------------
(* The reviewers: KYCAdminReviewView, and the actions of the merchant admin. *)

Reviewable(seen) == seen.kyc \in {"submitted", "under_review"}

LoadForReview(w, verdict) ==
  /\ Reviewable(merchant)
  /\ KycBegin(w, verdict)
  /\ UNCHANGED <<merchant, docs, liveKey, dropped, approvedOnce, fresh, changes, crashes>>

(* approve_kyc and reject_kyc of MerchantAdmin: the service gets the objects *)
(* of one query, and tests them as the view does.                            *)
SelectForReview(w, verdict) ==
  /\ merchant.kyc \in {"submitted", "under_review"}
  /\ KycBegin(w, verdict)
  /\ UNCHANGED <<merchant, docs, liveKey, dropped, approvedOnce, fresh, changes, crashes>>

Approve(w) ==
  /\ reviews[w].at = "approve"
  /\ merchant' = [merchant EXCEPT !.kyc = "approved"]
  /\ approvedOnce' = TRUE
  /\ KycGo(w, "verify")
  /\ UNCHANGED <<docs, liveKey, dropped, fresh, changes, crashes>>

VerifyDocuments(w) ==
  /\ reviews[w].at = "verify"
  /\ docs' = [d \in Documents |-> IF docs[d] = "uploaded" THEN "verified" ELSE docs[d]]
  /\ KycGo(w, "golive")
  /\ UNCHANGED <<merchant, liveKey, dropped, approvedOnce, fresh, changes, crashes>>

(* Mutant: the merchant is verified but not activated. *)
ActivatedNotLive == [merchant EXCEPT !.verified = TRUE]
Activated == [merchant EXCEPT !.verified = TRUE, !.live = TRUE]

(* The penny drop goes to the account in memory and, mocked, always succeeds. *)
PennyDrop(seen) == [success |-> TRUE, bank |-> seen.bank]

GoLive(w) ==
  /\ reviews[w].at = "golive"
  /\ PennyDrop(reviews[w].seen).success
  /\ merchant' = Activated
  /\ dropped' = PennyDrop(reviews[w].seen).bank
  /\ KycGo(w, "key")
  /\ UNCHANGED <<docs, liveKey, approvedOnce, fresh, changes, crashes>>

Reject(w) ==
  /\ reviews[w].at = "reject"
  /\ merchant' = [merchant EXCEPT !.kyc = "rejected"]
  /\ fresh' = {}
  /\ KycGo(w, "reset")
  /\ UNCHANGED <<docs, liveKey, dropped, approvedOnce, changes, crashes>>

(* "Reset all docs to uploaded so merchant re-uploads" *)
ResetDocuments(w) ==
  /\ reviews[w].at = "reset"
  /\ docs' = [d \in Documents |-> IF docs[d] = "none" THEN "none" ELSE "uploaded"]
  /\ KycDone(w)
  /\ UNCHANGED <<merchant, liveKey, dropped, approvedOnce, fresh, changes, crashes>>

(* Only the admin's change form ever chooses this status. *)
StartReview(w) ==
  /\ reviews[w] = IdleReview
  /\ merchant.kyc = "submitted"
  /\ merchant' = [merchant EXCEPT !.kyc = "under_review"]
  /\ UNCHANGED <<docs, liveKey, reviews, dropped, approvedOnce, fresh, changes, crashes>>

(* KYCDocumentAdmin leaves the status of a document open to editing; only *)
(* here a document is ever rejected.                                      *)
EditDocument(w, d, status) ==
  /\ reviews[w] = IdleReview
  /\ Change
  /\ docs[d] \notin {"none", status}
  /\ docs' = [docs EXCEPT ![d] = status]
  /\ UNCHANGED <<merchant, liveKey, reviews, dropped, approvedOnce, fresh, crashes>>

(* suspend_merchant and unsuspend_merchant *)
SetActive(w, active) ==
  /\ reviews[w] = IdleReview
  /\ merchant.active # active
  /\ merchant' = [merchant EXCEPT !.active = active]
  /\ UNCHANGED <<docs, liveKey, reviews, dropped, approvedOnce, fresh, changes, crashes>>

Crash(w) ==
  /\ reviews[w] # IdleReview
  /\ crashes < MaxCrashes
  /\ crashes' = crashes + 1
  /\ KycDone(w)
  /\ UNCHANGED <<merchant, docs, liveKey, dropped, approvedOnce, fresh, changes>>

-----------------------------------------------------------------------------
KycWork(w) ==
  \/ CheckDocuments(w)
  \/ SubmitKyc(w)
  \/ CreateLiveKey(w)
  \/ Approve(w)
  \/ VerifyDocuments(w)
  \/ GoLive(w)
  \/ Reject(w)
  \/ ResetDocuments(w)

KycNext ==
  \/ \E w \in Handlers :
       \/ \E d \in Documents : UploadDocument(w, d)
       \/ \E account \in BankAccounts : UpdateBank(w, account)
       \/ LoadForSubmit(w)
       \/ LoadForLiveKey(w)
       \/ \E verdict \in {"approve", "reject"} :
            LoadForReview(w, verdict) \/ SelectForReview(w, verdict)
       \/ StartReview(w)
       \/ \E d \in Documents, status \in DocumentStatus \ {"none"} : EditDocument(w, d, status)
       \/ \E active \in BOOLEAN : SetActive(w, active)
       \/ KycWork(w)
       \/ Crash(w)

(* A request that has begun is carried on. *)
KycFairness == \A w \in Handlers : WF_kycVars(KycWork(w))

KycSpec == KycInit /\ [][KycNext]_kycVars /\ KycFairness

-----------------------------------------------------------------------------
(* A live merchant, or one with a live key, was approved at some time. *)
LiveWasApproved == KycTypeOK /\ (merchant.live \/ liveKey => approvedOnce)

(* approve_kyc "activates merchant": who is approved goes live, whatever    *)
(* overlaps with the approval, unless the process is killed in the middle.  *)
ApprovedGoesLive == merchant.kyc = "approved" ~> merchant.live \/ crashes > 0

Documented(from, to) ==
  \/ to = "submitted" /\ from \in {"pending", "rejected"}
  \/ to = "under_review" /\ from = "submitted"
  \/ to \in {"approved", "rejected"} /\ from \in {"submitted", "under_review"}

(* A request makes no transition but those that the docstrings and messages *)
(* of submit_kyc, approve_kyc and reject_kyc name, unless the status it     *)
(* tested is no longer the merchant's.                                      *)
FreshKycTransitions ==
  [][merchant'.kyc # merchant.kyc =>
       \/ Documented(merchant.kyc, merchant'.kyc)
       \/ \E w \in Handlers :
            reviews'[w] # reviews[w] /\ reviews[w].seen.kyc # merchant.kyc]_kycVars

-----------------------------------------------------------------------------
(* What comments and docstrings say and overlapping requests break *)

(* "Transitions: pending/rejected to submitted" and the like, always. *)
KycTransitions ==
  [][merchant'.kyc # merchant.kyc => Documented(merchant.kyc, merchant'.kyc)]_kycVars

(* can_submit (get_kyc_status): who is told to submit is not refused for a *)
(* missing document.                                                       *)
CanSubmitIsKept == CanSubmit => Complete

(* An approval that has begun is finished, whatever happens to its process. *)
ApprovalIsFinished == merchant.kyc = "approved" ~> merchant.live

(* "Reset verification on change" (kyc_views.py): a verified account is the *)
(* one the penny went to.                                                   *)
VerifiedIsCurrent == merchant.verified => merchant.bank = dropped

(* "Merchant must re-upload documents and resubmit" (reject_kyc). *)
ResubmittedIsFresh ==
  [][merchant.kyc = "rejected" /\ merchant'.kyc = "submitted" => Required \subseteq fresh]_kycVars

=============================================================================
