------------------------------ MODULE Gateways ------------------------------
(***************************************************************************)
(* The gateways of PayZap and how a card finds one: the BIN lookup, the    *)
(* routing by card network, MockBankGateway and RazorpayGateway, and the   *)
(* status each service writes for a gateway's answer.  Pure operators: the *)
(* payment core makes its steps of them.                                   *)
(***************************************************************************)
EXTENDS Integers

-----------------------------------------------------------------------------
(* Cards, up to what lookup_bin and _get_scenario tell apart. *)

(* The four card numbers the mock gateway knows; all of them are Visa. *)
TestCards == {"success", "decline", "3ds_required", "timeout"}
Networks == {"visa", "mastercard", "rupay", "amex", "unknown"}

(* Any other card is named after its network.  Fewer than six digits: unknown. *)
Cards == TestCards \cup Networks \cup {"sanctioned"}

(* lookup_bin: the sanctioned BINs come first, then the database, then the prefix. *)
IsSanctioned(card) == card = "sanctioned"
NetworkOf(card) == CASE card \in TestCards -> "visa"
                     [] card \in Networks  -> card
                     [] OTHER              -> "unknown"

(* get_gateway_for_network, and _get_gateway, which falls back to the mock *)
(* when no Razorpay key is configured or the client cannot be built.       *)
GatewayForNetwork(network) ==
  IF network \in {"visa", "mastercard", "amex"} THEN "razorpay" ELSE "mock"
GatewaysOf(card) == {GatewayForNetwork(NetworkOf(card)), "mock"}

-----------------------------------------------------------------------------
(* Answers.  The error code matters only where a service looks at it. *)

Success == [success |-> TRUE, status |-> "authorized", code |-> "none"]
Failure == [success |-> FALSE, status |-> "failed", code |-> "other"]
Needs3DS == [success |-> FALSE, status |-> "pending_3ds", code |-> "3DS_REQUIRED"]

(* MockBankGateway.authorize: a card it does not know succeeds four times in five. *)
Scenario(card) == IF card \in TestCards THEN card ELSE "random"
MockAuthorize(card) ==
  CASE Scenario(card) = "success"      -> {Success}
    [] Scenario(card) = "3ds_required" -> {Needs3DS}
    [] Scenario(card) = "random"       -> {Success, Failure}
    [] OTHER                           -> {Failure}

(* The UPI branch asks nobody. *)
MockAuthorizeUpi == {Success}

(* RazorpayGateway.authorize opens an order at Razorpay, whatever the card: *)
(* a bad request or an exception of the client is a failure.                *)
RazorpayAuthorize == {Success, Failure}

AuthorizeAt(gateway, card) == IF gateway = "razorpay" THEN RazorpayAuthorize ELSE MockAuthorize(card)

(* MockBankGateway.capture, given the payment as the request loaded it: only *)
(* too large an amount is refused.                                           *)
MockCaptures(status, amount, authorized) == status = "authorized" /\ amount <= authorized

-----------------------------------------------------------------------------
(* What the services write. *)

(* PaymentService._update_payment_state; UPIService does the same. *)
RowFor(result) == IF result.success THEN result.status ELSE "failed"

(* CardPaymentService: a card that needs 3DS stays in processing. *)
CardRowFor(result) == IF result.code = "3DS_REQUIRED" THEN "processing" ELSE RowFor(result)

(* PaymentService always asks the mock gateway, CardPaymentService the one *)
(* the card is routed to.                                                  *)
ServiceRows(card) == {RowFor(result) : result \in MockAuthorize(card)}
CardRows(card) ==
  {CardRowFor(result) : result \in UNION {AuthorizeAt(g, card) : g \in GatewaysOf(card)}}
UpiRows == {RowFor(result) : result \in MockAuthorizeUpi}

(* Wallets: the mocked SDK turns MobiKwik down, and every wallet wants 100 *)
(* paise, which an order has (validate_amount).                            *)
Wallets == {"paytm", "phonepe", "amazonpay", "mobikwik", "freecharge"}
WalletRow(wallet) == IF wallet = "mobikwik" THEN "failed" ELSE "authorized"

(* Every status a payment's row can get for a gateway's answer. *)
Outcomes == {"authorized", "failed", "processing"}

=============================================================================
