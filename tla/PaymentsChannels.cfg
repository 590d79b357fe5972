SPECIFICATION Spec
CONSTANTS
  Workers = {w1, w2}
  Orders = {o1}
  PaymentIds = {p1}
  RefundIds = {r1, r2}
  Price <- PriceTwo
  Channels = {"service", "card", "collect", "intent", "netbanking", "wallet"}
  LeaseOverrun = FALSE
  MaxFaults = 1
  MaxCallbacks = 1
  Amounts <- BeyondFull
  None = None
INVARIANTS
  SettledWasCaptured
  PaidOrderWasCaptured
  LockExclusive
PROPERTIES
  LockComesFree
  RefundDecided
  RefinesLedger
