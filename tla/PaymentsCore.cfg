SPECIFICATION Spec
CONSTANTS
  Workers = {w1, w2}
  Orders = {o1}
  PaymentIds = {p1, p2}
  RefundIds = {r1, r2}
  Price <- PriceTwo
  Channels = {"service"}
  LeaseOverrun = TRUE
  MaxFaults = 1
  MaxCallbacks = 0
  Amounts <- UpToFull
  None = None
SYMMETRY Symmetry
INVARIANTS
  RefundWithinAmount
  LedgerBalanced
  RefundStatusExact
  CaptureRecorded
  KeyHasHolder
