SPECIFICATION Spec
CONSTANTS
  Workers = {w1, w2}
  Orders = {o1}
  PaymentIds = {p1}
  RefundIds = {r1}
  Price <- PriceTwo
  Channels = {"service"}
  LeaseOverrun = FALSE
  MaxFaults = 0
  MaxCallbacks = 0
  Amounts <- UpToFull
  None = None
PROPERTIES
  CaptureOnlyAuthorized
