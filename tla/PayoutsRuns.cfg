SPECIFICATION Spec
CONSTANTS
  Requests = {r1}
  Workers = {w1}
  PayoutIds = {p1, p2, p3}
  Amounts = {1}
  DailyLimit = 1
  Consumed = {"celery"}
  MaxRows = 2
  MaxDays = 1
  MaxRedeliveries = 1
  MaxFaults = 2
  None = None
INVARIANTS
  OvershootBounded
  PaidOncePerDelivery
  StrandedByFault
