SPECIFICATION Spec
CONSTANTS
  Requests = {r1}
  Workers = {w1}
  PayoutIds = {p1, p2}
  Amounts = {1}
  DailyLimit = 2
  Consumed = {"default", "payments", "webhooks"}
  MaxRows = 1
  MaxDays = 0
  MaxRedeliveries = 0
  MaxFaults = 0
  None = None
PROPERTIES
  QueuedGetsProcessed
