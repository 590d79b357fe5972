SPECIFICATION Spec
CONSTANTS
  Addresses = {e1}
  Workers = {w1}
  Consumed = {"default", "payments", "webhooks"}
  MaxKeys = 1
  MaxRetries = 1
  MaxBounces = 0
  MaxFaults = 0
  None = None
PROPERTIES
  VerificationArrives
