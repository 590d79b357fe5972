SPECIFICATION Spec
CONSTANTS
  Addresses = {e1}
  Workers = {w1, w2}
  Consumed = {"celery"}
  MaxKeys = 4
  MaxRetries = 3
  MaxBounces = 4
  MaxFaults = 1
  None = None
INVARIANTS
  AccountIsWhole
  HalfAccountOnlyByFault
  ActiveUserHasMerchant
  LateKeysBounded
  MailNotLost
