SPECIFICATION KycSpec
CONSTANTS
  Documents = {pan, cheque, gst}
  Required = {pan, cheque}
  BankAccounts = {b1, b2}
  Handlers = {w1, w2}
  MaxChanges = 6
  MaxCrashes = 1
  Null = Null
INVARIANTS
  LiveWasApproved
PROPERTY
  ApprovedGoesLive
