SPECIFICATION KycSpec
CONSTANTS
  Documents = {pan}
  Required = {pan}
  BankAccounts = {b1, b2}
  Handlers = {w1, w2}
  MaxChanges = 4
  MaxCrashes = 0
  Null = Null
INVARIANTS
  VerifiedIsCurrent
