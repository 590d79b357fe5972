SPECIFICATION KycSpec
CONSTANTS
  Documents = {pan}
  Required = {pan}
  BankAccounts = {b1}
  Handlers = {w1}
  MaxChanges = 4
  MaxCrashes = 0
  Null = Null
PROPERTIES
  ResubmittedIsFresh
