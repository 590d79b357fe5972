SPECIFICATION KycSpec
CONSTANTS
  Documents = {pan}
  Required = {pan}
  BankAccounts = {b1}
  Handlers = {w1}
  MaxChanges = 3
  MaxCrashes = 1
  Null = Null
PROPERTIES
  ApprovalIsFinished
