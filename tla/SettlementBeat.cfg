SPECIFICATION Spec
CONSTANTS
  m1 = m1
  p1 = p1
  Merchants = {m1}
  PaymentIds = {p1}
  Owner <- OwnedByOne
  Price <- TwoThenOne
  SettlementIds = {s1}
  Tasks = {t1}
  Admins = {a1}
  FeeNum = 1
  FeeDen = 4
  MaxFaults = 0
  MaxEdits = 0
  None = None
PROPERTIES
  RunsAgainAndAgain
