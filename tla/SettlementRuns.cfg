SPECIFICATION Spec
CONSTANTS
  m1 = m1
  p1 = p1
  Merchants = {m1}
  PaymentIds = {p1, p2}
  Owner <- OwnedByOne
  Price <- TwoThenOne
  SettlementIds = {s1, s2}
  Tasks = {t1}
  Admins = {a1}
  FeeNum = 1
  FeeDen = 4
  MaxFaults = 1
  MaxEdits = 1
  None = None
SYMMETRY Symmetry
INVARIANTS
  PaidOncePerFailure
  SettledOnce
PROPERTIES
  MarkedIsPaid
