SPECIFICATION Spec
CONSTANTS
  a1 = a1
  Accounts = {a1, a2}
  Expected <- ExpectThree
  Amounts = {0, 1, 2}
  Workers = {w1, w2}
  MaxCredited = 4
  None = None
SYMMETRY Symmetry
INVARIANTS
  NeverOvercounts
PROPERTIES
  ClosedStaysClosed
  FreshIsLedger
