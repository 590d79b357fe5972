SPECIFICATION LinkSpec
CONSTANTS
  l1 = l1
  Links = {l1}
  MaxUses <- TwiceThenAlways
  Expires = {l1}
  Callers = {c1, c2, c3}
  MaxOrders = 4
  Null = Null
SYMMETRY Symmetry
INVARIANTS
  PaidWasUsed
PROPERTIES
  UnusableStaysUnusable
