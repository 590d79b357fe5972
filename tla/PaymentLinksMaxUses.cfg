SPECIFICATION LinkSpec
CONSTANTS
  l1 = l1
  Links = {l1}
  MaxUses <- TwiceThenAlways
  Expires = {l1}
  Callers = {c1, c2}
  MaxOrders = 3
  Null = Null
SYMMETRY Symmetry
INVARIANTS
  MaxUsesRespected
