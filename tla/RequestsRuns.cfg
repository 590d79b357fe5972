SPECIFICATION RequestSpec
CONSTANTS
  k1 = k1
  k2 = k2
  ApiKeys = {k1, k2}
  Owner <- OneEach
  Calls <- ThreeCalls
  RateLimit = 2
  Handlers = {w1, w2}
  OrderIds = {o1, o2, o3}
  MaxErrors = 1
  Null = Null
SYMMETRY Symmetry
INVARIANTS
  CounterWillExpire
  SameKeySameOrder
  DoubleProcessingBounded
