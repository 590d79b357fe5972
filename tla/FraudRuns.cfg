SPECIFICATION Spec
CONSTANTS
  b1 = b1
  i1 = i1
  Bins = {b1}
  Ips = {i1}
  Attempts <- CardAndUpi
  CardLimit = 2
  IpLimit = 1
  CardWindow = 1
  IpWindow = 1
  BlockTTL = 2
  Workers = {w1, w2}
  MaxFaults = 1
  None = None
INVARIANTS
  StandingReasonBlocks
  CountersWillExpire
  SignalsKeepVerdict
PROPERTY
  BlockIsTemporary
