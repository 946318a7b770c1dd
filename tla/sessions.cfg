SPECIFICATION Spec
CONSTANTS
  k1 = k1
  k2 = k2
  k3 = k3
  Requests = {q1, q2, q3}
  KeyIds = {k1, k2, k3}
  Pools <- SomePools
  TTL = 1
  Nil = Nil
  MaxNow = 2
  MaxMoves = 1
SYMMETRY RequestSymmetry
CHECK_DEADLOCK FALSE
INVARIANTS
  SplitNeedsLoss
PROPERTIES
  LiveEntryKept
