SPECIFICATION Spec
CONSTANTS
  h1 = h1
  h2 = h2
  Handles = {h1, h2}
  NoHandle = NoHandle
  TTL = 3
  MaxSkew = 1
  Skew <- OneFast
  MaxRetries = 3
  MaxExp = 1
INVARIANTS
  OutlivesOrphan
PROPERTIES
  NotStolen
  ImplementsLock
