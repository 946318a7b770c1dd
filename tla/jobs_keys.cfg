SPECIFICATION FairSpec
CONSTANTS
  j1 = j1
  j2 = j2
  g = g
  Runners = {n1}
  Ids = {NoId}
  NoId = NoId
  Namings <- EmptyIds
  JobIds = {j1, j2}
  Gos = {w1, w2}
  Keys = {g}
  KeyOf <- OneKey
  Recalcs = {}
  Unwanted = {}
  NoKey = NoKey
  NoGo = NoGo
  NoRunner = NoRunner
  NoJob = NoJob
  Caps = {1, 2}
  MaxAttempts = 2
  Pages = 0
  MaxTrouble = 1
CONSTRAINT StampedFirst
CHECK_DEADLOCK FALSE
INVARIANTS
  StartedInOrder
  OverlapOnlyAfterLapse
PROPERTIES
  EveryJobSettles
