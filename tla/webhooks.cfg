SPECIFICATION Spec
CONSTANTS
  Nodes = {n1}
  RunnerId <- OneId
  JobIds = {j1}
  Workers = {w1, w2}
  Events = {"completed"}
  Nil = Nil
  Cap = 2
  MaxRetries = 1
  LeaseTime = 1
  Backoff = 1
  MaxNow = 3
  MaxFaults = 1
  MaxStops = 1
  MaxEdits = 1
  MaxRedeliveries = 1
CONSTRAINT FewTroubles
SYMMETRY WorkerSymmetry
CHECK_DEADLOCK FALSE
INVARIANTS
  FenceExact
  RetiredIsRecorded
  ToldTheTruth
  RetriesBounded
  SlotsExact
