SPECIFICATION Spec
CONSTANTS
  j1 = j1
  j2 = j2
  g = g
  Runners = {n1, n2}
  Ids = {NoId, n1, n2}
  NoId = NoId
  Namings <- AnyIds
  JobIds = {j1}
  Gos = {w1, w2}
  Keys = {g}
  KeyOf <- NoKeys
  Recalcs = {j1}
  Unwanted = {j1}
  NoKey = NoKey
  NoGo = NoGo
  NoRunner = NoRunner
  NoJob = NoJob
  Caps = {2}
  MaxAttempts = 3
  Pages = 1
  MaxTrouble = 2
SYMMETRY Symmetry
CONSTRAINT FewTroubles
CHECK_DEADLOCK FALSE
INVARIANTS
  FenceExact
  PoisonBounded
  CancelReaches
PROPERTIES
  TerminalIsFinal
  CursorNeverBack
