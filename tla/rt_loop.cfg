SPECIFICATION Spec
CONSTANTS
  Keys = {k1, k2, k3}
  Kinds = {"none", "fixed", "rotating"}
  MaxRetries = 4
  NoKey = NoKey
INVARIANTS
  DeadKeyNeverCalled
  FairRotation
  TrailTruthful
  BackoffKept
  BudgetKept
  VerdictTruthful
