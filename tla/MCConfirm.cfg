SPECIFICATION Spec
CONSTANTS
  Plan = {1, 2}
  ActionCount <- TwoPlans
  Limited = {1}
  RateLimit = 1
  Request = {r1, r2, r3}
  Kinds = {"confirm", "decline", "replan"}
  MaxOpen = 2
  MaxCrashes = 1
  None = None
INVARIANT TypeOK
INVARIANT SnapshotCurrent
INVARIANT EffectsAccounted
INVARIANT SagaPrefix
INVARIANT CompletedRunBacked
INVARIANT SummaryBacked
INVARIANT ExecutionIsExclusive
PROPERTY ImplementsSaga
PROPERTY WritesAreConfirmed
SYMMETRY Interchangeable
CHECK_DEADLOCK FALSE
