SPECIFICATION Spec
CONSTANTS
  Plan = {1}
  ActionCount <- LongPlan
  Limited = {}
  RateLimit = 1
  Request = {r1, r2}
  Kinds = {"confirm"}
  MaxOpen = 1
  MaxCrashes = 0
  None = None
INVARIANT NoDuplicateWrite
SYMMETRY Interchangeable
CHECK_DEADLOCK FALSE
