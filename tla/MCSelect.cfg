SPECIFICATION Spec
CONSTANTS
  Plan = {1, 2, 3}
  ActionCount <- ThreePlans
  Limited = {1}
  RateLimit = 1
  Request = {r1, r2}
  Kinds = {"confirm", "replan"}
  MaxOpen = 2
  MaxCrashes = 0
  None = None
INVARIANT OneSelectedPlan
SYMMETRY Interchangeable
CHECK_DEADLOCK FALSE
