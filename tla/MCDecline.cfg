SPECIFICATION Spec
CONSTANTS
  Plan = {1, 2}
  ActionCount <- TwoPlans
  Limited = {1}
  RateLimit = 1
  Request = {r1, r2}
  Kinds = {"confirm", "decline"}
  MaxOpen = 2
  MaxCrashes = 0
  None = None
INVARIANT DeclinedPlanUntouched
SYMMETRY Interchangeable
CHECK_DEADLOCK FALSE
