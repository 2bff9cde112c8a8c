SPECIFICATION FairSpec
CONSTANTS
  Pair = {p1, p2, p3}
  MaxDrafts = 2
  MaxAttempts = 2
  MaxIndex = 1
  ActionBound = 2
  StepCap = 28
INVARIANT TypeOK
INVARIANT RecoveryAccounted
INVARIANT ExcludedStaysOut
INVARIANT PlansAreReviewed
INVARIANT SafeDraftIsPresented
INVARIANT HandOver
INVARIANT StepsBounded
PROPERTY RunEnds
CHECK_DEADLOCK FALSE
