SPECIFICATION FairSpec
CONSTANTS
  r1 = r1
  r2 = r2
  r3 = r3
  r4 = r4
  Request = {r1, r2, r3, r4}
  Mixes <- SomeMixes
  None = None
  MaxRecoveries = 1
INVARIANT TypeOK
INVARIANT TurnsContiguous
INVARIANT RunsAreSaid
INVARIANT LineageSound
INVARIANT IntentComplete
INVARIANT StepsKept
INVARIANT ExecutionShown
INVARIANT StreamAdvances
INVARIANT StreamAgrees
PROPERTY RequestsEnd
CHECK_DEADLOCK FALSE
