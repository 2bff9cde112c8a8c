SPECIFICATION Spec
CONSTANTS
  KeyOrder <- Keys
  Request = {r1, r2}
  Run = {w1, w2}
  Planning = {p1}
  Sent <- Requests
  NoRow = NoRow
INVARIANT TypeOK
INVARIANT StatusIsAsked
INVARIANT NoEmbrace
PROPERTY InfluenceIsAsked
PROPERTY PrimaryIsCurrent
PROPERTY SummaryIsTrue
SYMMETRY SameActors
CHECK_DEADLOCK FALSE
