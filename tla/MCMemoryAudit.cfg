SPECIFICATION Spec
CONSTANTS
  KeyOrder <- Keys
  Request = {r1, r2}
  Run = {w1}
  Planning = {p1}
  Sent <- Requests
  NoRow = NoRow
INVARIANT EveryChangeRecorded
CHECK_DEADLOCK FALSE
