SPECIFICATION Spec
CONSTANTS
  KeyOrder <- Keys
  Request = {r1, r2}
  Run = {w1}
  Planning = {p1}
  Sent <- Requests
  NoRow = NoRow
PROPERTY OthersUntouched
CHECK_DEADLOCK FALSE
