SPECIFICATION Spec
CONSTANTS
  Attempts = 1
  MaxLost = 0
  Pings = 2
  Refused = {"notify"}
CHECK_DEADLOCK FALSE
INVARIANT StateExpected
