SPECIFICATION Spec
CONSTANTS
  Workers = {w1}
  Turn = turn
  CallIds = {c1, c2, c3}
  Reads = {}
  Writes = {x}
  Scheduled = TRUE
  MaxWrites = 3
  MaxAttempts = 1
  Overrun = FALSE
  MaxCrashes = 0
  MaxSent = 2
  None = None
PROPERTY DoneNotRepeated
CHECK_DEADLOCK FALSE
