SPECIFICATION Spec
CONSTANTS
  Messages = {m1}
  Voices = {m1}
  Requests = {r1, r2}
  Crashes = FALSE
  JobFails = TRUE
  MaxFaults = 1
  None = None
INVARIANTS AcknowledgedIsKept
CHECK_DEADLOCK FALSE
