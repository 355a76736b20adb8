CONSTANTS
    Schedules = {s1}
    Messages <- MCMessages
    Confirms <- MCConfirms
    Cancels <- MCCancels
    Specs = {digest, mailing}
    R2Specs = {mailing}
    OneShot = {mailing}
    None = None
    ActionIds = {a1, a2, a3}
    MaxRevision = 3
SPECIFICATION Spec
CHECK_DEADLOCK FALSE
INVARIANTS UpdateNeverCollides
