CONSTANTS
    Schedules = {s1}
    Messages <- MCMessages
    Confirms <- MCConfirms
    Cancels <- MCCancels
    Specs = {digest, mailing}
    R2Specs = {mailing}
    OneShot = {mailing}
    None = None
    ActionIds = {a1, a2, a3}
    MaxRevision = 3
SPECIFICATION Spec
INVARIANTS TypeOK AuthorisedRevision R2Confirmed PendingGrantIsAnswerable
PROPERTIES GrantsNeverRevive OldVersionUninterrupted KeepsContract
CHECK_DEADLOCK FALSE
SYMMETRY ActionSymmetry
