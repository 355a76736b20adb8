CONSTANTS
    None = None
    Task = t
    MaxLinks = 2
    MaxTries = 2
    BitrixWrites = {k}
    MaxAccounts = 2
    Mailboxes = {a1, a2, a3}
    MaxMessages = 5
    Limit = 2
SPECIFICATION Spec
INVARIANTS TypeOK WritesAreAuthorised WrittenOnce ConnectionsHold NewestOfAll
PROPERTIES DoneNotRepeated LostStaysLost
CHECK_DEADLOCK FALSE
