CONSTANTS
    Messages <- OneMessage
    Workers = {w1}
    NoJob = NoJob
    MaxAttempts <- RetryAll
    MaxCrashes = 1
    Overrun = FALSE
SPECIFICATION FairSpec
CHECK_DEADLOCK FALSE
PROPERTIES TurnsRecover
