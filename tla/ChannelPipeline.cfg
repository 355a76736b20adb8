CONSTANTS
    Messages <- TwoMessages
    Workers = {w1, w2}
    NoJob = NoJob
    MaxAttempts <- RetryMessage
    MaxCrashes = 1
    Overrun = FALSE
SPECIFICATION Spec
CHECK_DEADLOCK FALSE
INVARIANTS TypeOK ExclusiveInOrder CompletedIsAnswered TaskIsReported DependencyKept
SYMMETRY WorkerSymmetry
