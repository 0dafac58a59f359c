SPECIFICATION Spec
CONSTANTS
    None = None
    w1 = w1
    w2 = w2
    c1 = c1
    Workers = {w1, w2}
    Cancels = {c1}
    Others = 1
    MaxRetries = 2
    MaxReady = 1
SYMMETRY WorkerSymmetry
INVARIANTS
    OneOutcome
    OthersKept
    CompletedIsCharged
    NoWorkAfterRefund
    NoOrphanHold
CHECK_DEADLOCK FALSE
