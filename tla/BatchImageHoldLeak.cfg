SPECIFICATION Spec
CONSTANTS
    None = None
    w1 = w1
    c1 = c1
    Workers = {w1}
    Cancels = {c1}
    Others = 0
    MaxRetries = 1
    MaxReady = 1
INVARIANT ReleaseIdMeansReturned
CHECK_DEADLOCK FALSE
