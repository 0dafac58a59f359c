CONSTANTS
    None = None
    Operations = {o1, o2, o3}
    OperationIds = {i1, i2}
    Lease = 4
    RenewInterval = 1
    TTL = 4
    AcquireDelay = 1
    MayMiss = TRUE
    MaxClock = 4
SPECIFICATION Spec
SYMMETRY Symmetry
CHECK_DEADLOCK FALSE
INVARIANTS
    CreatorKeepsLock
