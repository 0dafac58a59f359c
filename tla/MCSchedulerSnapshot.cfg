SPECIFICATION SnapshotSpec
CONSTANTS
    None = None
    p1 = p1
    f1 = f1
    r1 = r1
    Pollers = {p1}
    Fulls = {f1}
    Readers = {}
    MaxAccount = 1
    MaxGroup = 2
    MaxFailures = 1
INVARIANTS
    SnapshotTypeOK
    ConsumedRowsAreApplied
PROPERTIES
    LifecycleNeverGoesBack
