SPECIFICATION SnapshotFairSpec
CONSTANTS
    None = None
    p1 = p1
    f1 = f1
    r1 = r1
    Pollers = {}
    Fulls = {f1}
    Readers = {r1}
    MaxAccount = 1
    MaxGroup = 2
    MaxFailures = 1
INVARIANTS
    NotOlderThanRetirement
PROPERTIES
    SnapshotBecomesRight
