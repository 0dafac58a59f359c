SPECIFICATION FairSpec
CONSTANTS
    Processes = {p1, p2}
    Admins = {a1, a2}
    MaxReauth = 1
    MaxGen = 1
    MaxEdits = 1
    MaxRetries = 2
    MaxEvents = 3
    None = None
INVARIANTS
    HealthyErrorNeedsOverlap
    TokenNotLost
PROPERTIES
    ReauthorisationKept
    MarkedIsDead
    DueIsRefreshed
CHECK_DEADLOCK FALSE
