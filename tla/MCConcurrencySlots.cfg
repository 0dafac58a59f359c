SPECIFICATION FairSpec
CONSTANTS
    r1 = r1
    r2 = r2
    c1 = c1
    p1 = p1
    p2 = p2
    Home <- MCHome
    Requests = {r1, r2}
    Calls = {c1}
    Processes = {p1, p2}
    First = p1
    Limit = 1
    QueueLimit = 1
    SlotTTL = 1
    LeaseTTL = 1
CHECK_DEADLOCK FALSE
PROPERTIES
    SlotsImplementSemaphore
    EverythingDrains
