SPECIFICATION FairSpec
CONSTANTS
    None = None
    i1 = i1
    i2 = i2
    Instances = {i1, i2}
    MaxVersion = 1
    MaxFailures = 1
INVARIANTS
    SharedCacheIsClean
PROPERTIES
    RowsAreDelivered
    CachesBecomeRight
