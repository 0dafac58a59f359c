CONSTANTS
    None = None
    Requests = {r1, r2, r3}
    Fingerprints = {f1, f2}
    TTL = 2
    ProcessingTimeout = 1
    FailedRetryBackoff = 1
    MaxClock = 4
SPECIFICATION Spec
SYMMETRY Symmetry
CHECK_DEADLOCK FALSE
INVARIANTS
    ReplayIsAuthentic
    OnePayloadPerRecord
    OneExecutor
    EffectsAreApart
