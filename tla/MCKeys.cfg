SPECIFICATION FairSpec
CONSTANTS
    Requests = {r1, r2}
    NoRequest = NoRequest
    Ttl = 3
    Cooldown = 2
    Timeout = 1
    MaxFailures = 1
INVARIANTS TypeOK
PROPERTIES CacheNeverGoesBack RemovedKeyFades RefusedForACause RotationNeedsNoRestart
