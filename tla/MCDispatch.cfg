SPECIFICATION FairSpec
CONSTANTS
    Jobs = {j1, j2}
    Dispatchers = {d1, d2}
    Limit = 2
    MaxGens = 2
    MaxFaults = 1
CHECK_DEADLOCK FALSE
INVARIANTS TypeOK SentIsQueued
PROPERTIES EventuallyQueued
