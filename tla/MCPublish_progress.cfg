SPECIFICATION FairSpec
CONSTANTS
    Workers = {w1, w2}
    NoWorker = NoWorker
    MaxGens = 2
    MaxAttempts = 4
    MaxStalls = 1
    MaxCrashes = 0
    MaxErrors = 0
    LiveStall = FALSE
    ShortLease = TRUE
    Reconcilable = FALSE
    Idempotent = FALSE
CHECK_DEADLOCK FALSE
PROPERTIES EventuallySettled
