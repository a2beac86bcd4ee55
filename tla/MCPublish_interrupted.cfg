SPECIFICATION FairSpec
CONSTANTS
    Workers = {w1, w2}
    NoWorker = NoWorker
    MaxGens = 1
    MaxAttempts = 3
    MaxStalls = 1
    MaxCrashes = 1
    MaxErrors = 0
    LiveStall = FALSE
    ShortLease = TRUE
    Reconcilable = FALSE
    Idempotent = FALSE
CHECK_DEADLOCK FALSE
PROPERTIES InterruptedRequestIsReexamined
