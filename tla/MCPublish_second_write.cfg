SPECIFICATION Spec
CONSTANTS
    Workers = {w1, w2}
    NoWorker = NoWorker
    MaxGens = 1
    MaxAttempts = 3
    MaxStalls = 1
    MaxCrashes = 0
    MaxErrors = 0
    LiveStall = TRUE
    ShortLease = TRUE
    Reconcilable = FALSE
    Idempotent = FALSE
CHECK_DEADLOCK FALSE
INVARIANTS NoBlindRepeat
