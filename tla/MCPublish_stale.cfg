SPECIFICATION Spec
CONSTANTS
    Workers = {w1, w2}
    NoWorker = NoWorker
    MaxGens = 2
    MaxAttempts = 2
    MaxStalls = 1
    MaxCrashes = 1
    MaxErrors = 0
    LiveStall = TRUE
    ShortLease = TRUE
    Reconcilable = TRUE
    Idempotent = TRUE
CHECK_DEADLOCK FALSE
SYMMETRY Symmetry
INVARIANTS PublishedIsReal FailedIsAlerted
PROPERTIES ConfirmedIsKept
