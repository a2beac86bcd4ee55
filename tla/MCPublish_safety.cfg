SPECIFICATION Spec
CONSTANTS
    Workers = {w1, w2}
    NoWorker = NoWorker
    MaxGens = 2
    MaxAttempts = 4
    MaxStalls = 1
    MaxCrashes = 2
    MaxErrors = 2
    LiveStall = FALSE
    ShortLease = TRUE
    Reconcilable = TRUE
    Idempotent = FALSE
CHECK_DEADLOCK FALSE
SYMMETRY Symmetry
INVARIANTS TypeOK NoBlindRepeat UserActsOnIdleJob OnlyCurrentQueueJobWorks
PROPERTIES ImplementsLifecycle
