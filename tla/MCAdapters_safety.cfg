SPECIFICATION FairSpec
CONSTANTS
    MaxAttempts = 2
    MaxMedia = 2
    MaxPolls = 2
    Refusals = {429}
CHECK_DEADLOCK FALSE
INVARIANTS TypeOK RejectedIsUnpublished PostIsWhole LedgerCoversRequests
PROPERTIES ImplementsRemoteWrite
