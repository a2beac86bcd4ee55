SPECIFICATION Spec
CONSTANTS
    Jobs = {linkedin, threads}
    Sessions = {e1, e2}
    Texts = {t1, t2}
    NoText = NoText
    NoRow = NoRow
    MaxTime = 2
    MaxRevision = 5
CHECK_DEADLOCK FALSE
SYMMETRY Symmetry
INVARIANTS TypeOK PublishedAsApproved WaitingIsQueued UnfinishedIsQueued NotBeforeItsTime
    CancelClosesPost
PROPERTIES EachJobLives
