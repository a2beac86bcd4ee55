SPECIFICATION Spec
CONSTANTS
    Attempts = {t1, t2}
    NoAttempt = NoAttempt
    Requests = {r1, r2}
    DirectAccounts = {threads}
    PageAccounts = {page}
    InstagramAccounts = {instagram}
    WellFormed = {threads, page}
    Procs = {api, worker}
    Api = api
CHECK_DEADLOCK FALSE
SYMMETRY Symmetry
INVARIANTS TypeOK CodeSentOnce ReadableThroughRotation
PROPERTIES ImplementsConsentRegister
