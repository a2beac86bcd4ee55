SPECIFICATION FairSpec
CONSTANTS
    Alerts = {a1, a2}
    Workers = {w1, w2}
    Limit = 2
    MaxTrouble = 2
    MaxDeaths = 1
CHECK_DEADLOCK FALSE
INVARIANTS TypeOK AttemptsHaveACause
PROPERTIES DeliversAtLeastOnce
