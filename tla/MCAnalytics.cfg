SPECIFICATION FairSpec
CONSTANTS
    N = 3
    Collectors = {c1, c2}
    Limit = 2
    Broken = {1}
    MaxTrouble = 1
    MaxAged = 1
    MaxDeaths = 1
INVARIANTS TypeOK ReadsHaveACause
PROPERTIES DashboardNeverGoesBack CollectionKeepsUp
