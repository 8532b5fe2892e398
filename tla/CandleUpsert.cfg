SPECIFICATION FairSpec
CONSTANTS
    r1 = r1
    r2 = r2
    Times = {1, 2, 3}
    MaxRevision = 1
    Runs = {r1, r2}
    Limit = 2
    MaxFaults = 1
INVARIANTS TypeOK WaitsAscend
PROPERTIES EveryRunEnds RecentCandlesConverge
CHECK_DEADLOCK FALSE
