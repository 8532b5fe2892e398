SPECIFICATION FairSpec
CONSTANTS
    c1 = c1
    c2 = c2
    c3 = c3
    Callers = {c1, c2, c3}
    Threshold = 2
    Cooldown = 2
    Capacity = 10
    Cost = 2
    MaxWindow = 4
INVARIANTS TypeOK RateIsBounded OutageIsCheap StragglersAreFew
PROPERTY Recovers
