SPECIFICATION FairSpec
CONSTANTS
    first = first
    again = again
    btc = btc
    eth = eth
    Runs = {first}
    Symbols = {btc,eth}
    DayLength = 3
    Reach = 4
    Patience = 2
    MaxTime = 6
INVARIANTS TypeOK GreenIsStored
PROPERTY EveryMaterialisationEnds
CHECK_DEADLOCK FALSE
