SPECIFICATION Spec
CONSTANTS
    first = first
    again = again
    btc = btc
    eth = eth
    Runs = {first, again}
    Symbols = {btc}
    DayLength = 2
    Reach = 2
    Patience = 1
    MaxTime = 4
INVARIANTS MaterialisedDayIsStored
CHECK_DEADLOCK FALSE
