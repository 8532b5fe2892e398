SPECIFICATION FairSpec
CONSTANTS
    coins = coins
    walk = walk
    old = old
    new = new
    m = m
    Keys = {1, 2}
    Attrs = {old, new}
    Metas = {m}
    MaxTime = 0
    Runs = {coins, walk}
    Batching = {coins}
    Page = 2
    MaxRows = 2
    MaxPrice = 1
    MaxFaults = 1
INVARIANTS TypeOK PricesBelong
PROPERTY SpotConverges
CHECK_DEADLOCK FALSE
