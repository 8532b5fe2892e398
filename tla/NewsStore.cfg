SPECIFICATION NewsFairSpec
CONSTANTS
    beat = beat
    dagster = dagster
    coin = coin
    btc = btc
    eth = eth
    m = m
    a1 = a1
    a2 = a2
    Keys = {coin}
    Attrs = {btc, eth}
    Metas = {m}
    MaxTime = 0
    Ingests = {beat, dagster}
    Articles = {a1}
    MaxEdition = 1
    MaxVersions = 2
    MaxLost = 1
INVARIANTS NewsTypeOK LinksMatchContent
PROPERTY NewsConverges
CHECK_DEADLOCK FALSE
