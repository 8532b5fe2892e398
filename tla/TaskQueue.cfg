SPECIFICATION FairSpec
CONSTANTS
    batch = batch
    again = again
    w1 = w1
    w2 = w2
    Ids = {batch, again}
    Slots = {w1, w2}
    Swallowing = {batch}
    Expiring = {batch}
    MaxRetries = 1
    MaxWait = 1
    SoftLimit = 1
    HardLimit = 2
    MaxAck = 1
    Visibility = 4
    MaxFaults = 1
INVARIANTS TypeOK NothingVanishes NoOverlap FailuresAwaitReview
PROPERTIES EveryTaskEnds KeepsPromise
CHECK_DEADLOCK FALSE
