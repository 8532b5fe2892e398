SPECIFICATION FairSpec
CONSTANTS
    old = old
    new = new
    newest = newest
    Versions = {old, new, newest}
    MaxTs = 3
    MaxCandles = 5
    PageSize = 2
INVARIANTS TypeOK WalkIsExact NoTimeIsMissed
PROPERTY WalkEnds
