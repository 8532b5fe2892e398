SPECIFICATION FairSpec
CONSTANTS
    s1 = s1
    s2 = s2
    a1 = a1
    a2 = a2
    m1 = m1
    m2 = m2
    k1 = k1
    k2 = k2
    Keys = {k1, k2}
    Attrs = {a1, a2}
    Metas = {m1}
    Syncs = {s1, s2}
    Unlisted = Unlisted
    NoSync = NoSync
    NoKey = NoKey
    MaxTime = 1
    MaxChanges = 1
    MaxCrashes = 1
INVARIANTS TypeOK OneCurrent NeverOrphaned VersionsChain
PROPERTIES HistoryIsImmutable DimSpec Converges
