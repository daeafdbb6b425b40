SPECIFICATION FairSpec
CONSTANTS
    k1 = k1  k2 = k2  w1 = w1  w2 = w2  NoKey = NoKey
    Keys <- OneKey
    Quotas <- DailyQuotas
    Passes <- TwoPasses
    MaxAmount = 1
    MaxLimit = 2
    FirstInstant = 2
    MaxClock = 4
    TTL = 1
    BatchLimit = 1
INVARIANTS SnapshotsSound
PROPERTIES EndedIsSnapshotted OverdueIsFreed
