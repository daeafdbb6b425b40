SPECIFICATION FairMeterSpec
CONSTANTS
    k1 = k1  k2 = k2  c1 = c1  c2 = c2  c3 = c3  w1 = w1  NoKey = NoKey
    Keys <- TwoKeys
    Calls <- ThreeCalls
    KeyOf <- SharedKey
    Quotas <- OneCall
    Passes <- NoPasses
    MaxAmount = 1
    MaxLimit = 1
    FirstInstant = 3
    MaxClock = 6
    TTL = 2
    BatchLimit = 1
INVARIANTS CountedIsRecorded ServedIsCounted
PROPERTIES UsesLedger CallIsAnswered
