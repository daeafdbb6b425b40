SPECIFICATION Spec
CONSTANTS
    k1 = k1  k2 = k2  w1 = w1  w2 = w2  NoKey = NoKey
    Keys <- TwoKeys
    Quotas <- LimitQuotas
    Passes <- OnePass
    MaxAmount = 5
    MaxLimit = 5
    FirstInstant = 2
    MaxClock = 3
    TTL = 1
    BatchLimit = 1
SYMMETRY KeySymmetry
INVARIANTS TypeOK CounterMatchesCommitted NoOverbooking AlertsSound
PROPERTIES LimitRespected KeepsPromise
