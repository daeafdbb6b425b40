SPECIFICATION SeatSpec
CONSTANTS
    c1 = c1  c2 = c2  c3 = c3  c4 = c4  c5 = c5  u1 = u1  u2 = u2  u3 = u3  u4 = u4  NoKey = NoKey
    Users <- FourUsers
    FirstSeats <- FirstTwo
    Requests <- FiveRequests
    OpOf <- Ops
    UserOf <- About
    Keys <- AllKeys
    Quotas <- TwoSeats
    Passes <- NoPasses
    MaxAmount = 1
    MaxLimit = 2
    FirstInstant = 1
    MaxClock = 1
    TTL = 1
    BatchLimit = 1
CHECK_DEADLOCK FALSE
INVARIANTS SeatsAreCovered SeatsWithinLimit
