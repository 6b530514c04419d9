SPECIFICATION OutboxSpec
CONSTANTS
    Direct = {d1}
    Group = {g1}
    MaxAttempts = 3
    NoticeAt = 2
    MaxFaults = 0
    MaxStops = 1
    MaxTurns = 2
PROPERTY IdentityBlockedKept
CHECK_DEADLOCK FALSE
