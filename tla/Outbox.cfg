SPECIFICATION OutboxLiveSpec
CONSTANTS
    Direct = {d1}
    Group = {g1}
    MaxAttempts = 3
    NoticeAt = 2
    MaxFaults = 2
    MaxStops = 1
    MaxTurns = 1
INVARIANTS DuplicatesExplained SentIsMarked
PROPERTY RowSettles
CHECK_DEADLOCK FALSE
