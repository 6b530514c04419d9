SPECIFICATION FairSpec
CONSTANTS
    Messages = {d1, g1}
    GroupMessages = {g1}
    MaxPending = 2
    RecentLimit = 2
    AckBatch = 1
    StreamCapacity = 1
    MaxDeliveries = 3
    MaxReconnects = 1
    MaxRuns = 2
INVARIANT NothingForgotten
PROPERTIES ImplementsDelivery AckedIsRecorded ReplayDrains
