SPECIFICATION Spec
CONSTANTS
    Messages = {d1, d2}
    GroupMessages = {}
    MaxPending = 2
    RecentLimit = 2
    AckBatch = 2
    StreamCapacity = 2
    MaxDeliveries = 2
    MaxReconnects = 0
    MaxRuns = 1
INVARIANT AcceptedAcksDrained
