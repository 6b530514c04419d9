SPECIFICATION QueueFairSpec
CONSTANTS
    Producers = {p1, p2}
    Capacity = 2
    MaxQueuedBytes = 2
    EventSizes = {0, 1, 3}
    Batch = 2
    MaxEmits = 2
INVARIANTS LevelTriggered AsleepHasReason InOrderNoLoss
PROPERTY ShutdownCompletes
