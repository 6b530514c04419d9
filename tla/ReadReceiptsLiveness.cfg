SPECIFICATION ReadLiveSpec
CONSTANTS
    Reads = {d1, g1}
    GroupReads = {g1}
    PendingLimit = 2
    Capacity = 1
    MaxDeliveries = 3
    MaxOthers = 1
    MaxLosses = 1
PROPERTY EligibleIsFlushed
CHECK_DEADLOCK FALSE
