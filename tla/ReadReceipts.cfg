SPECIFICATION ReadSpec
CONSTANTS
    Reads = {d1, d2, g1}
    GroupReads = {g1}
    PendingLimit = 2
    Capacity = 1
    MaxDeliveries = 4
    MaxOthers = 1
    MaxLosses = 1
SYMMETRY DirectSymmetry
INVARIANTS SentWasFocused EligibleHasWakeup
CHECK_DEADLOCK FALSE
