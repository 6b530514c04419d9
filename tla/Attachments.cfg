SPECIFICATION FairSpec
CONSTANTS
    Requests = {r1, r2, r3}
    Sizes = {1, 2}
    MaxBytes = 3
    MaxAttachments = 2
    MaxRecoveries = 1
INVARIANTS PermitsExact TransferNotOrphaned
PROPERTY CancelFreesCapacity
CHECK_DEADLOCK FALSE
