SPECIFICATION Spec
CONSTANTS
    Requests = {r1}
    Sizes = {1, 2}
    MaxBytes = 3
    MaxAttachments = 2
    MaxRecoveries = 1
PROPERTY PermitCoversEvent
CHECK_DEADLOCK FALSE
