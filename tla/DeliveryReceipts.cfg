SPECIFICATION LiveSpec
CONSTANTS
    Receipts = {r1, r2, r3}
    Limit = 2
    MaxEnqueues = 2
    MaxReconnects = 1
    MaxBreaks = 2
INVARIANT InFlightOwned
PROPERTY ReceiptSettles
CHECK_DEADLOCK FALSE
