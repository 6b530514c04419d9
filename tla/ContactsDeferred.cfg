SPECIFICATION FairSpec
CONSTANTS
    p1 = p1
    p2 = p2
    good = good
    bad = bad
    Accounts = {a1}
    Self = a1
    Images = {good, bad}
    Undecodable = {bad}
    Files = {f1}
    NoFile = nofile
    Peers = {p1, p2}
    Raw <- MCRaw
    Capacity = 1
    EventCapacity = 2
    SparesBlocking = TRUE
    Budgets <- MCBudgets
PROPERTY SnapshotDeferred
CHECK_DEADLOCK FALSE
