SPECIFICATION Spec
CONSTANTS
    Kinds = {"text"}
    Capacity = 1
    Delays = 3
    MaxCommands = 1
    MaxFailures = 4
    MaxClock = 1
PROPERTY BackoffFollowsDrain
CHECK_DEADLOCK FALSE
