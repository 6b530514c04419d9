SPECIFICATION FairSpec
CONSTANTS
    Kinds = {"text", "typing", "leave", "control", "read"}
    Capacity = 1
    Delays = 2
    MaxCommands = 2
    MaxFailures = 2
    MaxClock = 2
INVARIANTS SentInOrder NothingVanishes ShownAgrees
PROPERTIES AcceptedIsHandled ShutdownEnds
CHECK_DEADLOCK FALSE
