SPECIFICATION LiveSpec
CONSTANTS
    Groups = {g1}
    QueueCapacity = 2
    StreamCapacity = 1
    CommandCapacity = 1
    MaxReconnects = 1
    MaxContents = 1
    MaxChanges = 1
    MaxCommands = 1
    MaxClicks = 1
INVARIANTS DepartedStaysGone RosterAgrees
PROPERTIES DeferredJoinResolved LeaveResolved
