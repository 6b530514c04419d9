SPECIFICATION Spec
CONSTANTS
    Groups = {g1, g2}
    QueueCapacity = 2
    StreamCapacity = 1
    CommandCapacity = 1
    MaxReconnects = 1
    MaxContents = 0
    MaxChanges = 0
    MaxCommands = 0
    MaxClicks = 2
PROPERTY TimeoutOpensJoins
