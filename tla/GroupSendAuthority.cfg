SPECIFICATION Spec
CONSTANTS
    Groups = {g1}
    QueueCapacity = 2
    StreamCapacity = 1
    CommandCapacity = 1
    MaxReconnects = 0
    MaxContents = 0
    MaxChanges = 0
    MaxCommands = 0
    MaxClicks = 0
PROPERTY GroupSendsNeedAuthority
