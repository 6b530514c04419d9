SPECIFICATION AvatarSpec
CONSTANTS
    Accounts = {a1, a2}
    Images = {good}
    Undecodable = {}
    Files = {f1, f2}
    NoFile = nofile
INVARIANT CachedIsWhole
CHECK_DEADLOCK FALSE
