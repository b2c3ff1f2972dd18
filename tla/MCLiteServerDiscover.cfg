SPECIFICATION FairSpec
CONSTANTS
    None = None
    Ids = {i1, i2}
    Addrs = {a1, a2}
    Configs <- WellFormed
    Capacity = 2
    MaxItems = 3
INVARIANTS
    TypeOK
    FollowsConfig
    Kept
    FailsOnce
PROPERTIES
    Settles
