SPECIFICATION FairSpec
CONSTANTS
    None = None
    Clients = {c1, c2}
    Reliable = {c1}
    MaxSeqno = 2
INVARIANTS
    OnlyHolders
    LatestFindsOne
PROPERTIES
    HandedOver
