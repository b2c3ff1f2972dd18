SPECIFICATION Spec
CONSTANTS
    None = None
    Master = Master
    A = A
    B = B
    Shards = {}
    MaxSeqno = 3
    Lag = 2
    MaxFaults = 1
    PatientServer = FALSE
    ShardsOf <- NoShards
INVARIANTS
    PublishedRoutable
    PublishedFollowsRight
    SearchRangeNonEmpty
PROPERTIES
    RightContiguous
    PublishedMonotone
    LeftMonotone
    RefinesView
