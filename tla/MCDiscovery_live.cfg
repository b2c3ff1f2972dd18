SPECIFICATION FairSpec
CONSTANTS
    None = None
    Master = Master
    A = A
    B = B
    Shards = {}
    MaxSeqno = 3
    Lag = 0
    MaxFaults = 1
    PatientServer = TRUE
    ShardsOf <- NoShards
PROPERTIES
    CatchesUp
    LeftRefreshed
