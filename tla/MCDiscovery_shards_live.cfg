SPECIFICATION FairSpec
CONSTANTS
    None = None
    Master = Master
    A = A
    B = B
    Shards = {A, B}
    MaxSeqno = 3
    Lag = 0
    MaxFaults = 0
    PatientServer = TRUE
    ShardsOf <- Split
PROPERTIES
    ShardsCatchUp
