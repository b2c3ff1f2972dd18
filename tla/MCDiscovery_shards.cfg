SPECIFICATION Spec
CONSTANTS
    None = None
    Master = Master
    A = A
    B = B
    Shards = {A, B}
    MaxSeqno = 3
    Lag = 0
    MaxFaults = 1
    PatientServer = FALSE
    ShardsOf <- Reshard
INVARIANTS
    TypeOK
    ServedIsAnnounced
