CONSTANTS
    Requests = {r1, r2}
    MaxFailures = 2
SPECIFICATION FairSpec
PROPERTIES Called ClosedResolves
CHECK_DEADLOCK FALSE
