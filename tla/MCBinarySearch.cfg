SPECIFICATION FairSpec
CONSTANTS
    None = None
    MaxPoint = 5
    MaxFaults = 1
    Tolerances = {0, 2}
INVARIANTS
    TypeOK
    FindsFirst
    FoundWasKept
    ConvergesOnBest
    FewHops
PROPERTIES
    Terminates
    RefinesSearch
CHECK_DEADLOCK FALSE
