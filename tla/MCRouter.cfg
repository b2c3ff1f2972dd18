SPECIFICATION Spec
CONSTANTS
    None = None
    Clients = {c1, c2}
    Reliable = {}
    MaxSeqno = 3
SYMMETRY Symmetry
CONSTRAINT FewKinds
INVARIANTS
    TypeOK
    OnlyHolders
    ToldIsServed
    LatestFindsOne
PROPERTIES
    AnswersKeepUp
