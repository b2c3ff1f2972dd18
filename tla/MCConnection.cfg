CONSTANTS
    Requests = {r1, r2, r3}
    MaxFailures = 2
SYMMETRY Symmetry
SPECIFICATION Spec
INVARIANTS TypeOK NeverUnready BlamedOnce NoneForgotten ErrorsHaveCause
CHECK_DEADLOCK FALSE
