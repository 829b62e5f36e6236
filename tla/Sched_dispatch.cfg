SPECIFICATION TwoUsersSpec
CONSTANTS
    CAP = 3
    Ids = {0, 1}
    Quanta = {0, 2}
    ITERS = 2
    PICKS = 4
INVARIANTS
    RunningIsCurrent
    BoundedWait
    ContextsKept
PROPERTIES
    KdemoServesAll
    DemoCompletes
