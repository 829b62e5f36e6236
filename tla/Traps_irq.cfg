SPECIFICATION FairSpec
CONSTANTS
    Irqs = {0, 7, 12}
    Scenarios <- Sound
    MaxIrqs = 2
    MaxCommands = 2
INVARIANT
    ContextsIntact
PROPERTY
    TrapsComplete
