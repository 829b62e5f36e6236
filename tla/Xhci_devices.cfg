SPECIFICATION XhciFairSpec
CONSTANTS
    MAX_DEV = 2
    PORTS = 3
    SLOTS = 3
    MaxReports = 3
    Machines <- AllMachines
INVARIANTS
    ReadyIsArmed
    PressesTyped
    HidFound
PROPERTIES
    AnswersAreOwn
    BringUpEnds
