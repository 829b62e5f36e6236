SPECIFICATION Spec
CONSTANTS
    Irqs = {0, 7, 12}
    Scenarios <- DesktopUser
    MaxIrqs = 1
    MaxCommands = 1
INVARIANT
    SleepIsWakeable
