SPECIFICATION Spec
CONSTANTS
    W = 3
    H = 2
    BYTE_MOD = 2
    Moves = {0, 1}
    Reports <- MCReports
    Clock <- MCClock
    Panel <- MCPanel
    Dock <- MCDock
INVARIANTS
    OnScreen
    ScreenIntact
    QuietMeansSeen
PROPERTY
    NoGhostClick
