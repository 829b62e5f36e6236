SPECIFICATION AppsSpec
CONSTANTS
    MAX_FILES = 3
    ARENA = 5
    NO_MAX = 2
    Names = {"welcome", "readme", "notes.txt", "x"}
    Notes = "notes.txt"
    Bytes = {"a", "b"}
    Texts <- TwoTexts
    Seeds <- TwoSeeds
    BASE = 5
    Digits = {0, 1, 3}
    Operators = {"+", "-", "*", "/"}
    MAX = 7
    MaxKeys = 6
    PANEL_W = 8
    PANEL_H = 9
    CANVAS_H = 7
    MARGIN = 2
    RADIUS = 1
    COLOURS = 2
    SWATCH = 2
    GAP = 1
INVARIANTS
    NotesLostOnlyWhenFull
    CalcIsReference
    StrokesAreSolid
PROPERTY
    IsFileMap
