SPECIFICATION SessionSpec
CONSTANTS
    AI_AUDIT_CAP = 3
    AI_MAX_TASKS = 2
    MaxRecords = 7
    ROWS = 3
    COLS = 3
    KLOG_CAP = 4
    LINE_MAX = 5
    HIST_MAX = 2
    Letters = {"h", "d", "c", "o", "g"}
    MaxChars = 15
INVARIANTS
    AuditIsLog
    AttemptsSettled
    LogsAreRecent
    EchoIsLine
