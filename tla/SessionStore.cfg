SPECIFICATION Spec
CONSTANTS
    MaxSessions = 2
    MaxRows = 4
    GhostMax = 2
    RowLimit = 3
    MaxCommands = 3
    MaxReports = 1
    MaxFaults = 1
INVARIANTS
    NoCopies
    MemoryInLog
PROPERTIES
    RestoreUndoes
CHECK_DEADLOCK FALSE
