SPECIFICATION Spec
CONSTANTS
    Typed = {t1}
    Mailed = {m1}
    Nobody = Nobody
    MaxToolTurns = 2
    MaxRetries = 1
    StallTurns = 2
    MaxCalls = 2
    QueueLen = 1
INVARIANTS
    CallsAnswered
    RecordsClosed
    ReviewedOnce
    StopIsPrompt
PROPERTY
    TurnsEnd
CHECK_DEADLOCK FALSE
