SPECIFICATION FairRun
CONSTANTS
    Claimers = {c1, c2}
    NoTask = NoTask
    MaxTasks = 2
    MaxSubtasks = 1
    MaxDepth = 1
    MaxWorkers = 1
    MaxTotal = 2
    RawPlans <- SmallPlans
    PlanAttempts = 1
    Metrics = TRUE
    HasDeadline = TRUE
    CanInterrupt = TRUE
    CanGiveUp = TRUE
INVARIANTS
    SweepSticks
PROPERTIES
    DoneIsFinal
    
CHECK_DEADLOCK FALSE
