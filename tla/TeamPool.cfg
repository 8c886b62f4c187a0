SPECIFICATION LiveRun
CONSTANTS
    Claimers = {c1, c2}
    NoTask = NoTask
    MaxTasks = 2
    MaxSubtasks = 1
    MaxDepth = 2
    MaxWorkers = 2
    MaxTotal = 3
    RawPlans <- SmallPlans
    PlanAttempts = 2
    Metrics = TRUE
    HasDeadline = FALSE
    CanInterrupt = FALSE
    CanGiveUp = FALSE
INVARIANTS
    OneOwner
    NoOrphan
    ReportAgrees
PROPERTIES
    ImplementsBoard
    ReturnsOrStuck
CHECK_DEADLOCK FALSE
