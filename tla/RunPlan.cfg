SPECIFICATION Spec
CONSTANTS
    NoTask = NoTask
    MaxTasks = 4
    MaxSubtasks = 0
    MaxDepth = 0
    MaxWorkers = 2
    Plans <- MCPlans
INVARIANTS
    NoLostWakeup
    BuiltOnFinal
    AllResolved
PROPERTY
    PlanEnds
CHECK_DEADLOCK FALSE
