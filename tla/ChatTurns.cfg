SPECIFICATION Spec
CONSTANTS
    Workers = {1, 2}
    Runs = {4}
    Sides = {5}
    MaxCommands = 3
    Tools = {"edit", "shell"}
    MaxCalls = 1
    GoalTurns = 1
    Habits = {{"queue", "goal"}, {"queue", "plan", "tools"}, {"team", "tools"},
              {"approve", "tools"}, {"session", "voice"}, {"side"}}
INVARIANTS
    
    FreshYes
    CheckpointFirst
PROPERTIES
    QueueDrains
CHECK_DEADLOCK FALSE
