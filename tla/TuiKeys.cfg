SPECIFICATION KeysSpec
CONSTANTS
    UndoMax = 3
    HistoryMax = 2
    MaxStrokes = 4
    MaxEvents = 1
    WireMax = 1
    MaxCuts = 1
    Strokes = {"a", "at", "slash", "space", "ctrlW", "enter", "escape", "left", "upO", "accent", "down", "paste", "ctrlC", "ctrlD", "ctrlE", "ctrlO", "ctrlQ", "ctrlR", "ctrlZ"}
    Sent <- MCSent
INVARIANTS
    UndoLinks
PROPERTIES
    ChunksDontMatter
CHECK_DEADLOCK FALSE
