SPECIFICATION RefineSpec
CONSTANTS
    Sessions = {s1, s2}
    Atoms = {a}
    Threads = {t1, t2}
    MaxEdits = 2
    MaxLessons = 2
    MaxRounds = 2
    MaxUndos = 2
INVARIANTS
    RoundsNumbered
PROPERTIES
    UndoRestores
CHECK_DEADLOCK FALSE
SYMMETRY Interchangeable
