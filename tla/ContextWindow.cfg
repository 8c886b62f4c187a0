SPECIFICATION Spec
CONSTANTS
    Said = {2, 30}
    Replies = {2}
    Returned = {2, 12}
    MaxRows = 5
    MaxCalls = 2
    MaxCrashes = 1
    RowLimit = 4
    Budget = 173
    Limit = 20
    KeepRecent = 1
    Keep = 5
    Marker = 1
    Snippet = 2
    Short = 10
INVARIANTS
    PairsStay
PROPERTIES
    TrimSpares
    TrimEndsOrSpins
CHECK_DEADLOCK FALSE
