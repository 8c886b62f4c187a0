SPECIFICATION FairSpec
CONSTANTS
    Worker = {w1, w2}
    Main = {w1}
    Runs = 2
    Resource = {repo}
    Unmanaged = Unmanaged
    Base = Base
    Nobody = Nobody
    LaneLimit = 1
    Slots = 1
    MaxBodies = 2
    MaxRetries = 1
INVARIANTS
    PermitsBalance
    SerialUnlessHung
    SeamIsAlive
    
PROPERTY
    NoWedge
