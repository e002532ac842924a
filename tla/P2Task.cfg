SPECIFICATION FairSpec
CONSTANTS
    Clients = {c1}
    NoClient = NoClient
    Tasks = {1, 2}
    Dirs = {1, 2}
    NoDir = 0
    Stubborn = {2}
    UserProblemsLimit = 1
    Batch = 1
    Interval = 1
    UintMax = 3
    MaxTime = 1
INVARIANTS
    NoForgottenDir
PROPERTIES
    DoneIsKept
    CancelEnds
    LeftLeavesNothing
CHECK_DEADLOCK FALSE
