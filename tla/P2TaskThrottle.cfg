SPECIFICATION Spec
CONSTANTS
    Clients = {c1}
    NoClient = NoClient
    Tasks = {1, 2, 3}
    Dirs = {1, 2}
    NoDir = 0
    Stubborn = {}
    UserProblemsLimit = 3
    Batch = 1
    Interval = 2
    UintMax = 3
    MaxTime = 0
INVARIANT Throttled
CHECK_DEADLOCK FALSE
