SPECIFICATION FairSpec
CONSTANTS
    u1 = u1
    u2 = u2
    u3 = u3
    u4 = u4
    n1 = n1
    Archives = {u1, u2, u3, u4}
    DirNames = {n1}
    Content <- Mixed
    Leftovers <- Taken
    max_children = 2
    Capacity = 1
    MaxForkFails = 1
    MayQuit = TRUE
INVARIANTS
    WorkersCounted
PROPERTIES
    ImplementsWorkPool
    NothingReplaced
    DeferredIsStarted
CHECK_DEADLOCK FALSE
