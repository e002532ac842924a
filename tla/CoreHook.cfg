SPECIFICATION FairSpec
CONSTANTS
    h1 = h1
    h2 = h2
    h3 = h3
    Hooks = {h1, h2, h3}
    NoHook = NoHook
    Window = 2
    Configs <- AllConfigs
    PipeSize = 2
    SizeMax = 15
    Mega = 2
    CapSize = 1
    TrimTurns = 2
    MaxTime = 2
INVARIANTS
    RepeatedOnly
    CoresWhole
    StormTrimmed
PROPERTIES
    HookEnds
CHECK_DEADLOCK FALSE
