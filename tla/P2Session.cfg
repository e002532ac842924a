SPECIFICATION Spec
CONSTANTS
    c1 = c1
    c2 = c2
    c3 = c3
    c4 = c4
    user = user
    Root = Root
    Clients = {c1, c2, c3, c4}
    Uid <- TwoUsers
    Requests = {r1, r2}
    NoRequest = NoRequest
    Tokens = {t1}
    NoClient = NoClient
    ClientsLimit = 2
    Durations = {0, 1}
    DefaultDuration = 2
    MaxTime = 2
INVARIANTS
    PendingHasRequest
    NoElevation
    SignalTells
PROPERTIES
    GrantJustified
SYMMETRY Symmetry
CHECK_DEADLOCK FALSE
