SPECIFICATION EntrySpec
CONSTANTS
    n1 = n1
    n2 = n2
    n3 = n3
    Names = {n1, n2, n3}
    TypeOf <- ThreeTypes
    Sizes = {1, 2, 3}
    Root = Root
    user = user
    Callers = {Root, user}
    Nobody = Nobody
    ElementsLimit = 2
    DataSizeLimit = 4
    MaxMessageSize = 4
    MaxUnixFds = 1
    MaxElements = 3
INVARIANTS
    LimitsKept
    ReadBounded
CHECK_DEADLOCK FALSE
