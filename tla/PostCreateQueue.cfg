SPECIFICATION Spec
CONSTANTS
    Servers = {s1, s2, s3}
    NoServer = NoServer
    d1 = d1
    d2 = d2
    d3 = d3
    p1 = p1
    p2 = p2
    Dirs = {d1, d2, d3}
    NoDir = NoDir
    Issues = {p1}
    IssueOf <- OneIssue
    EarlyIssues = {p1}
    ProvokedIssues = {}
    UnfitDirs = {}
    Stubborn = {}
    Debugging = {FALSE}
    MaxClientCount = 3
    MaxDirs = 3
    MayCrash = FALSE
    MaxRestarts = 0
    MaxHooks = 0
INVARIANTS
    AtMostOneProcessing
    SignalsSafe
    CountNotInflated
    SurvivorExists
PROPERTIES
    ImplementsTurnQueue
SYMMETRY SymmetryAll
CHECK_DEADLOCK FALSE
