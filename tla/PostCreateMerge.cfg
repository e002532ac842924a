SPECIFICATION Spec
CONSTANTS
    Servers = {s1, s2}
    NoServer = NoServer
    d1 = d1
    d2 = d2
    d3 = d3
    p1 = p1
    p2 = p2
    Dirs = {d1, d2, d3}
    NoDir = NoDir
    Issues = {p1, p2}
    IssueOf <- MixedIssues
    EarlyIssues = {p1}
    ProvokedIssues = {p2}
    UnfitDirs = {d2}
    Stubborn = {d1}
    Debugging = {TRUE, FALSE}
    MaxClientCount = 2
    MaxDirs = 2
    MayCrash = TRUE
    MaxRestarts = 1
    MaxHooks = 1
INVARIANTS
    IInv
    AnsweredMeansSettled
SYMMETRY Symmetry
CHECK_DEADLOCK FALSE
