SPECIFICATION FairSpec
CONSTANTS
    Servers = {s1, s2}
    NoServer = NoServer
    d1 = d1
    d2 = d2
    d3 = d3
    p1 = p1
    p2 = p2
    Dirs = {d1, d2}
    NoDir = NoDir
    Issues = {p1}
    IssueOf <- OneIssue
    EarlyIssues = {p1}
    ProvokedIssues = {}
    UnfitDirs = {}
    Stubborn = {}
    Debugging = {FALSE}
    MaxClientCount = 2
    MaxDirs = 1
    MayCrash = TRUE
    MaxRestarts = 0
    MaxHooks = 0
PROPERTIES
    WaitEnds
CHECK_DEADLOCK FALSE
