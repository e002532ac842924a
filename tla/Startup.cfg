SPECIFICATION FairSpec
CONSTANTS
    Daemons = {a1, a2, a3}
    Nobody = Nobody
INVARIANTS
    OneInstance
    ServingMeansReachable
    ParentReportsStarted
PROPERTIES
    StartsOrGivesWay
CHECK_DEADLOCK FALSE
