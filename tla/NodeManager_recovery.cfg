SPECIFICATION FairSpec
CONSTANTS
    n1 = n1
    a1 = a1
    Nodes = {n1}
    Admins = {a1}
    Policies <- SomePolicies
    Limits = {0, 1}
    ConfigEnter = 1
    ConfigExit = 0
    MaxTransfers = 2
    MasterRestarts = TRUE
INVARIANT ModeFollowsLoad
PROPERTIES GoneNodesDeclaredDead StrictModeEnds LimitsReachNodes
