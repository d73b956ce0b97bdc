SPECIFICATION FairSpec
CONSTANTS
    i1 = i1
    f1 = f1
    f2 = f2
    NoId = NoId
    Ids = {i1}
    InitialId = i1
    Files = {f1, f2}
    MaxWire = 2
    MaxBacklog = 1
    MaxReplies = 2
INVARIANT SenderKnown
PROPERTIES NodeComesAlive NoticesReachMaster
