SPECIFICATION FairSpec
CONSTANTS
    Conns = {c1}
    Size = 2
    MaxUploads = 2
    MaxDownloads = 2
    MaxQueued = 2
    DiskMayFail = FALSE
INVARIANTS Accounting OrderlyConnections OrderlyUploadsWhole
PROPERTY DownloadsEnd
CHECK_DEADLOCK FALSE
