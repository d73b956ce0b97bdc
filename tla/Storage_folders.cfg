SPECIFICATION StorageSpec
CONSTANTS
    t1 = t1
    t2 = t2
    x = x
    y = y
    Threads = {t1, t2}
    Names = {x, y}
    Like <- Wild
    Sizes = {1}
    Quota = 1
    MaxFolders = 3
    MaxFiles = 3
    MaxDepth = 2
    MaxRequests = 4
CHECK_DEADLOCK FALSE
SYMMETRY Symmetry
INVARIANTS QuotaExceededByRequests FilesFound FoldersFound
