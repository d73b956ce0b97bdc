SPECIFICATION FairSpec
CONSTANTS
    r1 = r1
    r2 = r2
    u1 = u1
    Rows = {r1}
    Users = {u1}
    Owner <- OneOwner
    Hashed = {r1}
    RestorePurged = TRUE
    Reupload = TRUE
PROPERTIES   PurgedRowsGo UploadsResolve LeaksReclaimed DanglingRowsFlagged
