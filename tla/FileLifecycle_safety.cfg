SPECIFICATION Spec
CONSTANTS
    r1 = r1
    r2 = r2
    u1 = u1
    Rows = {r1, r2}
    Users = {u1}
    Owner <- OneOwner
    Hashed = {r1, r2}
    RestorePurged = FALSE
    Reupload = FALSE
SYMMETRY Symmetry
INVARIANTS UploadingNameUnshared ConfirmedFileKept
