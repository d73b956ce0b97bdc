SPECIFICATION RequestsSpec
CONSTANTS
    o = o
    h = h
    v = v
    f = f
    s1 = s1
    s2 = s2
    s3 = s3
    r1 = r1
    r2 = r2
    h1 = h1
    h2 = h2
    c1 = c1
    c2 = c2
    p1 = p1
    p2 = p2
    Users = {o, h, v}
    Files = {f}
    Owner <- OneOwner
    Subjects <- LinkAndGrant
    Sharers = {r1, r2}
    ShareIds = {s1, s2, s3}
    Level <- Levels
    Media <- AllVideo
    Hosts = {h1, h2}
    Codes = {c1}
    MaxPlaylists = 2
    MaxRequests = 3
    Viewer = h
    Video = f
    Reporters = {p1, p2}
    Times = {0, 3}
    Deltas = {1}
    Tolerance = 1
    Slack = 1
    MaxReports = 2
CHECK_DEADLOCK FALSE
SYMMETRY Symmetry
CONSTRAINT Within
INVARIANTS RightsReachOwner RoomsShowPlaylists LinksBounded MaxReachedEarned WatchedKept
