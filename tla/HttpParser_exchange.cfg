SPECIFICATION Spec
CONSTANTS
    c1 = c1
    c2 = c2
    Conns = {c1, c2}
    Requests <- SomeRequests
    MaxRequests <- TwoAndOne
    IntRange = 6
CHECK_DEADLOCK FALSE
PROPERTIES  Served
