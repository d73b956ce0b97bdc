SPECIFICATION EditingSpec
CONSTANTS
    long = long
    short = short
    e1 = e1
    e2 = e2
    r1 = r1
    s1 = s1
    i1 = i1
    i2 = i2
    i3 = i3
    Editors = {e1, e2}
    Readers = {r1}
    Sources = {s1}
    Contents = {long, short}
    LastBlock = 2
    Length <- TwoLengths
    Inodes = {i1, i2, i3}
SYMMETRY Symmetry
CONSTRAINT Within
INVARIANTS CachedIsCurrent 
