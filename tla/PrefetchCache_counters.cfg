SPECIFICATION Spec
CONSTANTS
    t1 = t1
    t2 = t2
    k1 = k1
    k2 = k2
    k3 = k3
    s1 = s1
    s2 = s2
    Threads = {t1, t2}
    Keys = {k1, k2, k3}
    Shards = {s1, s2}
    ShardOf <- TwoShards
    MaxBlocks = 2
    Reserved = 1
    Word = 32
SYMMETRY Symmetry
INVARIANTS Accounting OvershootBounded MarksHaveLoaders
PROPERTY NormalEvictsNoVip
