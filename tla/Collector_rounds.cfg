SPECIFICATION FairSpec
CONSTANTS
    a = a
    b = b
    Rows = {1, 2, 3}
    Nodes = {a, b}
    NodeOf <- LostFirst
    Lost = {a}
    Limit = 2
    MaxTasks = 1
PROPERTY PurgedRowsCollected
