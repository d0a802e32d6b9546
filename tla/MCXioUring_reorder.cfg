SPECIFICATION Spec
CONSTANTS
    x1 = x1  x2 = x2  x3 = x3  u1 = u1  u2 = u2  u3 = u3
    XIO = XIO  NULL = NULL
    DataId = {x1, x2}
    Udata = {u1, u2}
    Size = {1}
    Bid <- TwoBids
    InOrder = FALSE
    Op = {"READ"}
    BufSize = 2
    SqEntries = 1
    MaxFree = 1
    MaxResults = 2
INVARIANTS PointsAtData
CHECK_DEADLOCK FALSE
