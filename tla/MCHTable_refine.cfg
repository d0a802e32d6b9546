SPECIFICATION FairSpec
CONSTANTS
    k1 = k1  k2 = k2  k3 = k3  d1 = d1  d2 = d2
    Key <- Keys2
    Data <- TwoData
    NULL = NULL
    Hash <- CollidingHash
    InitialCap = 2
    DeletedInitCap = 1
    DeletedMinCap = 1
PROPERTIES RefinesDict OrderKept SetReturns
