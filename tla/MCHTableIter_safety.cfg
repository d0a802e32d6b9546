SPECIFICATION SpecIter
CONSTANTS
    k1 = k1  k2 = k2  k3 = k3  d1 = d1
    NULL = NULL  NoKey = NoKey
    Key = {k1, k2, k3}
    Data = {d1}
    Hash <- CollidingHash
    InitialCap = 2
    DeletedInitCap = 1
    DeletedMinCap = 1
    LogW = 2
INVARIANTS IndInv LookupComplete EntriesAccounted ListCoversLive RoomToInsert
           KeysOwned IteratorLive EachKeyOnce RoundsUp
VIEW IgnoreRet
