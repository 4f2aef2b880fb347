SPECIFICATION Tables
CONSTANTS
    Wakers = {a, b}
    InitCap = 2
    MaxNow = 3
    MaxCalls = 5
    Keys = {0, 1, 4, 5}
    Vals = {"a", "b"}
    Hash <- HashId
    DictCap = 4
    MaxLen = 3
    Blocks = {1, 2, 3}
    Size <- HalfSize
    MaxRoots = 1
    Switches = FALSE
INVARIANT EveryEntryFound
PROPERTIES RefinesExecutor RunEnds RefinesMap KeepsReachable FreesGarbage
