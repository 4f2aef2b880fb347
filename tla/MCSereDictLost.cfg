SPECIFICATION Spec
CONSTANTS
    Keys = {0, 1, 2, 3, 4, 5, 6, 7}
    Vals = {"a"}
    Hash <- HashId
    InitCap = 8
    MaxLen = 1
INVARIANT StoredIsFound
