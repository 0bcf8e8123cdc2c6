SPECIFICATION Spec
CONSTANTS
    ModelInputSize = 8
    MaxModelCalcSize = 2
    Capacity = 8
    BlockSizes <- MCShort
    RunTime = 2
    MaxLost = 24
INVARIANT NothingLost
