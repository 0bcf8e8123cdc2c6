SPECIFICATION Spec
CONSTANTS
    ModelInputSize = 8
    MaxModelCalcSize = 8
    Capacity = 28
    BlockSizes <- MCAnyBlocks
    RunTime = 6
    MaxLost = 0
INVARIANTS TypeOK NeverMisses NothingLost
