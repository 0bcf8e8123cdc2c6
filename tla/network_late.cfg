SPECIFICATION Spec
CONSTANTS
    ModelInputSize = 8
    MaxModelCalcSize = 2
    Capacity = 20
    BlockSizes <- MCDividing
    RunTime = 13
    MaxLost = 20
PROPERTY ImplementsDelayLine
PROPERTY Recovers
