SPECIFICATION Spec
CONSTANTS
    Networks = {n1}
    BlockSize = 1
    CollectBlocks = 1
    WarmBlocks = 1
    Layouts = {1, 2}
CHECK_DEADLOCK FALSE
INVARIANT WritesHostChannels
