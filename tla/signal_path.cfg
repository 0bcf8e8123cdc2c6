SPECIFICATION Spec
CONSTANTS
    Networks = {n1, n2}
    BlockSize = 2
    CollectBlocks = 2
    WarmBlocks = 3
    Layouts = {1, 2}
CHECK_DEADLOCK FALSE
INVARIANTS TypeOK InsideFinite SettledFinite EnvelopesFinite
PROPERTY Settles
