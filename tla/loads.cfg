SPECIFICATION Spec
\* A load that spins for ever leaves the plugin suspended and nothing to do.
CHECK_DEADLOCK FALSE
CONSTANTS
    NumNetworks = 2
    Sessions <- MCSessions
    InitBlocks = 3
INVARIANT TypeOK
PROPERTIES SessionSafe RingAlone FormerNeverServed ResetAlone Unsuspends
