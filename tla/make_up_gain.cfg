SPECIFICATION Spec
CONSTANTS
    Ratios <- MCRatios
    Gains <- MCGains
    RingBlocks = 3
INVARIANTS TypeOK ChosenGainKept RingsAligned JumpsWhenChosen
