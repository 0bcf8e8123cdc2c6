SPECIFICATION Spec
CONSTANTS
    Capacity = 6
    BlockSizes = {1, 2, 4, 5}
INVARIANTS TypeOK CountedIsThere
PROPERTIES SharedRingIsQueue Flows NoFalseMiss
