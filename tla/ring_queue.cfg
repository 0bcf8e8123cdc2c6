SPECIFICATION Spec
CONSTANTS
    a = a
    b = b
    Zero = Zero
    NaN = NaN
    Uninit = Uninit
    Sample <- MCSample
    Capacities <- MCCapacities
INVARIANT TypeOK
PROPERTY ImplementsQueue
