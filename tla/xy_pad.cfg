SPECIFICATION Spec
CONSTANTS
    Parts = {n1, n2}
    Pointers = {p1, p2}
    HideAfter = 3
INVARIANTS TypeOK ShownIsWatched GesturesEnd
PROPERTY ComesToRest
