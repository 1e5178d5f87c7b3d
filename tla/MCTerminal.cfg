SPECIFICATION Spec
CONSTANTS
    Ids = {i1, i2}
    Payloads = {p1, p2, empty}
    Empty = empty
    None = None
INVARIANTS OnlyRepetitionsHidden OneLateLine OneCommandAfterSignal
SYMMETRY Symmetry
CHECK_DEADLOCK FALSE
