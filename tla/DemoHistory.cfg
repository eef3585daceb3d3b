SPECIFICATION Spec
CONSTANTS
    Visitors = {v1, v2}
    Keep = 1
    MaxRows = 4
    MaxStarts = 5
INVARIANTS
    PageNeverEmpty
    HistoryBounded
SYMMETRY Alike
CHECK_DEADLOCK FALSE
