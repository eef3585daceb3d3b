SPECIFICATION Spec
CONSTANTS
    Visitors = {v1, v2}
    Keep = 3
    MaxRows = 6
    MaxStarts = 5
INVARIANTS
    SupersededNeverCurrent
SYMMETRY Alike
CHECK_DEADLOCK FALSE
