SPECIFICATION Spec
CONSTANTS
    Visitors = {v1, v2}
    Keep = 3
    MaxRows = 5
    MaxStarts = 5
INVARIANTS
    ClaimedReviewExists
SYMMETRY Alike
CHECK_DEADLOCK FALSE
