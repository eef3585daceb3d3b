SPECIFICATION KeySpec
CONSTANTS
    Saves = {s1, s2, s3}
    Removals = {d1, d2}
    Providers = {p1, p2}
SYMMETRY Alike
INVARIANTS
    MixNeedsARace
    OnlyRemovalsBreakSaves
CHECK_DEADLOCK FALSE
