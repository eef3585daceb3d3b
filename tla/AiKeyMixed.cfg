SPECIFICATION KeySpec
CONSTANTS
    Saves = {s1, s2, s3}
    Removals = {}
    Providers = {p1, p2}
PROPERTY
    LastWriteWins
CHECK_DEADLOCK FALSE
