SPECIFICATION Spec
CONSTANTS
    Verdicts = {v1, v2}
    v1 = v1
    v2 = v2
    MaxWakePolls = 1
    MaxTries = 1
INVARIANT
    HeardIsStored
CHECK_DEADLOCK FALSE
