SPECIFICATION Spec
CONSTANTS
    Verdicts = {v1}
    v1 = v1
    MaxWakePolls = 1
    MaxTries = 1
PROPERTY
    RefusedCancelIsPolled
CHECK_DEADLOCK FALSE
