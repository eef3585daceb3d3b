SPECIFICATION Spec
CONSTANTS
    p1 = p1
    p2 = p2
    p3 = p3
    secrets = secrets
    linter = linter
    Paths = {p1, p2, p3}
    SizeOf <- Sizes
    MaxEntries = 2
    MaxFiles = 2
    MaxBytes = 2
    AllTools = {secrets, linter}
    Secrets = secrets
    ToolsFor <- Order
    CompareCap = 3
    MaxAttempts = 2
INVARIANTS
    CountsAreExact
    SilenceMeansChecked
    EveryToolIsNamed
PROPERTY RunEnds
CHECK_DEADLOCK FALSE
