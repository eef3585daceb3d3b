SPECIFICATION ContactSpec
CONSTANTS
    a1 = a1
    a2 = a2
    v1 = v1
    r1 = r1
    r2 = r2
    NoCaller = NoCaller
    Callers = {a1, a2}
    Requests = {r1, r2}
    Senders = {v1}
    SenderOf <- OneSender
    MaxRequests = 1
    Window = 2
    MaxResends = 2
    MaxDelay = 1
    MaxTime = 3
INVARIANTS
    WindowLimit
    RefusedForCause
    StorageIsTruth
SYMMETRY Alike
CHECK_DEADLOCK FALSE
