SPECIFICATION Spec
CONSTANTS
    Workers = {w1, w2}
    Jobs = {j1}
    NoWorker = NoWorker
    NoJob = NoJob
    MaxAttempts = 2
    Stages = 1
    MaxRings = 1
INVARIANTS
    CancelFinishes
