SPECIFICATION LiveSpec
CONSTANTS
    Workers = {w1, w2}
    Jobs = {j1}
    NoWorker = NoWorker
    NoJob = NoJob
    MaxAttempts = 3
    Stages = 2
    MaxRings = 2
INVARIANTS
    JobReviewInSync
    FindingsOfTheOwner
PROPERTIES
    CancelSticks
    OwnerNotRobbed
    ImplementsLifecycle
    EveryReviewEnds
