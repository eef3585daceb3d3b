SPECIFICATION LiveSpec
CONSTANTS
    Verdicts = {v1, v2}
    v1 = v1
    v2 = v2
    MaxWakePolls = 1
    MaxTries = 2
INVARIANTS
    WatchedWhileActive
    CompletedShowsFindings
    CancellingIsTrue
    FeedbackIsShown
PROPERTIES
    PageCatchesUp
CHECK_DEADLOCK FALSE
