SPECIFICATION ReportSpec
CONSTANTS
    Files = {1, 2, 3}
    Text <- Lines
    Plain = {1, 3}
    Sources = {1, 3}
    Tests = {3}
    Diffs <- SmallDiffs
    Reports <- SmallReports
    Candidates <- SmallCandidates
    MaxReports = 3
    MaxCandidates = 2
    MaxFindings = 3
    MaxPerRule = 1
    MaxPerFile = 2
    MergePad = 1
    ContextPad = 1
    Security <- security
    Correctness <- correctness
INVARIANTS
    NothingVanishes
    NoEviction
    NotesBelong
    SurvivesDrift
    AiIsAnchored
    OrderIsIrrelevant
CHECK_DEADLOCK FALSE
