SPECIFICATION Spec
CONSTANTS
    Browsers = {b1, b2}
    Requests = {r1}
    Workers = {w1}
    NoBrowser = NoBrowser
    MaxTokens = 3
    MaxKeys = 2
INVARIANTS
    LoadedUnderLock
PROPERTIES
    MisflagNeedsAStaleHolder
SYMMETRY Alike
