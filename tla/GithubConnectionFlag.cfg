SPECIFICATION Spec
CONSTANTS
    Browsers = {b1, b2}
    Requests = {r1}
    Workers = {w1}
    NoBrowser = NoBrowser
    MaxTokens = 2
    MaxKeys = 2
PROPERTIES
    FlaggedOnlyByGithub
