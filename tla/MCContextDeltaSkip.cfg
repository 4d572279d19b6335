SPECIFICATION Spec
CONSTANTS
    long = long
    fresh = fresh
    other = other
    missing = missing
    Files <- MCFiles
    Length <- MCLength
    Width = 12
    HistoryAware = TRUE
    MaxNewFiles = 2
    MaxNewTokens = 5
    MaxAnchorFiles = 1
    MaxAnchorTokens = 4
    MaxSpan = 2
    CandidateEnd = 3
    Before = 2
    After = 1
    MaxLine = 3
    MaxActions = 1
    MaxMatches = 1
    MaxCandidates = 2
    MaxSeen = 2
    MaxReads = 2
INVARIANT SkippedIsPresent
CHECK_DEADLOCK FALSE
