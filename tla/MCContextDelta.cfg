SPECIFICATION Spec
CONSTANTS
    long = long
    fresh = fresh
    other = other
    missing = missing
    Files <- MCFiles
    Length <- MCLength
    Width = 12
    HistoryAware = TRUE
    MaxNewFiles = 2
    MaxNewTokens = 5
    MaxAnchorFiles = 1
    MaxAnchorTokens = 4
    MaxSpan = 2
    CandidateEnd = 3
    Before = 2
    After = 1
    MaxLine = 2
    MaxActions = 2
    MaxMatches = 3
    MaxCandidates = 2
    MaxSeen = 2
    MaxReads = 1
INVARIANT TypeOK
INVARIANT WithinCaps
INVARIANT NewIsUnread
INVARIANT EvidenceCovered
CHECK_DEADLOCK FALSE
