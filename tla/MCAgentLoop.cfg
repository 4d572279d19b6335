SPECIFICATION Spec
CONSTANTS
    read1 = read1
    read2 = read2
    search1 = search1
    edit1 = edit1
    edit2 = edit2
    final1 = final1
    unknown1 = unknown1
    NoAction = NoAction
    Reads <- MCReads
    Searches <- MCSearches
    Edits <- MCEdits
    Finals <- MCFinals
    Unknowns <- MCUnknowns
    Preloaded <- MCPreloaded
    MaxSteps = 4
    MaxRepairs = 1
    AttemptBudget = 12
    MaxCompletion = 3
    MaxPrompt = 2
    MaxEstimate = 4
    Margin = 1
    MinCompletion = 2
INVARIANT TypeOK
INVARIANT OvershootBounded
INVARIANT ExecutedOnce
INVARIANT CorrectionReadsEarned
INVARIANT LockInForce
PROPERTY AttemptEnds
CHECK_DEADLOCK FALSE
