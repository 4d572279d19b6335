SPECIFICATION Spec
CONSTANTS
    MaxCalls = 3
    MaxTokens = 5
    MaxReply = 2
    MaxPrompt = 2
    MaxEstimate = 2
    MaxTries = 4
    MaxFlushFails = 1
INVARIANT TypeOK
INVARIANT JournalAhead
INVARIANT OverdrawnByOnePrompt
PROPERTY GenerateEnds
PROPERTY KeepsTheBook
