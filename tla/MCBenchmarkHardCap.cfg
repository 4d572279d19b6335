SPECIFICATION Spec
CONSTANTS
    N = 2
    MaxCalls = 3
    MaxTokens = 3
    MaxCallCost = 1
    TaskRetries = 1
    Cap = 4
    NoCap = NoCap
    NoFile = NoFile
    MayRecover = TRUE
    MaxFaults = 1
INVARIANT CapIsHard
