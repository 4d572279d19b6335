SPECIFICATION Spec
CONSTANTS
    N = 2
    MaxCalls = 2
    MaxTokens = 2
    MaxCallCost = 2
    TaskRetries = 1
    Cap = 4
    NoCap = NoCap
    NoFile = NoFile
    MayRecover = TRUE
    MaxFaults = 2
INVARIANT TypeOK
INVARIANT AccountingSound
INVARIANT StartsClean
INVARIANT CompleteMeansAllDone
PROPERTY CompletedIsFinal
PROPERTY ConsumptionNeverDrops
PROPERTY CommandEnds
PROPERTY EventuallyAllDone
PROPERTY KeepsTheBooks
INVARIANT CapOvershootBounded
