SPECIFICATION Spec
CONSTANTS
    retry = retry
    single = single
    Processes = {retry, single}
    Work <- MCWork
    MaxTokens = 1
    TaskRetries = 1
    Cap = 2
    NoFile = NoFile
    MaxFaults = 1
INVARIANT TypeOK
INVARIANT NeverOvercounts
INVARIANT MissesOnlyWhatMoved
PROPERTY EachGetsDone
