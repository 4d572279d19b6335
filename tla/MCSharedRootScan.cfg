SPECIFICATION Spec
CONSTANTS
    retry = retry
    single = single
    Processes = {retry, single}
    Work <- MCWork
    MaxTokens = 1
    TaskRetries = 1
    Cap = 1
    NoFile = NoFile
    MaxFaults = 0
PROPERTY AdmittedUnderCap
