SPECIFICATION Spec
CONSTANTS
    NoOutcome = NoOutcome
    NoResult = NoResult
    NoFile = NoFile
    Stages = FALSE
    Ignorable = {}
    Foreign = {}
    MaxActs = 2
INVARIANT ResolvedIsOfficial
CHECK_DEADLOCK FALSE
