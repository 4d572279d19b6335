SPECIFICATION Spec
CONSTANTS
    NoOutcome = NoOutcome
    NoResult = NoResult
    NoFile = NoFile
    Stages = FALSE
    Ignorable = {}
    Foreign = {}
    MaxActs = 2
INVARIANT PatchApplies
CHECK_DEADLOCK FALSE
