SPECIFICATION Spec
CONSTANTS
    NoOutcome = NoOutcome
    NoResult = NoResult
    NoFile = NoFile
    Stages = TRUE
    Ignorable = {"note"}
    Foreign = {"initial"}
    MaxActs = 2
INVARIANT TypeOK
INVARIANT ShellsClosed
INVARIANT ResultIsComplete
INVARIANT PatchIsWhatWasTested
INVARIANT ResultNamesItsAttempt
PROPERTY RunEnds
CHECK_DEADLOCK FALSE
