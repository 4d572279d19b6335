SPECIFICATION Spec
CONSTANTS
    MaxArtifacts = 3
    MaxCommands = 4
INVARIANT TypeOK
INVARIANT NothingLeftBehind
INVARIANT ScriptHidden
INVARIANT VerdictIsTests
CHECK_DEADLOCK FALSE
