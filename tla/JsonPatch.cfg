SPECIFICATION Spec
CONSTANTS
    Calls <- AllCalls
    MaxInteger = 3
    MaxIndex = 99
INVARIANTS
    DiffTurnsSourceIntoTarget
    ContainsMeansAt
    AccessOnlyMakes
    UnflattenRestores
    MergedAsMeant
PROPERTIES
    OperationsAreUndone
\* A call ends when it returns or throws.
CHECK_DEADLOCK FALSE
