SPECIFICATION Spec
CONSTANTS
    WordBytes = 2
    random_device <- Seeds
    mt19937_64 <- Generator
    Documents <- SampleDocuments
INVARIANTS
    OwnRepliesParse
    ReplyNamesRequest
    NoFalseCorrelation
\* One exchange, then the end.
CHECK_DEADLOCK FALSE
