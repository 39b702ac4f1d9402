SPECIFICATION FairSpec
CONSTANTS
    WordBytes = 1
    random_device <- Seeds
    mt19937_64 <- Generator
    worker_count = 2
    Lines <- WorkloadLines
    MaxLines = 3
    InitsInFlight = 1
    MaxSpurious = 1
    CallsStop = FALSE
INVARIANTS
    TypeOK
    CleanShutdown
    PopsAreSafe
PROPERTIES
    IdentityIsFinal
    NothingIgnoredAfterInitOk
    ImplementsService
    RequestsAreHandled
    JoinCompletes
\* The shutdown can hang (run shutdown_hangs): the system really may stop.
CHECK_DEADLOCK FALSE
