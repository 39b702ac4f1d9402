SPECIFICATION FairSpec
CONSTANTS
    WordBytes = 1
    random_device <- Seeds
    mt19937_64 <- Generator
    worker_count = 2
    Lines <- WorkloadLines
    MaxLines = 1
    InitsInFlight = 1
    MaxSpurious = 1
    CallsStop = FALSE
PROPERTIES
    ShutdownCompletes
\* The shutdown can hang (run shutdown_hangs): the system really may stop.
CHECK_DEADLOCK FALSE
