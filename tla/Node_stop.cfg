SPECIFICATION Spec
CONSTANTS
    WordBytes = 1
    random_device <- Seeds
    mt19937_64 <- Generator
    worker_count = 2
    Lines <- OddLines
    MaxLines = 2
    InitsInFlight = 2
    MaxSpurious = 1
    CallsStop = TRUE
INVARIANTS
    TasksAccountedFor
    WholeLines
    OnlyStopLeavesRequests
    RepliesMatchRequests
\* stop() can leave the main thread or a worker behind: the system really may stop.
CHECK_DEADLOCK FALSE
