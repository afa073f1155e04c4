CONSTANTS
    Capture = capture
    Eviction = eviction
    Http = {http1, http2}
    Task <- MCTask
    Lock <- SharedState
    Rank <- LockOrder
    Scripts <- MCScripts
    MaxJobs = 2

SPECIFICATION Spec

INVARIANTS
    OrderRespected
    NoDeadlock

PROPERTY JobsFinish

CHECK_DEADLOCK FALSE
