CONSTANTS
    WORKER_RESULT_TTL = 2
    Owner = "drive"
    MaxTime = 5
    MaxRedeliveries = 1
SPECIFICATION PollSpec
INVARIANTS
    NotFoundIsExplained
    PendingIsExplained
    ResultStaysResult
CHECK_DEADLOCK FALSE
