CONSTANTS
    RESULT_TIMEOUT = 1
    SUBMIT_TIMEOUT = 5
    POLL_INTERVAL = 2
    CONNECT_TIMEOUT = 3
    MaxDrip = 0
SPECIFICATION JcopSpec
INVARIANT WallTimeWithinBudget
CHECK_DEADLOCK FALSE
