CONSTANTS
    RESULT_TIMEOUT = 4
    SUBMIT_TIMEOUT = 7
    POLL_INTERVAL = 2
    CONNECT_TIMEOUT = 3
    MaxDrip = 2
SPECIFICATION FairSpec
INVARIANTS
    FinishedAnalysisDecides
    BudgetShared
PROPERTY ScanEnds
CHECK_DEADLOCK FALSE
