CONSTANTS
    Containers = {"c1", "c2"}
    Probed = "c1"
    Processes = {p1, p2}
    Threads = {t1}
    MaxScan = 3
    WAIT = 2
    LIMIT = 3
    PERIOD = 4
    THRESHOLD = 2
SPECIFICATION Spec
SYMMETRY Symmetry
INVARIANTS
    FailureMeansBusy
    DeadIsRestarted
CHECK_DEADLOCK FALSE
