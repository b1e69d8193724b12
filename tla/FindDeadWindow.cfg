CONSTANTS
    Containers = {"c1", "c2"}
    Probed = "c1"
    Processes = {p1, p2}
    Threads = {t1}
    MaxScan = 3
    WAIT = 1
    LIMIT = 1
    PERIOD = 3
    THRESHOLD = 2
SPECIFICATION Spec
INVARIANT DeadWithinWindow
CHECK_DEADLOCK FALSE
