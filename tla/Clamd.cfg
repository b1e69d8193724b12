CONSTANTS
    Hosts = {h1, h2}
    MaxChunks = 3
    StreamMax = 2
    MAX_RETRIES = 2
    MaxStops = 2
SPECIFICATION Spec
INVARIANT VerdictNeedsWholeStream
CHECK_DEADLOCK FALSE
