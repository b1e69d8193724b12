CONSTANTS
    Categories = {"malware"}
    Jobs = {j1}
    Workers = {w1}
    MAX_RETRIES = 1
    WEBHOOK_MAX_ATTEMPTS = 1
    StoreEnabled = TRUE
    Clients = {c1}
    Owner <- MCOwner
    Reports <- MCOneReport
    Submissions <- MCWebhookOnly
    MaxFaults <- MCOneFault
SPECIFICATION Spec
INVARIANT DoneIsAccepted
CHECK_DEADLOCK FALSE
