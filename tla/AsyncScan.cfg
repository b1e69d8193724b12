CONSTANTS
    Categories = {"malware"}
    Jobs = {j1}
    Workers = {w1, w2}
    MAX_RETRIES = 1
    WEBHOOK_MAX_ATTEMPTS = 1
    StoreEnabled = TRUE
    Clients = {c1}
    Owner <- MCOwner
    Reports <- MCReports
    Submissions <- MCSubmissions
    MaxFaults <- MCOneFault
SPECIFICATION FairSpec
INVARIANTS
    TypeOK
    AckedIsReported
    OnlyFaultsDeadLetter
    UnavailableOnlyWhenExhausted
    DetectionIsReported
    ChannelsAgree
    DeliveryBudget
    NoFileLeaks
PROPERTIES
    ImplementsContract
    EveryJobSettles
CHECK_DEADLOCK FALSE
