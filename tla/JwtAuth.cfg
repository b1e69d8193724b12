CONSTANTS
    JWT_MAX_AGE = 2
    JWT_LEEWAY = 1
    Tokens <- MCTokens
    Requests <- MCRequests
    AsyncPath = "async"
    ISSUER_KEYS <- MCKeys
    JWT_AUDIENCE = "file-scanner"
    JSON_MAX_BODY_SIZE = 1
    MaxTime = 6
    MaxServed = 2
SPECIFICATION AuthSpec
INVARIANTS
    OneTokenOneRequest
    ReplayWindow
    HonestIsServed
CHECK_DEADLOCK FALSE
