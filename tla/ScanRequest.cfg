CONSTANTS
    Categories = {"malware", "nsfw"}
    Builders <- MCBuilders
    CategoryOf <- MCCategoryOf
    ScoredOf <- MCScoredOf
    CLAMAV_MAX_FILE_BYTES = 2
    Configs <- MCConfigs
    Requests <- MCRequests
SPECIFICATION Spec
INVARIANTS
    InfectedNeverReleased
    DefaultSelectionServed
    UnavailableIsTruthful
CHECK_DEADLOCK FALSE
