CONSTANTS
    Categories = {"malware", "nsfw"}
    ScoreValues = {0, 1, 2}
    MaxResults = 3
SPECIFICATION Spec
INVARIANTS
    VerdictIsStrongestClaim
    UnusableMeansEveryAxisFailed
    OrderIndependent
    VersionsAgree
PROPERTIES
    AdvisoryOnlyAddsDetections
CHECK_DEADLOCK FALSE
