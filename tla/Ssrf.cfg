CONSTANTS
    Hosts <- MCHosts
    Literal = {"literal"}
    Addresses <- MCAddresses
    Traits <- MCTraits
    DNSAnswers <- MCAnswers
    Submitted <- MCSubmitted
    Locations <- MCLocations
    EnvAllowedUrlHosts = {"shop", "trusted", "literal"}
    EnvSsrfAllowedHosts = {"trusted"}
    MAX_REDIRECTS = 2
    WEBHOOK_MAX_ATTEMPTS = 1
SPECIFICATION Spec
INVARIANTS
    NoInternalDial
    NoDowngrade
    RedirectsBounded
    WebhookOnlyToItsUrl
CHECK_DEADLOCK FALSE
