SPECIFICATION Spec
CONSTANTS
    Requests = {r1, r2}
    Instances = {p1, p2}
    Visits <- MCVisits
    Domain <- MCDomain
    Encoded <- MCEncoded
    Subdomains = {"app", "api"}
    Labels = {"app", "api", "www", "alice"}
    Reserved = {"app", "api", "www"}
    SlugTokens = {"a", "-"}
    Malformed = {"%"}
    ReservedNames = {"favicon.ico"}
    WellKnown = ".well-known"
    MaxSlug = 2
    NoHandle = "no-handle"
    NoAddress = "no-address"
    MaxDay = 1
    MemoSize = 1
    MaxInflight = 1
    MaxCrashes = 1
INVARIANTS TypeOK LookupIsDeserved CapturedWasRedirected CapIsTight UniquesCountOnce NoLinkAcrossDays
PROPERTY EveryVisitorAnswered
CHECK_DEADLOCK FALSE
