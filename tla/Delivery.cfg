CONSTANTS
    Domains <- MCDomains
    NoDomain = "none"
    normalizeDomain <- MCnormalizeDomain
    domainPattern = {"a"}
    Clients = {c1}
    Statuses = {"CN2_Premium", "Blocked"}
    Backends = {"postgres", "memory"}
    StoreErrors = TRUE
    MaxTraces = 3
    MaxTime = 1
SPECIFICATION FairSpec
INVARIANTS
    TypeOK
    PollEndsCurrent
    UnchangedIsNotSent
PROPERTIES
    ClientsCatchUp
CHECK_DEADLOCK FALSE
