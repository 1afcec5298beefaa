CONSTANTS
    Domains <- MCDomains
    NoDomain = "none"
    addDomain <- MCaddDomain
    Sources = {"url1", "url2", "file", "text"}
    Remote = {"url1", "url2"}
    Worlds <- MCWorlds
    MaxOpen = 3
    MaxNested = 3
    NoSource = "nowhere"
    Inline = "text"
    Requests <- MCRequests
    Backends = {"postgres", "memory"}
SPECIFICATION FairSpec
INVARIANTS
    TypeOK
    JobIsExpansion
    CutShortIsRefused
PROPERTIES
    EveryRequestIsAnswered
CHECK_DEADLOCK FALSE
