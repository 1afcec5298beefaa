CONSTANTS
    Jobs = {j1}
    Domains = {d1, d2}
    NoDomain = NoDomain
    Workers = {w1, w2}
    DatabaseURL = TRUE
    StoreErrors = TRUE
    Crashes = TRUE
    Submissions <- OneSubmission
    PathStatuses <- TwoStatuses
    Clients = {c1}
SPECIFICATION ApiFairSpec
INVARIANTS
    CompletedIsWhole
    IInv
PROPERTIES
    EveryRunnerEnds
    EveryJobCompletes
    RefinesDurable
    RefinesInMemory
    PollsNeverGoBack
CHECK_DEADLOCK FALSE
