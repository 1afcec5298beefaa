CONSTANTS
    Jobs = {j1}
    Domains = {d1}
    NoDomain = NoDomain
    Workers = {w1}
    DatabaseURL = FALSE
    StoreErrors = FALSE
    Crashes = FALSE
    Submissions <- OneSubmission
    PathStatuses <- TwoStatuses
SPECIFICATION Spec
INVARIANTS
    LatestListsOnlyOptimized
CHECK_DEADLOCK FALSE
