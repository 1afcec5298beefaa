CONSTANTS
    Jobs = {j1, j2}
    Domains = {d1}
    NoDomain = NoDomain
    Workers = {w1}
    DatabaseURL = FALSE
    StoreErrors = FALSE
    Crashes = FALSE
    Submissions <- OneSubmission
    PathStatuses <- TwoStatuses
SPECIFICATION Spec
INVARIANTS
    NewestTraceWins
CHECK_DEADLOCK FALSE
