CONSTANTS
    Jobs = {j1}
    Domains = {d1, d2}
    NoDomain = NoDomain
    Workers = {w1}
    DatabaseURL = FALSE
    StoreErrors = FALSE
    Crashes = FALSE
    Submissions <- OneSubmission
    PathStatuses <- TwoStatuses
    Clients = {c1}
SPECIFICATION ApiSpec
INVARIANTS
    AnswerCountsAddUp
CHECK_DEADLOCK FALSE
