CONSTANTS
    Jobs = {j1}
    Domains = {d1, d2, d3}
    NoDomain = NoDomain
    Workers = {w1, w2}
    DatabaseURL = FALSE
    StoreErrors = FALSE
    Crashes = TRUE
    Submissions <- AllSubmissions
    PathStatuses <- TwoStatuses
    Clients = {c1}
SPECIFICATION ApiSpec
SYMMETRY Interchangeable
INVARIANTS
    ApiTypeOK
    TasksAccountedFor
    NoSendOnClosedResults
    TracesBackProgress
    CountsMatchTraces
    ResultsBackAnswer
    CompletedAnswerIsFinal
CHECK_DEADLOCK FALSE
