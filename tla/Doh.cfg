CONSTANTS
    Domains = {d1, d2}
    Workers = {w1, w2}
    cacheTTL = 2
    Timeout = 1
    Payloads <- MCPayloads
    MaxTime = 5
SPECIFICATION FairSpec
INVARIANTS
    TypeOK
    AnswersAreFresh
PROPERTIES
    SetBackAtMostATimeout
    EveryLookupEnds
CHECK_DEADLOCK FALSE
