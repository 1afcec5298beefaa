CONSTANTS
    Keys = {k1}
    Callers = {c1, c2}
    TTL = 2
    Timeout = 1
    RedisURL = TRUE
    MaxTime = 5
SPECIFICATION FairSpec
INVARIANTS
    TypeOK
    AnswersAreFresh
    AskedOncePerTTL
PROPERTIES
    EveryLookupEnds
CHECK_DEADLOCK FALSE
