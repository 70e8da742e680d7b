\* Three searches for two queries, room for one vector, one error of the API.
CONSTANTS
    Callers = {c1, c2, c3}
    Queries = {q1, q2}
    Nobody = Nobody
    CacheSize = 1
    MaxErrors = 1
SPECIFICATION FairSpec
INVARIANTS
    TypeOK
    FailsOnlyWithLeader
    LoadsHaveReasons
PROPERTIES
    EveryCallerAnswered
\* every search was answered
CHECK_DEADLOCK FALSE
