\* One webhook, two events on their way to it, two attempts each: the workers
\* of the two deliveries, an admin, a failing database call or a crash.
CONSTANTS
    e1 = e1
    e2 = e2
    url1 = url1
    url2 = url2
    NoEvent = NoEvent
    Webhooks = {1}
    Events = {e1, e2}
    Urls = {url1, url2}
    InitialUrl = url1
    MaxAttempts = 2
    MaxFanOut = 1
    MaxEdits = 1
    MaxFaults = 1
SPECIFICATION FairSpec
INVARIANTS
    TypeOK
    ReasonOnlyWhenDisabled
    PostsBounded
    SnapshotIsFresh
    OutcomeMatchesEndpoint
PROPERTY EveryJobEnds
\* everything was delivered or given up, and the budgets are spent
CHECK_DEADLOCK FALSE
