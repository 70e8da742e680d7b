\* Three admin requests against room for one webhook, one failing database
\* call or a crash, fan-outs in batches of one.
CONSTANTS
    r1 = r1
    r2 = r2
    r3 = r3
    url1 = url1
    NoEvent = NoEvent
    NoChange = NoChange
    Events <- MCRequests
    Webhooks = {1, 2}
    Preexisting = {}
    MaxWebhooks = 1
    Urls = {url1}
    InitialUrl = url1
    MaxAttempts = 1
    MaxFanOut = 1
    MaxEdits = 0
    MaxFaults = 1
SPECIFICATION ApiSpec
SYMMETRY MCSymmetry
INVARIANTS
    ApiTypeOK
    LimitExceededOnlyByOverlap
    ListingSeesChange
    FanOutIsPrefix
\* every request was answered and every event handled
CHECK_DEADLOCK FALSE
