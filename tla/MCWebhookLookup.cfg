\* What the comment on the failed lookup says, with one failing database call.
CONSTANTS
    e1 = e1
    e2 = e2
    url1 = url1
    url2 = url2
    NoEvent = NoEvent
    Webhooks = {1}
    Events = {e1}
    Urls = {url1}
    InitialUrl = url1
    MaxAttempts = 2
    MaxFanOut = 1
    MaxEdits = 0
    MaxFaults = 1
SPECIFICATION Spec
INVARIANT ClosedOnlyIfNotFound
CHECK_DEADLOCK FALSE
