\* Three requests, one provider, room for one event.
CONSTANTS
    r1 = r1
    r2 = r2
    r3 = r3
    None = None
    Requests = {r1, r2, r3}
    BufferSize = 1
    NumProviders = 1
SPECIFICATION FairAppSpec
INVARIANTS
    AppTypeOK
    PanicOnlyIfAbandoned
    CommittedEventsDelivered
    ProvidersHaveDatabase
PROPERTY ShutdownEnds
\* the process exits
CHECK_DEADLOCK FALSE
