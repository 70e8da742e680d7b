\* Four requests, two providers, room for two events.
CONSTANTS
    r1 = r1
    r2 = r2
    r3 = r3
    r4 = r4
    None = None
    Requests <- MCRequests
    BufferSize = 2
    NumProviders = 2
SPECIFICATION FairSpec
INVARIANTS
    TypeOK
    HandedInOrder
    DrainedOnShutdown
PROPERTIES
    ImplementsEventBus
    EveryEventReachesProviders
    ShutdownTerminates
\* the process ends when Shutdown has returned and no request is left
CHECK_DEADLOCK FALSE
