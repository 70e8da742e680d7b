\* One record, two texts and the empty one, two workers, two attempts.
CONSTANTS
    r1 = r1
    A = A
    B = B
    Empty = Empty
    None = None
    Backfill = Backfill
    Records = {r1}
    TextFields = {r1}
    Texts = {A, B}
    MaxAttempts = 2
    MaxWorkers = 2
    MaxEdits = 2
    MaxFaults = 1
    MaxBackfills = 1
SPECIFICATION FairSpec
INVARIANTS
    TypeOK
    EmbeddingHasRecord
    CurrentWhenSettled
PROPERTY EventuallySettled
\* all jobs have ended and the budgets are spent
CHECK_DEADLOCK FALSE
