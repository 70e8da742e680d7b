\* One record, one worker, no fault: an edit and the edit back.
CONSTANTS
    r1 = r1
    A = A
    B = B
    Empty = Empty
    None = None
    Backfill = Backfill
    Records = {r1}
    TextFields = {r1}
    Texts = {A, B}
    MaxAttempts = 2
    MaxWorkers = 1
    MaxEdits = 2
    MaxFaults = 0
    MaxBackfills = 0
SPECIFICATION Spec
INVARIANT ValueTextWasEmbedded
CHECK_DEADLOCK FALSE
