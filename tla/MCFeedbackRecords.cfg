\* Creates, edits, deletes and bulk deletes against the sentiment workers.
CONSTANTS
    r1 = r1
    r2 = r2
    r3 = r3
    i1 = i1
    i2 = i2
    textA = textA
    textB = textB
    w1 = w1
    w2 = w2
    Empty = Empty
    None = None
    MaxUpsets = 1
    Ids <- MCIds
    Requests <- MCRequests
    Texts <- MCTexts
    Workers <- MCWorkers
SPECIFICATION Spec
SYMMETRY MCSymmetry
INVARIANTS
    TypeOK
    DeletionAnnouncedOnce
    MetadataLostOnlyInMerge
    SentimentOfCurrentText
\* the last request has been served
CHECK_DEADLOCK FALSE
