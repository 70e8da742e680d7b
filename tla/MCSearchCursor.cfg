\* Pages of two, queries classified by sentiment.
CONSTANTS
    Ids <- MCIds
    Matching <- MCMatching
    Distances <- MCDistances
    Sentiment <- MCSentiment
    Confidence <- MCConfidence
    Limit = 2
    MinScore = 60
    hnswEfSearch = 2
    MaxPages = 3
    NoVector = NoVector
    NoCursor = NoCursor
SPECIFICATION Spec
INVARIANT
    ExactCursorAccepted
CHECK_DEADLOCK FALSE
