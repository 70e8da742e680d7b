\* Pages of two; re-ranked, neutral and unclassified queries mixed freely.
CONSTANTS
    Ids <- MCIds
    Matching <- MCMatching
    Distances <- MCDistances
    Sentiment <- MCSentiment
    Confidence <- MCConfidence
    Limit = 2
    MinScore = 60
    hnswEfSearch = 2
    MaxPages = 3
    NoVector = NoVector
    NoCursor = NoCursor
SPECIFICATION Spec
INVARIANTS
    TypeOK
    RepeatsOnlyIfBoosted
    SkipsOnlyIfPenalisedOrCut
\* the listing ends, is refused or reaches MaxPages
CHECK_DEADLOCK FALSE
