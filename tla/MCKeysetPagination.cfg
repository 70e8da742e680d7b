\* Rows created, changed and deleted between the pages of one listing.
CONSTANTS
    Ids <- MCIds
    CollectedAt <- MCCollectedAt
    Limit = 2
    NoCursor = NoCursor
SPECIFICATION Spec
INVARIANTS
    TypeOK
    PagesContinue
    NothingSkipped
PROPERTIES
    CursorPromisesPage
\* the listing ends and the last row may be deleted
CHECK_DEADLOCK FALSE
