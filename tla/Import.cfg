CONSTANTS
    Jobs = {j1, j2}
    NoJob = NoJob
    Attempts = 2
    MaxOpen = 1
    Crashes = TRUE
    Setups <- AllTitles
SPECIFICATION FairSpec
CHECK_DEADLOCK FALSE
INVARIANTS
    TypeOK
    ImportedHasLeft
    LockIsReturned
PROPERTIES
    ImportEnds
    ArrsFileIsFound
