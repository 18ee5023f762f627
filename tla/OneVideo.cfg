CONSTANTS
    Jobs = {j1}
    Old = Old
    Nobody = Nobody
    MaxNumber = 2
    Volumes = {TRUE, FALSE}
    Crashes = TRUE
    Starts <- KeptOrReplaced
SPECIFICATION Spec
CHECK_DEADLOCK FALSE
INVARIANTS
    TypeOK
    FinalNamesAreWhole
PROPERTIES
    KeepsPromise
