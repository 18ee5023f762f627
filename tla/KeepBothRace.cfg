CONSTANTS
    Jobs = {j1, j2}
    Old = Old
    Nobody = Nobody
    MaxNumber = 3
    Volumes = {TRUE}
    Crashes = FALSE
    Starts <- EmptyKeepBoth
SPECIFICATION Spec
CHECK_DEADLOCK FALSE
PROPERTY AlwaysKeepsBoth
