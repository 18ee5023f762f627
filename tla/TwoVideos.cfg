CONSTANTS
    Jobs = {j1, j2}
    Old = Old
    Nobody = Nobody
    MaxNumber = 3
    Volumes = {TRUE, FALSE}
    Crashes = TRUE
    Starts <- AnyPolicy
SPECIFICATION Spec
CHECK_DEADLOCK FALSE
SYMMETRY JobSymmetry
INVARIANTS
    OneName
    FolderIsSpent
