CONSTANTS
    Jobs = {j1, j2}
    NoJob = NoJob
    Attempts = 2
    MaxOpen = 1
    Crashes = TRUE
    Setups <- TypedTitles
SPECIFICATION Spec
CHECK_DEADLOCK FALSE
INVARIANT RefusedFileIsStillThere
