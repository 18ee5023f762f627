CONSTANTS
    NJobs = 2
    Tasks = {t1, t2}
    NoTask = NoTask
    DownloadSlots = 1
    TranscodeSlots = 1
    Imports = {1}
    Transcodes = {2}
    AutoResume = TRUE
    UserOps = {"cancel"}
    Crashes = FALSE
SPECIFICATION FairSpec
INVARIANTS
    CancelNotIgnored
PROPERTIES
    QueuedSettles
    CancelEnds
\* An idle server whose jobs have all ended waits for the next request.
CHECK_DEADLOCK FALSE
