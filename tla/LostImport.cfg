CONSTANTS
    NJobs = 1
    Tasks = {t1, t2}
    NoTask = NoTask
    DownloadSlots = 1
    TranscodeSlots = 1
    Imports = {1}
    Transcodes = {}
    AutoResume = TRUE
    UserOps = {"retry_import"}
    Crashes = FALSE
SPECIFICATION Spec
INVARIANT CompletedHasImportVerdict
\* An idle server whose jobs have all ended waits for the next request.
CHECK_DEADLOCK FALSE
