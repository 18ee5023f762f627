CONSTANTS
    NJobs = 1
    Tasks = {t1, t2}
    NoTask = NoTask
    DownloadSlots = 1
    TranscodeSlots = 1
    Imports = {1}
    Transcodes = {1}
    AutoResume = FALSE
    UserOps = {"cancel", "retry", "retry_import", "delete"}
    Crashes = TRUE
SPECIFICATION Spec
SYMMETRY TaskSymmetry
INVARIANTS
    IInv
PROPERTIES
    VideoStays
