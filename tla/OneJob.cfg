CONSTANTS
    NJobs = 1
    Tasks = {t1, t2, t3}
    NoTask = NoTask
    DownloadSlots = 1
    TranscodeSlots = 1
    Imports = {1}
    Transcodes = {1}
    AutoResume = TRUE
    UserOps = {"cancel", "retry", "retry_import"}
    Crashes = TRUE
SPECIFICATION Spec
SYMMETRY TaskSymmetry
INVARIANTS
    OneWorkerPerJob
    QueuedHasNoWorker
    ActiveHasTask
    CompletedHasVideo
PROPERTIES
    KeepsContract
    CheckpointsHold
