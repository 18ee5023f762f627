CONSTANTS
    NJobs = 2
    Tasks = {t1, t2}
    NoTask = NoTask
    DownloadSlots = 1
    TranscodeSlots = 1
    Imports = {1}
    Transcodes = {2}
    AutoResume = TRUE
    UserOps = {"cancel"}
    Crashes = TRUE
SPECIFICATION Spec
SYMMETRY TaskSymmetry
INVARIANTS
    SlotsConserved
    NoLostWakeup
    CancelledIsQuiet
PROPERTIES
    TerminalIsFinal
