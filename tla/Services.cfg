CONSTANTS
    Downloads = {d1, d2}
    Inspections = {i1}
    MaxUploads = 2
    Retries = 1
    QueueSize = 2
    MaxSessions = 2
    Lifetime = 4
    SlideInterval = 1
    MaxTime = 7
    Addresses = {"a", "b"}
    LoginAttempts = 2
    Window = 3
    TicksPerSecond = 2
    MaxTick = 5
    PresetIds = {1, 2, 3}
    MediaTypes = {"movie", "other"}
    Keep = 1
    KeepNightly = 2
    MaxDay = 4
    MaxStarts = 3
    Patches = {"p", "q"}
    Profiles = {"qsv", "x265"}
    Values = {"v"}
    KeyIsLost = TRUE
    Readers = {"a", "b"}
    Titles = {1, 2}
    Queries <- QuerySample
    CacheTtl = 1
    Limit = 1
    MaxClock = 3
    Letters = {"a"}
    TitleTexts <- TitleSample
    EpisodeTexts <- EpisodeSample
    ColonModes = {"smart", "space_dash_space"}
    Limits = {4, 6}
    Urls = {"v", "w"}
    Namings = {"old", "new"}
    Qualities = {"1080p", "720p"}
    MaxInspections = 2
SPECIFICATION Spec
CHECK_DEADLOCK FALSE
INVARIANTS
    ServicesTypes
    FreshStart
    PlaintextEndsWithRun
    CompletedHasFile
    PageIsCurrent
    SignedOutStaysOut
    ActiveStaysSignedIn
    WindowIsExact
    OneDefaultPerType
    SettingsCompose
    BackupsStay
    PickerIsRecent
    NameFits
    PreviewIsKept
PROPERTY
    MarkedIsFinal
