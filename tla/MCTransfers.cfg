SPECIFICATION FairSpec
CONSTANTS
    Directions = {"down", "up", "saved", "watched", "shown", "reported", "looked_at", "read",
                  "offered", "notified", "logged", "scoped"}
    Size <- TwoOrThree
    Threshold = 2
    MaxRetries = 1
    DownloadSettings <- DownloadCases
    MaxRemoteEdits = 2
    MaxLocalDeletes = 1
    Chunks <- EditionChunks
    Stamp <- EditionStamps
    UploadRetries = 1
    UploadSettings <- UploadCases
    MaxUploadFaults = 2
    MaxFileEdits = 2
    ChannelRoom = 1
    KernelRoom = 1
    MaxWatchFailures = 1
    MaxEdits = 4
    Processes = {p1, p2}
    Entries = {e1, e2}
    Garbled = Garbled
    NoFile = NoFile
    MaxSaves = 3
    MaxMishaps = 2
    u1 = u1
    u2 = u2
    r1 = r1
    Users = {u1, u2}
    Roots = {r1}
    Nobody = Nobody
    Documents <- PreferenceFiles
    MaxChoices = 3
    w1 = w1
    w2 = w2
    Rows = {w1, w2}
    EventRoom = 2
    MaxOperations = 2
    MaxRuns = 4
    NoLine = NoLine
    Owners = {u1, u2}
    FolderStates = {"idle_ok", "syncing"}
    MaxFolders = 2
    MaxRefreshes = 2
    WindowWorlds <- Worlds
    NoOwner = NoOwner
    WireWorlds <- ServersAnswer
    Hosts = 2
    ReadSize = 3
    HeadLimit = 16
    MaxMischief = 1
    Installed <- Releases
    Published <- Manifests
    IllFormed <- NoVersions
    Widest = 50
    MaxChecks = 2
    Notices = {1, 2}
    MaxFlips = 2
    Days = {1, 2, 3}
    NoDay = NoDay
    HistoryLines = 2
    Retentions = {1, 2}
    BlockSize = 2
    MaxLines = 3
    MaxListeners = 1
    MaxLogTroubles = 1
    ScopeWorlds <- WhatTakesPart
    MaxDepth = 1
    RowsShown = 1
    MaxDeeds = 2
    NeverRecorded = NeverRecorded
INVARIANTS
    DownloadedIsOneVersion
    LeftoversHaveReasons
    PublishedIsOneEdition
    SettingsAreWhole
    SavesSurvive
    SettingsAgree
    DisplayIsTrue
    OffersAreNewer
    LogIsTrue
    ScopesAgree
PROPERTIES
    TransfersLand
    ChangesAreRequested
    RunsEndOrJam
    ServerIsHeard
CHECK_DEADLOCK FALSE
