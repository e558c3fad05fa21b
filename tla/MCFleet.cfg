SPECIFICATION FairFolderSpec
CONSTANTS
    f1 = f1
    f2 = f2
    b1 = b1
    Folders = {f1, f2}
    Dropped = Dropped
    MaxConcurrent = 1
    Overlaps <- AllDistinct
    Batches = {}
    Inputs = {"pause"}
    Requests = {"RemotePush"}
    Outcomes = {"Success", "KeyringLocked"}
    KeyringRetryMax = 0
    BackoffAfter = 1
    MaxCallbacks = 2
    Episodes = {"fleet"}
    Files = {x, y, z}
    StateDb = StateDb
    CountThreshold = 2
    PercentThreshold = 60
    EngineGroup = 2
    EnginePercent = 60
    Stampede = 4
    NoManifest = NoManifest
    NoAlert = NoAlert
    MaxDeeds = 3
    MaxBreaks = 2
    Goods = {1, 2, 3, 4, 5}
    TopOf <- Tree
    GroupMin = 1
    ListMax = 3
    ChildCap = 2
    LooseCap = 1
    CheckCap = 3
    GroupCheckCap = 2
    Probers = 2
    Losses <- Lost
    MaxDialogs = 1
    MaxAlerts = 2
    MaxUpsets = 1
    n1 = n1
    o1 = o1
    h1 = h1
    h2 = h2
    q1 = q1
    q2 = q2
    Clouds = {n1, o1}
    OpenClouds = {o1}
    Homes = {h1, h2}
    Places = {q1, q2}
    NamedAfter <- NameOf
    Drives <- DrivesOf
    NoPlace = NoPlace
    Wishes <- Typed
    FirstWorlds <- Arrivals
    MaxSetups = 1
    MaxInquiries = 1
    MaxAsks = 1
    MaxAccidents = 1
INVARIANTS
    SlotsAccounted
PROPERTIES
    TakesTurns
    NobodyStarves
