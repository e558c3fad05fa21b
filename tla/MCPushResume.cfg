SPECIFICATION FairSpec
CONSTANTS
    Parts = {"push"}
    a1 = a1
    a2 = a2
    f1 = f1
    f2 = f2
    Accounts = {a1, a2}
    Folders = {f1, f2}
    FolderLists <- Lists
    Labels = {"idle_ok", "error"}
    Environments = {"x", "y"}
    MaxControllers = 3
    Slots = {1, 2, 3}
    s1 = s1
    s2 = s2
    Members = {f1, f2}
    Links <- Networks
    NoLink = NoLink
    NoGate = NoGate
    NoSpot = NoSpot
    Wishes <- Settings
    Midnight = 3
    MaxWakes = 1
    MaxNews = 5
    Servers <- PushWorlds
    MaxEvents = 2
    MaxTroubles = 1
    MaxChanges = 1
    Logins = {u1}
    Events = {}
    MaxPasswords = 2
    MaxLocks = 1
    Users = {u1}
    MaxPolls = 2
    MaxSignIns = 2
    MaxWrites = 4
    MaxCopies = 4
    MaxRefusals = 1
PROPERTIES
    PushReconnects
CHECK_DEADLOCK FALSE
