SPECIFICATION FairSpec
CONSTANTS
    Tree <- SmallTree
    GuardEnabled = TRUE
    MinGroup = 5
    MaxDeletePercent = 20
    MassRemoteDelete = 1000
    BlacklistAfter = 2
    FilePaths <- Files
    DirPaths <- Dirs
    Scenarios <- Ordinary
    MaxEdits = 5
    MaxInterrupts = 1
INVARIANTS
    LocalEditsKept
    FastPathMissesNothing
PROPERTIES
    QuietDeletionsMirrorUsers
    SuccessMeansInSync
    Converges
