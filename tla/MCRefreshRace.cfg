SPECIFICATION Spec
CONSTANTS
    Tree <- FlatTree
    GuardEnabled = TRUE
    MinGroup = 5
    MaxDeletePercent = 20
    MassRemoteDelete = 1000
    BlacklistAfter = 2
    FilePaths <- FlatFiles
    DirPaths <- NoDirs
    Scenarios <- CreatedBeside
    MaxEdits = 2
    MaxInterrupts = 0
PROPERTIES
    DeletionsMirrorUsers
