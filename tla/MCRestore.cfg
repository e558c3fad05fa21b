SPECIFICATION Spec
CONSTANTS
    f1 = f1
    f2 = f2
    b1 = b1
    Folders = {f1}
    Dropped = Dropped
    MaxConcurrent = 1
    Overlaps <- AllDistinct
    Batches = {b1}
    Inputs = {"delete", "restore"}
    Requests = {"Manual"}
    Outcomes = {"Success"}
    KeyringRetryMax = 0
    BackoffAfter = 1
    MaxCallbacks = 2
INVARIANTS
    MassDeletionReviewed
