SPECIFICATION Spec
CONSTANTS
    f1 = f1
    f2 = f2
    b1 = b1
    Folders = {f1, f2}
    Dropped = Dropped
    MaxConcurrent = 1
    Overlaps <- AllDistinct
    Batches = {}
    Inputs = {"folders"}
    Requests = {"RemotePush"}
    Outcomes = {"Success"}
    KeyringRetryMax = 0
    BackoffAfter = 1
    MaxCallbacks = 2
INVARIANTS
    NoSleepingWaiter
CHECK_DEADLOCK FALSE
