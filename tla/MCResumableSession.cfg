SPECIFICATION SavedSpec
CONSTANTS
    c1 = c1
    c2 = c2
    n1 = n1
    n2 = n2
    Calls = {c1, c2}
    Batches <- MCBatches
    Notes = {n1, n2}
    Persistable = {n1}
    EveryMessage = FALSE
    MaxFailures = 2
    HasApprover = FALSE
    MaxIterations = 2
    MaxCost = 9
    MaxSeconds = 1
    MaxAux = 0
    Threaded = {}
    MaxRuns = 2
    MaxTime = 0
    Quirks = {}
    None = None
CHECK_DEADLOCK FALSE
INVARIANTS CallsAwaited DiskIsBoundary InputOnDisk AppliedOnce
PROPERTY SavedStays
