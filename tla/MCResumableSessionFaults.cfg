SPECIFICATION SavedSpec
CONSTANTS
    c1 = c1
    c2 = c2
    n1 = n1
    n2 = n2
    Calls = {c1, c2}
    Batches <- MCBatches
    Notes = {n1}
    Persistable = {n1}
    EveryMessage = TRUE
    MaxFailures = 2
    HasApprover = TRUE
    MaxIterations = 1
    MaxCost = 9
    MaxSeconds = 1
    MaxAux = 1
    Threaded = {c1}
    MaxRuns = 2
    MaxTime = 1
    Quirks = {"cancel", "raise_in_gate", "apply_raises", "early_interrupt"}
    None = None
CHECK_DEADLOCK FALSE
INVARIANT SavedIsCurrent
