\* Two event callbacks interleave.
CONSTANTS
    p1 = p1
    p2 = p2
    Procs <- TwoHandlers
    Requests = {"track"}
    TreeHeight = 2
    BucketSize = 25000
    MaxLeaves = 2
    MaxLeavesPerBlock = 2
    MaxCrashes = 0
    MaxSocketLosses = 0
    QuietTracking = TRUE
    CallsFail = FALSE
SPECIFICATION Spec
INVARIANTS
    TreeIsFull
\* A start that fails leaves the service stopped for good; untracked, nothing happens.
CHECK_DEADLOCK FALSE
