\* Two handlers interleave, fail and are cut off: the mirror stays authentic.
CONSTANTS
    p1 = p1
    p2 = p2
    Procs <- TwoHandlers
    Requests = {"track", "getRoot"}
    TreeHeight = 1
    BucketSize = 25000
    MaxLeaves = 2
    MaxLeavesPerBlock = 2
    MaxCrashes = 1
    MaxSocketLosses = 1
    QuietTracking = FALSE
    CallsFail = TRUE
SPECIFICATION Spec
SYMMETRY Symmetry
INVARIANTS
    TypeOK
    MirrorFollowsChain
    HandlersFollowChain
\* A start that fails leaves the service down, and nothing is left to happen.
CHECK_DEADLOCK FALSE
