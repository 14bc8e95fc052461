\* One handler at a time, one leaf per block, with fairness: tracking may end and
\* begin again, and no leaf is forgotten.
CONSTANTS
    p1 = p1
    p2 = p2
    Procs <- OneHandler
    Requests = {"track", "untrack", "prune", "getRoot"}
    TreeHeight = 2
    BucketSize = 25000
    MaxLeaves = 4
    MaxLeavesPerBlock = 1
    MaxCrashes = 2
    MaxSocketLosses = 0
    QuietTracking = TRUE
    CallsFail = FALSE
SPECIFICATION FairSpec
INVARIANTS
    TreeIsFull
    TrackedIsListenedTo
PROPERTIES
    MirrorOnlyGrows
    EveryLeafIsMirrored
