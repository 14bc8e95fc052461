\* One handler at a time, one leaf per block, a tree that stays tracked: exact
\* roots and proofs, across stops.
CONSTANTS
    p1 = p1
    p2 = p2
    Procs <- OneHandler
    Requests = {"track", "getRoot"}
    TreeHeight = 2
    BucketSize = 25000
    MaxLeaves = 4
    MaxLeavesPerBlock = 1
    MaxCrashes = 2
    MaxSocketLosses = 1
    QuietTracking = TRUE
    CallsFail = FALSE
SPECIFICATION Spec
INVARIANTS
    RecalculationMatchesChain
    ProofsVerify
\* All is stored and recalculated, and the contract is full.
CHECK_DEADLOCK FALSE
