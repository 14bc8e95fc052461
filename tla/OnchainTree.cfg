\* A tree of height 3, filled completely by single and batch insertions.
CONSTANTS
    TreeHeight = 3
    MaxBatch = 3
    Values <- TwoValues
SPECIFICATION Spec
INVARIANTS
    RootIsReference
    FrontierHoldsLeftSiblings
    OffchainRecalculationAgrees
\* A full tree accepts nothing more.
CHECK_DEADLOCK FALSE
