\* Trees of height 1 to 4, every way to split the leaves into recalculations.
CONSTANTS
    Heights = {1, 2, 3, 4}
SPECIFICATION TreeSpec
INVARIANTS
    NodesAreReference
    ProofsVerify
    HashCountIsExact
\* A full tree, recalculated.
CHECK_DEADLOCK FALSE
