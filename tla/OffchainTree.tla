--------------------------- MODULE OffchainTree ---------------------------
(***************************************************************************)
(* The commitment manager's recalculation run on its own: updateTree of    *)
(* merkle-tree/index.js on a document nobody else touches.  Leaves arrive  *)
(* in order and the tree is recalculated from time to time, so this module *)
(* is what CommitMgr is when no two handlers overlap and nothing fails,    *)
(* and it reaches taller trees.                                            *)
(***************************************************************************)
EXTENDS MerkleTreeUtils

CONSTANT Heights    \* tree heights a contract may have
ASSUME HeightsAssumption == Heights \subseteq Nat \ {0}

VARIABLES
    treeHeight,
    nodes,          \* the array of the document
    latestLeaf,     \* index of the last leaf inserted, -1 if none
    recalculated,   \* latestRecalculation: leafIndex, root and frontier
    hashes          \* [planned, made]: hashes of the last recalculation

treeVars == <<treeHeight, nodes, latestLeaf, recalculated, hashes>>

TreeInit ==
    /\ treeHeight \in Heights
    /\ nodes = <<>>
    /\ latestLeaf = -1
    /\ recalculated = [leafIndex |-> -1, root |-> Undefined, frontier |-> <<>>]
    /\ hashes = [planned |-> 0, made |-> 0]

\* insertLeaf of leaves.js, for the leaf the contract emits next.
StoreLeaf ==
    LET leaf == latestLeaf + 1 IN
    /\ leaf < TwoTo[treeHeight]
    /\ nodes' = SetNode(nodes, LeafIndexToNodeIndex(treeHeight, leaf), LeafNode(leaf))
    /\ latestLeaf' = leaf
    /\ UNCHANGED <<treeHeight, recalculated, hashes>>

FromLeaf == recalculated.leafIndex + 1

\* The recalculation that is due: of the leaves the range read finds.
DuePlan ==
    LET leaves == LeavesOfSegment(nodes, FromLeaf, latestLeaf)
    IN  PlanUpdate(treeHeight, recalculated.frontier,
                   [k \in DOMAIN leaves |-> leaves[k].hash], FromLeaf)

\* updateTree, when there are leaves it has not hashed yet.
UpdateTree ==
    LET plan == DuePlan IN
    /\ recalculated.leafIndex < latestLeaf
    /\ plan.ok
    /\ nodes' = WriteNodes(nodes, plan.writes)
    /\ recalculated' = [leafIndex |-> latestLeaf, root |-> plan.value,
                        frontier |-> plan.frontier]
    /\ hashes' = [planned |-> GetNumberOfHashes(latestLeaf, FromLeaf, treeHeight),
                  made |-> Len(plan.writes)]
    /\ UNCHANGED <<treeHeight, latestLeaf>>

TreeNext == StoreLeaf \/ UpdateTree
TreeSpec == TreeInit /\ [][TreeNext]_treeVars

---------------------------------------------------------------------------
(* Properties *)

Leaves == 0..recalculated.leafIndex

\* However the leaves are split into recalculations, the root is the one of the whole
\* tree over all of them, every inner node on the path of a hashed leaf is the node of
\* the whole tree, at its place in the heap numbering (the root node of a full tree is
\* kept truncated), and the next recalculation meets no frontier slot that the earlier
\* ones left empty.
NodesAreReference ==
    LET hashed == Commitments(recalculated.leafIndex + 1)
        row == ReferenceRow(treeHeight, hashed) IN
    /\ hashed # <<>> => recalculated.root = ReferenceRoot(treeHeight, hashed)
    /\ \A level \in 1..treeHeight : \A i \in DOMAIN row[level] :
          row[level][i] # <<>> =>
              LET n == TwoTo[treeHeight - level] - 1 + i IN
              n \in DOMAIN nodes /\ nodes[n].hash.term = row[level][i]
    /\ recalculated.leafIndex < latestLeaf => DuePlan.ok

\* The sibling path that baseline_getProof answers leads baseline_verify to the root
\* from its own leaf and from no other, whatever the leaves were recalculated with.  The
\* full tree is left out: its root node is kept truncated (utils.js:163).
ProofsVerify ==
    (recalculated.leafIndex = latestLeaf /\ latestLeaf + 1 < TwoTo[treeHeight]) =>
        \A i, j \in Leaves :
            VerifyPath(Commitment(j), SiblingPath(treeHeight, nodes, i), recalculated.root)
                <=> i = j

\* merkle-tree/utils.js:225: getNumberOfHashes is the exact number of hashes a batch
\* takes.
HashCountIsExact == hashes.planned = hashes.made
===========================================================================
