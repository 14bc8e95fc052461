------------------------ MODULE MerkleTreeSHA256 ------------------------
(***************************************************************************)
(* The on-chain commitment tree: contracts MerkleTreeSHA256 and Shield.    *)
(* The contract keeps no tree, only one node per level (the frontier), the *)
(* root and the number of leaves; a transaction runs to its end or reverts *)
(* without effect, so every operation is one action and a revert is a      *)
(* step that changes nothing.                                              *)
(***************************************************************************)
EXTENDS MerkleTreeUtils

CONSTANTS
    TreeHeight,     \* constructor argument
    Values,         \* the 32-byte commitments senders push
    MaxBatch        \* bound on the batches given to insertLeaves

\* One frontier slot per level, the root's included.
ASSUME TreeHeightAssumption == TreeHeight \in 1..32
ASSUME ValuesAssumption     == \A v \in Values : v = [term |-> v.term, full |-> TRUE]
ASSUME MaxBatchAssumption   == MaxBatch \in Nat

VARIABLES
    leafCount,
    latestRoot,
    frontier,       \* bytes27[33]: every slot starts as zero
    pushed,         \* history: all the commitments inserted, in order
    event           \* the last NewLeaf / NewLeaves event, NoEvent before the first

vars == <<leafCount, latestRoot, frontier, pushed, event>>

TreeWidth == TwoTo[TreeHeight]
Slots     == 0..32
NoEvent   == [leafIndex |-> -1, values |-> <<>>, root |-> ZeroRoot]

Init ==
    /\ leafCount = 0
    /\ latestRoot = ZeroRoot
    /\ frontier = [s \in Slots |-> Zero]
    /\ pushed = <<>>
    /\ event = NoEvent

---------------------------------------------------------------------------

\* Mutant: a left node is hashed with the frontier too.
InsertLevelStaleSibling(s, slot, level) ==
    LET stored == IF level = slot THEN [s.frontier EXCEPT ![slot] = s.value]
                                  ELSE s.frontier
        output == IF s.index % 2 = 0
                  THEN ConcatenateThenHash(stored[level], s.value)
                  ELSE ConcatenateThenHash(s.value, stored[level])
    IN  [frontier |-> stored, output |-> output, value |-> Truncate(output),
         index |-> IF s.index % 2 = 0 THEN (s.index - 1) \div 2 ELSE s.index \div 2]

\* One turn of insertLeaf's loop.  s.value is the node reached so far, s.output
\* the last SHA-256 output before truncation.
InsertLevel(s, slot, level) ==
    LET stored == IF level = slot THEN [s.frontier EXCEPT ![slot] = s.value]
                                  ELSE s.frontier
        output == IF s.index % 2 = 0
                  THEN ConcatenateThenHash(stored[level], s.value)
                  ELSE ConcatenateThenHash(s.value, Zero)
    IN  [frontier |-> stored, output |-> output, value |-> Truncate(output),
         index |-> IF s.index % 2 = 0 THEN (s.index - 1) \div 2 ELSE s.index \div 2]

\* insertLeaf's computation: all levels below the root.
InsertLeaf(c) ==
    LET slot  == GetFrontierSlot(leafCount)
        start == [frontier |-> frontier, output |-> ZeroRoot, value |-> Truncate(c),
                  index |-> leafCount + TreeWidth - 1]
        turn[level \in 0..TreeHeight] ==
            IF level = 0 THEN start ELSE InsertLevel(turn[level - 1], slot, level - 1)
    IN  turn[TreeHeight]

\* Shield.verifyAndPush, for a proof the verifier accepts: one commitment is
\* inserted, or the transaction reverts because the tree is full.
VerifyAndPush(c) ==
    LET result == InsertLeaf(c) IN
    /\ TreeWidth > leafCount
    /\ frontier' = result.frontier
    /\ latestRoot' = result.output
    /\ event' = [leafIndex |-> leafCount, values |-> <<c>>, root |-> result.output]
    /\ leafCount' = leafCount + 1
    /\ pushed' = Append(pushed, c)

\* insertLeaves, the internal batch insertion offered to derived contracts.  It is
\* the algorithm that the service's updateNodes ports, on a frontier whose unused
\* slots hold zero; its callers never pass an empty batch.
InsertLeaves(batch) ==
    LET n    == Len(batch)
        plan == PlanUpdate(TreeHeight, frontier, batch, leafCount)
    IN
    /\ n > 0
    /\ TreeWidth >= leafCount + n
    /\ frontier' = plan.frontier
    /\ latestRoot' = plan.value
    /\ event' = [leafIndex |-> leafCount, values |-> batch, root |-> plan.value]
    /\ leafCount' = leafCount + n
    /\ pushed' = pushed \o batch

Next ==
    \/ \E c \in Values : VerifyAndPush(c)
    \/ \E n \in 1..MaxBatch : \E batch \in [1..n -> Values] : InsertLeaves(batch)

Spec == Init /\ [][Next]_vars

---------------------------------------------------------------------------
(* Properties *)

\* The row of the reference tree at a level, over everything pushed so far.
Reference(level) == ReferenceRow(TreeHeight, pushed)[level]

\* The root computed from the frontier alone is the root of the whole tree over all
\* the commitments ever pushed, however they were split into single and batch
\* insertions (insertLeaf and insertLeaves keep interchangeable frontiers).  The event is
\* all a listener has: it names the place of its leaves among those pushed, and the root
\* that goes with them (NewLeaf is emitted before leafCount moves on).
RootIsReference ==
    /\ leafCount > 0 => latestRoot = ReferenceRoot(TreeHeight, pushed)
    /\ event # NoEvent =>
         /\ event.values = SubSeq(pushed, event.leafIndex + 1, leafCount)
         /\ event.root = latestRoot

\* The frontier holds what the next insertion needs: at every level where the next
\* leaf descends from a right child, the node of the left sibling.
FrontierHoldsLeftSiblings ==
    \A level \in 0..(TreeHeight - 1) :
        LET column == leafCount \div TwoTo[level] IN
        (column % 2 = 1 /\ leafCount < TreeWidth)
            => frontier[level].term = Reference(level)[column - 1]

\* The service's recalculation of the same leaves, in any two instalments, ends with
\* the root of the contract: the off-chain port of the algorithm agrees with it.
OffchainRecalculationAgrees ==
    \A k \in 0..(leafCount - 1) :
        LET first  == PlanUpdate(TreeHeight, <<>>, SubSeq(pushed, 1, k), 0)
            second == PlanUpdate(TreeHeight, first.frontier, SubSeq(pushed, k + 1, leafCount), k)
        IN  second.ok /\ second.value = latestRoot
=============================================================================
