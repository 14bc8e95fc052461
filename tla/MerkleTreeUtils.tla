------------------------- MODULE MerkleTreeUtils -------------------------
(***************************************************************************)
(* The pure part of the commitment manager's off-chain Merkle tree: index  *)
(* arithmetic and the recalculation plan of merkle-tree/utils.js, hashing  *)
(* of hash.js, range reads of leaves.js, the sibling path of index.js and  *)
(* the folding of a path in baseline_verify of rpc-server.ts.              *)
(*                                                                         *)
(* Hashes are terms.  A value is a record [term, full]: "term" says what   *)
(* was hashed, "full" whether all 32 bytes are kept or only the last 27    *)
(* (NODE_HASHLENGTH).  The empty node (ZERO) is <<>>, the commitment of    *)
(* leaf i is <<i>>, and the SHA-256 of two children is <<left, right>>:    *)
(* the hash is taken to be collision free, and so is its truncation.       *)
(***************************************************************************)
EXTENDS Integers, Sequences, FiniteSets

\* config.ZERO, the 32-byte zero root of an empty tree, and a value that is
\* not there at all (JavaScript's undefined, as a root).
Zero      == [term |-> <<>>, full |-> FALSE]
ZeroRoot  == [term |-> <<>>, full |-> TRUE]
Undefined == [term |-> <<-1>>, full |-> FALSE]

\* The commitment pushed as leaf i: 32 bytes.  Commitments are told apart by
\* their position, because no code compares two of them.
Commitment(i) == [term |-> <<i>>, full |-> TRUE]

\* `.slice(-NODE_HASHLENGTH * 2)`: keep the last 27 bytes.
Truncate(v) == [v EXCEPT !.full = FALSE]

\* concatenateThenHash(left, right): truncates both inputs, yields 32 bytes.
ConcatenateThenHash(l, r) == [term |-> <<l.term, r.term>>, full |-> TRUE]

---------------------------------------------------------------------------
(* Index conversions.  Node 0 is the root, 2h+1 and 2h+2 are its children. *)

\* `2 ** n`, as a function defined by recursion.
TwoTo[n \in Nat] == IF n = 0 THEN 1 ELSE 2 * TwoTo[n - 1]

RightShift(n, s)               == n \div TwoTo[s]
LeafIndexToNodeIndex(h, leaf)  == leaf + TwoTo[h] - 1
CalculateBucket(n, bucketSize) == n \div bucketSize

\* Mutant: left and right nodes mixed up.
SiblingNodeIndexMirrored(n) ==
    LET s == IF n % 2 = 0 THEN n + 1 ELSE n - 1
    IN  IF s < 0 THEN 0 ELSE s

SiblingNodeIndex(n) ==
    LET s == IF n % 2 = 1 THEN n + 1 ELSE n - 1
    IN  IF s < 0 THEN 0 ELSE s

\* Mutant: the rule for left nodes, applied to all.
ParentNodeIndexOfLeft(n) == RightShift(n, 1)

ParentNodeIndex(n) == IF n % 2 = 1 THEN RightShift(n, 1) ELSE RightShift(n - 1, 1)

\* The ancestors of node n, nearest first, the root last.
GetPathIndices(n) ==
    LET up[m \in 0..n] ==
            IF m = 0 THEN <<>> ELSE <<ParentNodeIndex(m)>> \o up[ParentNodeIndex(m)]
    IN  up[n]

\* The siblings met on the way up from node n; the root stands for itself.
GetSiblingPathIndices(n) ==
    LET path == GetPathIndices(n)
    IN  <<SiblingNodeIndex(n)>>
            \o [k \in DOMAIN path |-> SiblingNodeIndex(path[k])]

\* Mutant: only the two lowest levels.
GetFrontierSlotLow(leafIndex) == leafIndex % 2

\* The level whose node the insertion of this leaf completes: the loop of
\* getFrontierSlot raises exp1 from 1 until leafIndex + 1 is an odd multiple of
\* 2^exp1.
GetFrontierSlot(leafIndex) ==
    LET completes(e) == (leafIndex + 1 - TwoTo[e]) % TwoTo[e + 1] = 0
    IN  IF leafIndex % 2 = 0 THEN 0
        ELSE CHOOSE e \in 1..(leafIndex + 1) :
                completes(e) /\ \A d \in 1..(e - 1) : ~completes(d)

\* The number of binary digits of hi, at least one.
BitLength(hi) ==
    CHOOSE b \in 1..(hi + 1) :
        RightShift(hi, b) = 0 /\ (b = 1 \/ RightShift(hi, b - 1) # 0)

\* Mutant: counts the nodes of each level instead of the edges between them.
GetNumberOfHashesTooMany(hi, lo, h) ==
    LET count[k \in 0..BitLength(hi)] ==
            IF k = 0 THEN 0
            ELSE count[k - 1] + RightShift(hi, k - 1) - RightShift(lo, k - 1) + 1
    IN  count[BitLength(hi)] + h - (hi - lo)

\* Number of hashes that recalculating leaves lo..hi takes.
GetNumberOfHashes(hi, lo, h) ==
    LET count[k \in 0..BitLength(hi)] ==
            IF k = 0 THEN 0
            ELSE count[k - 1] + RightShift(hi, k - 1) - RightShift(lo, k - 1)
    IN  count[BitLength(hi)] + h - (hi - lo)

---------------------------------------------------------------------------
(* The `nodes` array of a document is sparse: a function whose domain is   *)
(* the set of indices that hold a node.  Only leaves carry a leafIndex.    *)

NotALeaf == -1
LeafNode(i)  == [leafIndex |-> i, hash |-> Commitment(i)]
\* Mutant: a default leafIndex on every node.
InnerNodeNumbered(v) == [leafIndex |-> 0, hash |-> v]
InnerNode(v) == [leafIndex |-> NotALeaf, hash |-> v]

SetNode(nodes, n, entry) ==
    [m \in DOMAIN nodes \cup {n} |-> IF m = n THEN entry ELSE nodes[m]]

\* One turn of getLeavesByLeafIndexRange's loop: the leaves of a segment from
\* `cursor` to `max`, in array order; a gap in the array closes up.
LeavesOfSegment(nodes, cursor, max) ==
    LET hits  == {n \in DOMAIN nodes : nodes[n].leafIndex \in cursor..max
                                        /\ nodes[n].leafIndex # NotALeaf}
        before(n) == {m \in hits : m < n}
    IN  [k \in 1..Cardinality(hits) |->
            nodes[CHOOSE n \in hits : Cardinality(before(n)) = k - 1]]

\* Where that loop goes on: past as many leaves as the segment returned.
NextCursor(cursor, found) == cursor + (IF found = <<>> THEN 1 ELSE Len(found))

---------------------------------------------------------------------------
(* updateNodes: hash the new leaves into the stored tree.  None of the     *)
(* values depends on what the database holds, so the whole recalculation   *)
(* is a plan: the inner nodes to write, in order, the resulting frontier   *)
(* and root, and whether it dies on a frontier slot that was never filled. *)

\* Mutant: the left sibling is hashed on the right.
HashUpSwapped(s, level, keepFull) ==
    LET isRight == s.index % 2 = 0
        parent  == ParentNodeIndex(s.index)
        value   == IF isRight
                   THEN ConcatenateThenHash(s.value, s.frontier[level - 1])
                   ELSE ConcatenateThenHash(s.value, Zero)
    IN  IF ~s.ok \/ (isRight /\ level - 1 \notin DOMAIN s.frontier)
        THEN [s EXCEPT !.ok = FALSE]
        ELSE [frontier |-> s.frontier, slot |-> s.slot, ok |-> TRUE,
              value |-> value, index |-> parent,
              writes |-> Append(s.writes, [index |-> parent, hash |-> Truncate(value)])]

\* One level up, from a node at `s.index` with value `s.value`.
HashUp(s, level, keepFull) ==
    LET isRight == s.index % 2 = 0
        parent  == ParentNodeIndex(s.index)
        value   == IF isRight
                   THEN ConcatenateThenHash(s.frontier[level - 1], s.value)
                   ELSE ConcatenateThenHash(s.value, Zero)
        stored  == IF keepFull /\ parent = 0 THEN value ELSE Truncate(value)
    IN  IF ~s.ok \/ (isRight /\ level - 1 \notin DOMAIN s.frontier)
        THEN [s EXCEPT !.ok = FALSE]
        ELSE [frontier |-> s.frontier, slot |-> s.slot, ok |-> TRUE,
              value |-> value, index |-> parent,
              writes |-> Append(s.writes, [index |-> parent, hash |-> stored])]

\* Hash up through the levels from..to; turn[level] is the state after that level.
Climb(s, from, to, keepFull) ==
    LET turn[level \in (from - 1)..to] ==
            IF level = from - 1 THEN s ELSE HashUp(turn[level - 1], level, keepFull)
    IN  turn[to]

\* The leaf loop's body: up to the level the leaf completes, then store it.
AddLeaf(s, h, leafIndex, value) ==
    LET slot  == GetFrontierSlot(leafIndex)
        start == [frontier |-> s.frontier, slot |-> slot, ok |-> s.ok, value |-> value,
                  index |-> LeafIndexToNodeIndex(h, leafIndex), writes |-> s.writes]
        top   == Climb(start, 1, slot, FALSE)
    IN  [frontier |-> IF top.ok THEN SetNode(top.frontier, slot, Truncate(top.value))
                                ELSE top.frontier,
         slot |-> slot, ok |-> top.ok, value |-> top.value, index |-> top.index,
         writes |-> top.writes]

\* The number of leaves that are added: those the tree has room for.
LeavesThatFit(h, values, leafCount) ==
    LET room == TwoTo[h] - leafCount
    IN  IF room < 0 THEN 0 ELSE IF Len(values) <= room THEN Len(values) ELSE room

PlanUpdate(h, frontier, values, leafCount) ==
    LET start == [frontier |-> frontier, value |-> Undefined, index |-> 0,
                  slot |-> h, writes |-> <<>>, ok |-> TRUE]
        added[k \in 0..Len(values)] ==
            IF k = 0 THEN start
            ELSE AddLeaf(added[k - 1], h, leafCount + k - 1, values[k])
        last == added[LeavesThatFit(h, values, leafCount)]
    IN  Climb(last, last.slot + 1, h, TRUE)

\* The array once all the writes of a plan are stored, in order.
WriteNodes(nodes, writes) ==
    LET after[k \in 0..Len(writes)] ==
            IF k = 0 THEN nodes
            ELSE SetNode(after[k - 1], writes[k].index, InnerNode(writes[k].hash))
    IN  after[Len(writes)]

---------------------------------------------------------------------------
(* Membership proofs.                                                      *)

\* getSiblingPathByLeafIndex: nodes that are not stored count as ZERO.
SiblingPath(h, nodes, leafIndex) ==
    LET indices == GetSiblingPathIndices(LeafIndexToNodeIndex(h, leafIndex))
    IN  [k \in DOMAIN indices |->
            [nodeIndex |-> indices[k],
             hash |-> IF indices[k] \in DOMAIN nodes THEN nodes[indices[k]].hash ELSE Zero]]

\* One turn of baseline_verify's loop.
FoldSibling(value, sibling) ==
    IF sibling.nodeIndex % 2 = 0 THEN ConcatenateThenHash(value, sibling.hash)
                                 ELSE ConcatenateThenHash(sibling.hash, value)

\* Mutant: the root is folded in as well.
FoldPathWithRoot(value, path) ==
    LET fold[k \in 0..Len(path)] ==
            IF k = 0 THEN value ELSE FoldSibling(fold[k - 1], path[k])
    IN  fold[Len(path)]

\* The loop of baseline_verify, over all siblings but the last (the root).
FoldPath(value, path) ==
    LET fold[k \in 0..(Len(path) - 1)] ==
            IF k = 0 THEN value ELSE FoldSibling(fold[k - 1], path[k])
    IN  fold[Len(path) - 1]

\* The verdict of baseline_verify, given the root updateTree returned.
VerifyPath(value, path, updatedRoot) ==
    LET root == path[Len(path)].hash
    IN  root = FoldPath(value, path) /\ root = updatedRoot

---------------------------------------------------------------------------
(* Reference: the whole tree of height h over a sequence of leaf values,   *)
(* built row by row without a frontier.  A node with no leaf under it is   *)
(* ZERO.                                                                   *)

ReferenceRow(h, values) ==
    LET row[l \in 0..h] ==
          [i \in 0..(TwoTo[h - l] - 1) |->
             IF i > RightShift(Len(values) - 1, l) THEN <<>>
             ELSE IF l = 0 THEN values[i + 1].term
             ELSE <<row[l - 1][2 * i], row[l - 1][2 * i + 1]>>]
    IN  row

\* The root of the tree of height h over these leaves.
ReferenceRoot(h, values) == [term |-> ReferenceRow(h, values)[h][0], full |-> TRUE]

\* The first n commitments.
Commitments(n) == [k \in 1..n |-> Commitment(k - 1)]
=============================================================================
