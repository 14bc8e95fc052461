------------------------- MODULE MerkleTreeProofs -------------------------
(***************************************************************************)
(* The two commitment trees, for every height and every way to split the   *)
(* leaves: the contract, whose root is the root of the whole tree of its   *)
(* insertions, and the commitment manager's document, whose recalculated   *)
(* nodes, proofs and hash counts are those of that tree.                   *)
(***************************************************************************)
EXTENDS MerkleTreeSHA256, OffchainTree, MerkleTreeUtilsProofs

(* The contract. *)


LEMMA HeightIs == TreeHeight \in Nat /\ TreeHeight >= 1 /\ TreeHeight <= 32
BY TreeHeightAssumption

(* insertLeaf, level by level. *)

\* g holds the states of insertLeaf's loop up to level m.
Insertions(g, start, slot, m) ==
    g = [level \in 0..m |->
            IF level = 0 THEN start ELSE InsertLevel(g[level - 1], slot, level - 1)]

LEMMA InsertionsExist ==
  ASSUME NEW start, NEW slot, NEW m \in Nat
  PROVE  \E g : Insertions(g, start, slot, m)
<1> DEFINE S == {j \in Nat : \E g : Insertions(g, start, slot, j)}
<1>1. 0 \in S
  <2> DEFINE k == [level \in 0..0 |-> start]
  <2>1. Insertions(k, start, slot, 0)
    BY DEF Insertions
  <2> QED BY <2>1
<1>2. ASSUME NEW j \in Nat, j \in S PROVE j + 1 \in S
  <2>1. PICK g : Insertions(g, start, slot, j)
    BY <1>2
  <2> DEFINE k == [level \in 0..(j + 1) |->
                      IF level = j + 1 THEN InsertLevel(g[j], slot, j) ELSE g[level]]
  <2>2. ASSUME NEW level \in 0..(j + 1)
        PROVE  k[level] = IF level = 0 THEN start
                          ELSE InsertLevel(k[level - 1], slot, level - 1)
    <3>1. CASE level = j + 1
      <4>1. level - 1 = j /\ j \in 0..(j + 1) /\ j # j + 1 /\ level # 0
        BY <3>1
      <4> QED BY <3>1, <4>1
    <3>2. CASE level # j + 1 /\ level # 0
      <4>1. level \in 0..j /\ level - 1 \in 0..(j + 1) /\ level - 1 # j + 1
        BY <3>2
      <4>2. k[level - 1] = g[level - 1] /\ k[level] = g[level]
        BY <3>2, <4>1
      <4>3. g[level] = InsertLevel(g[level - 1], slot, level - 1)
        BY <2>1, <3>2, <4>1 DEF Insertions
      <4> QED BY <3>2, <4>2, <4>3
    <3>3. CASE level = 0
      <4>1. level \in 0..j /\ level # j + 1
        BY <3>3
      <4>2. g[level] = start
        BY <2>1, <3>3, <4>1 DEF Insertions
      <4> QED BY <3>3, <4>1, <4>2
    <3> QED BY <3>1, <3>2, <3>3
  <2>3. Insertions(k, start, slot, j + 1)
    BY <2>2 DEF Insertions
  <2>4. \E e : Insertions(e, start, slot, j + 1)
    <3> HIDE DEF k
    <3> QED BY <2>3
  <2> QED BY <2>4
<1> QED BY <1>1, <1>2, InductionOver

\* The state in which insertLeaf's loop starts.
InsertStart(c) ==
    [frontier |-> frontier, output |-> ZeroRoot, value |-> Truncate(c),
     index |-> leafCount + TreeWidth - 1]

\* turn holds the states of inserting c, level by level.
InsertedBy(turn, c) ==
    /\ turn[0] = InsertStart(c)
    /\ \A level \in 1..TreeHeight :
          turn[level] = InsertLevel(turn[level - 1], GetFrontierSlot(leafCount), level - 1)
    /\ InsertLeaf(c) = turn[TreeHeight]

LEMMA InsertTurns ==
  ASSUME NEW c
  PROVE  \E turn : InsertedBy(turn, c)
<1> DEFINE slot == GetFrontierSlot(leafCount)
           start == [frontier |-> frontier, output |-> ZeroRoot, value |-> Truncate(c),
                     index |-> leafCount + TreeWidth - 1]
           Def(g) == g = [level \in 0..TreeHeight |->
                            IF level = 0 THEN start
                            ELSE InsertLevel(g[level - 1], slot, level - 1)]
           turn == CHOOSE g : Def(g)
<1>1. TreeHeight \in Nat
  BY TreeHeightAssumption
<1>2. \E g : Def(g)
  <2>1. \E g : Insertions(g, start, slot, TreeHeight)
    <3> HIDE DEF start, slot
    <3> QED BY <1>1, InsertionsExist
  <2> QED BY <2>1 DEF Insertions
<1>3. InsertLeaf(c) = turn[TreeHeight]
  BY DEF InsertLeaf
<1>4. Def(turn)
  <2> HIDE DEF Def
  <2> QED BY <1>2
<1> HIDE DEF turn, slot
<1>5. turn[0] = start
  BY <1>1, <1>4
<1>6. ASSUME NEW level \in 1..TreeHeight
      PROVE  turn[level] = InsertLevel(turn[level - 1], slot, level - 1)
  <2>1. level \in 0..TreeHeight /\ level # 0
    BY <1>1
  <2> HIDE DEF start
  <2> QED BY <1>4, <2>1
<1> QED BY <1>3, <1>5, <1>6 DEF InsertedBy, InsertStart, slot

\* s is the state of insertLeaf's loop on level l of the path of leaf n, which completes
\* a node on level `slot`; `old` is the frontier before.
AtLevel(s, values, n, slot, l, old) ==
    /\ s.index = TwoTo[TreeHeight - l] - 1 + RightShift(n, l)
    /\ s.value.term = ReferenceRow(TreeHeight, values)[l][RightShift(n, l)]
    /\ l > 0 => s.output = [term |-> ReferenceRow(TreeHeight, values)[l][RightShift(n, l)],
                            full |-> TRUE]
    /\ DOMAIN s.frontier = Slots
    /\ \A k \in Slots : (k # slot \/ l <= slot) => s.frontier[k] = old[k]
    /\ l > slot => s.frontier[slot].term =
                      ReferenceRow(TreeHeight, values)[slot][RightShift(n, slot)]

LEMMA InsertLevelStep ==
  ASSUME NEW values, Len(values) \in Nat, Len(values) <= TwoTo[TreeHeight],
         NEW n \in Nat, n = Len(values) - 1,
         NEW old, FrontierOf(TreeHeight, values, n, old), NEW l \in 0..(TreeHeight - 1),
         NEW s, AtLevel(s, values, n, GetFrontierSlot(n), l, old)
  PROVE  AtLevel(InsertLevel(s, GetFrontierSlot(n), l), values, n, GetFrontierSlot(n),
                 l + 1, old)
<1> DEFINE h      == TreeHeight
           row    == ReferenceRow(h, values)
           slot   == GetFrontierSlot(n)
           c      == RightShift(n, l)
           stored == IF l = slot THEN [s.frontier EXCEPT ![slot] = s.value] ELSE s.frontier
           output == IF s.index % 2 = 0 THEN ConcatenateThenHash(stored[l], s.value)
                                        ELSE ConcatenateThenHash(s.value, Zero)
           index  == IF s.index % 2 = 0 THEN (s.index - 1) \div 2 ELSE s.index \div 2
           r      == InsertLevel(s, slot, l)
<1>1. h \in Nat /\ l \in Nat /\ l \in Slots /\ h - l \in Nat
  BY TreeHeightAssumption DEF Slots
<1>2. slot \in Nat /\ RightBelow(n, slot) /\ RightShift(n, slot) % 2 = 0 /\ c \in Nat
  BY <1>1, FrontierSlot, ShiftIsNat
<1>3. n \in 0..(Len(values) - 1)
  OBVIOUS
<1>4. (s.index % 2 = 0 <=> c % 2 = 1)
      /\ index = TwoTo[h - (l + 1)] - 1 + RightShift(n, l + 1)
  <2> DEFINE i == TwoTo[h - l] - 1 + c
  <2>1. s.index = i /\ i \in Int
    <3>1. TwoTo[h - l] \in Nat
      BY <1>1, TwoToIsLarge
    <3>2. s.index = i
      BY DEF AtLevel
    <3> QED BY <1>2, <3>1, <3>2
  <2>2. /\ i % 2 = 0 <=> c % 2 = 1
        /\ ParentNodeIndex(i) = TwoTo[h - (l + 1)] - 1 + RightShift(n, l + 1)
    BY <1>1, HeapIndex
  <2> HIDE DEF i
  <2>3. RightShift(i, 1) = i \div 2 /\ RightShift(i - 1, 1) = (i - 1) \div 2
    <3>1. i - 1 \in Int
      BY <2>1
    <3> QED BY <2>1, <3>1, ShiftOne
  <2>4. ParentNodeIndex(i) = IF i % 2 = 0 THEN (i - 1) \div 2 ELSE i \div 2
    BY <2>1, <2>3 DEF ParentNodeIndex
  <2> QED BY <2>1, <2>2, <2>4
<1>5. /\ s.value.term = row[l][c]
      /\ DOMAIN s.frontier = Slots
      /\ \A k \in Slots : (k # slot \/ l <= slot) => s.frontier[k] = old[k]
      /\ l > slot => s.frontier[slot].term = row[slot][RightShift(n, slot)]
  BY DEF AtLevel
<1>6. r = [frontier |-> stored, output |-> output, value |-> Truncate(output), index |-> index]
  BY DEF InsertLevel
<1> HIDE DEF slot, index, r
<1>7. /\ DOMAIN stored = Slots
      /\ \A k \in Slots : (k # slot \/ l + 1 <= slot) => stored[k] = old[k]
      /\ l + 1 > slot => stored[slot].term = row[slot][RightShift(n, slot)]
  <2>1. CASE l = slot
    <3>1. stored = [s.frontier EXCEPT ![slot] = s.value]
      BY <2>1
    <3>2. DOMAIN stored = Slots /\ stored[slot] = s.value
          /\ \A k \in Slots : k # slot => stored[k] = s.frontier[k]
      BY <1>1, <1>5, <2>1, <3>1
    <3> HIDE DEF stored, row
    <3> QED BY <1>1, <1>2, <1>5, <2>1, <3>2
  <2>2. CASE l # slot
    <3>1. stored = s.frontier
      BY <2>2
    <3>2. (l + 1 <= slot <=> l <= slot) /\ (l + 1 > slot <=> l > slot)
      BY <1>1, <1>2, <2>2
    <3> HIDE DEF stored, row
    <3> QED BY <1>5, <2>2, <3>1, <3>2
  <2> QED BY <2>1, <2>2
<1>8. output = [term |-> row[l + 1][RightShift(n, l + 1)], full |-> TRUE]
  <2>1. CASE c % 2 = 1
    <3>1. row[l + 1][RightShift(n, l + 1)] = <<row[l][c - 1], row[l][c]>>
      BY <1>1, <1>3, <2>1, NodesOnPath
    <3>2. l # slot
      BY <1>2, <2>1 DEF slot
    <3>3. stored[l].term = row[l][c - 1]
      <4>1. old[l].term = row[l][c - 1]
        BY <2>1 DEF FrontierOf
      <4>2. stored[l] = old[l]
        BY <1>1, <1>5, <3>2
      <4> QED BY <4>1, <4>2
    <3>4. output = ConcatenateThenHash(stored[l], s.value)
      BY <1>4, <2>1
    <3> HIDE DEF row, c, output, stored
    <3> QED BY <1>5, <3>1, <3>3, <3>4 DEF ConcatenateThenHash
  <2>2. CASE c % 2 # 1
    <3>1. c % 2 = 0
      BY <1>2, <2>2
    <3>2. row[l + 1][RightShift(n, l + 1)] = <<row[l][c], <<>>>>
      BY <1>1, <1>3, <3>1, NodesOnPath
    <3>3. output = ConcatenateThenHash(s.value, Zero)
      BY <1>4, <2>2
    <3> HIDE DEF row, c, output
    <3> QED BY <1>5, <3>2, <3>3 DEF ConcatenateThenHash, Zero
  <2> QED BY <2>1, <2>2
<1> HIDE DEF output, stored
<1>9. r.index = index /\ r.output = output /\ r.frontier = stored
      /\ r.value.term = row[l + 1][RightShift(n, l + 1)]
  <2>1. r.index = index /\ r.output = output /\ r.frontier = stored
        /\ r.value = Truncate(output)
    BY <1>6
  <2>2. Truncate(output).term = row[l + 1][RightShift(n, l + 1)]
    BY <1>8 DEF Truncate
  <2> QED BY <2>1, <2>2
<1> QED BY <1>4, <1>7, <1>8, <1>9 DEF AtLevel, r, slot

\* insertLeaf: the root of the tree with the leaf in it, and the frontier of the next.
LEMMA InsertLeafIsReference ==
  ASSUME NEW c, "term" \in DOMAIN c,
         NEW values, Len(values) \in Nat, Len(values) <= TwoTo[TreeHeight],
         leafCount \in Nat, leafCount = Len(values) - 1, values[leafCount + 1] = c,
         DOMAIN frontier = Slots, FrontierOf(TreeHeight, values, leafCount, frontier)
  PROVE  LET result == InsertLeaf(c) IN
         /\ result.output = ReferenceRoot(TreeHeight, values)
         /\ FrontierOf(TreeHeight, values, leafCount + 1, result.frontier)
         /\ DOMAIN result.frontier = Slots
<1> DEFINE h == TreeHeight
           n == leafCount
           row == ReferenceRow(h, values)
           slot == GetFrontierSlot(n)
           result == InsertLeaf(c)
<1>1. h \in Nat /\ h >= 1 /\ h <= 32 /\ n \in Nat /\ n \in 0..(Len(values) - 1)
      /\ n < TwoTo[h]
  <2>1. h \in Nat /\ h >= 1 /\ h <= 32
    BY HeightIs, Zenon
  <2>2. TwoTo[h] \in Nat
    BY <2>1, TwoToIsLarge
  <2> DEFINE w == TwoTo[h]
             e == Len(values)
  <2>3. w \in Nat /\ e \in Nat /\ e <= w /\ n = e - 1 /\ n \in Nat
    BY <2>2
  <2>4. n \in 0..(e - 1) /\ n < w
    <3> HIDE DEF w, e, n
    <3> QED BY <2>3
  <2> QED BY <2>1, <2>3, <2>4
<1>2. PICK turn : InsertedBy(turn, c)
  BY InsertTurns
<1> DEFINE Good(l) == AtLevel(turn[l], values, n, slot, l, frontier)
           S == {k \in Nat : k <= h => Good(k)}
<1>3. Good(0)
  <2> DEFINE s == turn[0]
  <2>1. s = [frontier |-> frontier, output |-> ZeroRoot, value |-> Truncate(c),
             index |-> leafCount + TreeWidth - 1]
    BY <1>2 DEF InsertedBy, InsertStart
  <2> HIDE DEF s
  <2>2. s.index = TwoTo[h - 0] - 1 + RightShift(n, 0) /\ row[0][RightShift(n, 0)] = c.term
    <3>1. s.index = LeafIndexToNodeIndex(h, n)
      BY <2>1 DEF LeafIndexToNodeIndex, TreeWidth
    <3>2. values[n + 1].term = c.term
      OBVIOUS
    <3>4. Len(values) <= TwoTo[h]
      OBVIOUS
    <3> HIDE DEF h, n
    <3>3. /\ LeafIndexToNodeIndex(h, n) = TwoTo[h - 0] - 1 + RightShift(n, 0)
          /\ ReferenceRow(h, values)[0][RightShift(n, 0)] = values[n + 1].term
      BY <1>1, <3>4, LeafOnPath
    <3> QED BY <3>1, <3>2, <3>3
  <2>3. s.value.term = c.term
    BY <2>1 DEF Truncate
  <2>4. s.frontier = frontier /\ ~(0 > slot) /\ ~(0 > 0)
    <3>1. slot \in Nat
      BY <1>1, FrontierSlot
    <3> QED BY <2>1, <3>1
  <2>5. AtLevel(s, values, n, slot, 0, frontier)
    <3> HIDE DEF slot
    <3> QED BY <2>2, <2>3, <2>4 DEF AtLevel
  <2> QED BY <2>5 DEF s
<1>4. ASSUME NEW k \in Nat, k \in S PROVE k + 1 \in S
  <2> DEFINE s == turn[k]
             r == turn[k + 1]
  <2> SUFFICES ASSUME k + 1 <= h PROVE Good(k + 1)
    OBVIOUS
  <2>1. k \in 0..(h - 1) /\ k + 1 \in 1..h /\ (k + 1) - 1 = k
    BY <1>1
  <2>2. AtLevel(s, values, n, slot, k, frontier)
    BY <1>1, <1>4, <2>1
  <2>3. r = InsertLevel(s, slot, k)
    <3>1. r = InsertLevel(turn[(k + 1) - 1], slot, (k + 1) - 1)
      BY <1>2, <2>1 DEF InsertedBy
    <3> QED BY <2>1, <3>1
  <2> HIDE DEF s, r
  <2>4. AtLevel(InsertLevel(s, slot, k), values, n, slot, k + 1, frontier)
    BY <1>1, <2>1, <2>2, InsertLevelStep
  <2> QED BY <2>3, <2>4 DEF r
<1>5. Good(h)
  <2>1. Nat \subseteq S
    <3>1. 0 \in S
      BY <1>3
    <3> HIDE DEF S
    <3> QED BY <1>4, <3>1, InductionOver
  <2> QED BY <1>1, <2>1
<1>6. result = turn[h]
  BY <1>2 DEF InsertedBy
<1>7. AtLevel(result, values, n, slot, h, frontier)
  BY <1>5, <1>6
<1> HIDE DEF result
<1>8. result.output = ReferenceRoot(h, values)
  <2>1. RightShift(n, h) = 0
    BY <1>1, TopColumn
  <2>2. h > 0
    BY <1>1
  <2>3. result.output = [term |-> row[h][RightShift(n, h)], full |-> TRUE]
    <3>1. h > 0 => result.output = [term |-> row[h][RightShift(n, h)], full |-> TRUE]
      BY <1>7, Zenon DEF AtLevel
    <3> HIDE DEF row, h, n
    <3> QED BY <2>2, <3>1, Zenon
  <2> QED BY <2>1, <2>3, Zenon DEF ReferenceRoot
<1>9. DOMAIN result.frontier = Slots
  BY <1>7 DEF AtLevel
<1>10. FrontierOf(h, values, n + 1, result.frontier)
  <2>1. \A l \in 0..(h - 1) : (l # slot /\ l \in DOMAIN frontier) =>
          l \in DOMAIN result.frontier /\ result.frontier[l].term = frontier[l].term
    BY <1>7 DEF AtLevel
  <2>2. slot < h => slot \in DOMAIN result.frontier
                    /\ result.frontier[slot].term = row[slot][RightShift(n, slot)]
    <3>1. slot \in Nat
      BY <1>1, FrontierSlot
    <3>2. h > slot => result.frontier[slot].term = row[slot][RightShift(n, slot)]
      BY <1>7, Zenon DEF AtLevel
    <3>6. h \in Nat /\ h <= 32
      BY <1>1, Zenon
    <3> HIDE DEF row, h, n, slot
    <3>3. SUFFICES ASSUME slot < h
                   PROVE  slot \in DOMAIN result.frontier
                          /\ result.frontier[slot].term = row[slot][RightShift(n, slot)]
      OBVIOUS
    <3>4. slot \in Slots
      <4>1. slot \in 0..32
        BY <3>1, <3>3, <3>6
      <4> QED BY <4>1, Zenon DEF Slots
    <3>5. h > slot
      BY <3>1, <3>3, <3>6
    <3> QED BY <1>9, <3>2, <3>4, <3>5, Zenon
  <2> QED BY <1>1, <2>1, <2>2, FrontierNext
<1> QED BY <1>8, <1>9, <1>10 DEF result

---------------------------------------------------------------------------
(* The inductive invariant. *)

\* The slots that the next insertions read hold the left siblings of what was pushed, and
\* the root is that of the whole tree.
IInv ==
    /\ pushed \in Seq(Values)
    /\ leafCount = Len(pushed)
    /\ leafCount <= TreeWidth
    /\ DOMAIN frontier = Slots
    /\ FrontierOf(TreeHeight, pushed, leafCount, frontier)
    /\ RootIsReference

LEMMA PushedAreLeaves ==
  ASSUME NEW s \in Seq(Values)
  PROVE  LeafValues(s)
<1>1. \A k \in 1..Len(s) : s[k] \in Values
  OBVIOUS
<1> QED BY <1>1, ValuesAssumption DEF LeafValues

\* The frontier of an empty tree needs nothing.
LEMMA EmptyFrontier ==
  ASSUME NEW h \in Nat, NEW values, NEW f
  PROVE  FrontierOf(h, values, 0, f)
<1> SUFFICES ASSUME NEW l \in 0..(h - 1) PROVE RightShift(0, l) % 2 # 1
  BY DEF FrontierOf
<1>1. l \in Nat /\ TwoTo[l] \in Nat \ {0}
  <2>1. l \in Nat
    OBVIOUS
  <2> QED BY <2>1, TwoToIsLarge
<1>2. 0 = TwoTo[l] * 0 + 0 /\ 0 \in 0..(TwoTo[l] - 1)
  BY <1>1
<1>3. RightShift(0, l) = 0
  BY <1>1, <1>2, QuotientIs DEF RightShift
<1> QED BY <1>3

LEMMA InitIInv ==
  ASSUME Init
  PROVE  IInv
<1>1. pushed = <<>> /\ leafCount = 0 /\ DOMAIN frontier = Slots /\ event = NoEvent
  BY DEF Init
<1>2. leafCount <= TreeWidth
  BY <1>1, TreeHeightAssumption, TwoToIsLarge DEF TreeWidth
<1>3. FrontierOf(TreeHeight, pushed, leafCount, frontier)
  BY <1>1, TreeHeightAssumption, EmptyFrontier
<1>4. RootIsReference
  BY <1>1 DEF RootIsReference
<1> QED BY <1>1, <1>2, <1>3, <1>4 DEF IInv

LEMMA VerifyAndPushStep ==
  ASSUME IInv, NEW c \in Values, VerifyAndPush(c)
  PROVE  IInv'
<1> DEFINE values == Append(pushed, c)
           result == InsertLeaf(c)
<1>1. pushed \in Seq(Values) /\ leafCount = Len(pushed) /\ leafCount \in Nat
      /\ leafCount < TreeWidth /\ DOMAIN frontier = Slots
      /\ FrontierOf(TreeHeight, pushed, leafCount, frontier)
  <2>1. TreeWidth \in Nat
    BY TreeHeightAssumption, TwoToIsLarge DEF TreeWidth
  <2> QED BY <2>1 DEF IInv, VerifyAndPush
<1>2. /\ values \in Seq(Values) /\ Len(values) = leafCount + 1
      /\ values[leafCount + 1] = c
      /\ \A k \in 1..leafCount : pushed[k] = values[k]
  BY <1>1
<1>3. /\ frontier' = result.frontier /\ latestRoot' = result.output
      /\ event' = [leafIndex |-> leafCount, values |-> <<c>>, root |-> result.output]
      /\ leafCount' = leafCount + 1 /\ pushed' = values
  BY DEF VerifyAndPush
<1> HIDE DEF values, result
<1>4. leafCount + 1 <= TreeWidth /\ TreeWidth \in Nat
  BY <1>1, TreeHeightAssumption, TwoToIsLarge DEF TreeWidth
<1>5. FrontierOf(TreeHeight, values, leafCount, frontier)
  <2>1. Len(pushed) \in Nat /\ Len(values) \in Nat /\ leafCount <= Len(pushed)
        /\ leafCount <= Len(values) /\ leafCount <= TwoTo[TreeHeight] /\ TreeHeight \in Nat
    BY <1>1, <1>2, <1>4, TreeHeightAssumption DEF TreeWidth
  <2> QED BY <1>1, <1>2, <2>1, FrontierOfMore
<1>6. "term" \in DOMAIN c
  <2>1. c = [term |-> c.term, full |-> TRUE]
    BY ValuesAssumption
  <2> DEFINE t == c.term
  <2>2. DOMAIN [term |-> t, full |-> TRUE] = {"term", "full"}
    OBVIOUS
  <2>3. c = [term |-> t, full |-> TRUE]
    BY <2>1
  <2> HIDE DEF t
  <2> QED BY <2>2, <2>3, Zenon
<1>7. /\ result.output = ReferenceRoot(TreeHeight, values)
      /\ FrontierOf(TreeHeight, values, leafCount + 1, result.frontier)
      /\ DOMAIN result.frontier = Slots
  <2>1. Len(values) \in Nat /\ Len(values) <= TwoTo[TreeHeight] /\ leafCount = Len(values) - 1
    BY <1>1, <1>2, <1>4 DEF TreeWidth
  <2> QED BY <1>1, <1>2, <1>5, <1>6, <2>1, InsertLeafIsReference DEF result
<1>8. <<c>> = SubSeq(values, leafCount + 1, leafCount + 1)
  <2>1. leafCount + 1 \in 1..Len(values)
    BY <1>1, <1>2
  <2> QED BY <1>2, <2>1
<1>9. RootIsReference'
  <2>1. event'.leafIndex = leafCount /\ event'.values = <<c>> /\ event'.root = latestRoot'
    BY <1>3
  <2>2. latestRoot' = ReferenceRoot(TreeHeight, pushed')
    BY <1>3, <1>7
  <2>3. event'.values = SubSeq(pushed', event'.leafIndex + 1, leafCount')
    BY <1>3, <1>8, <2>1
  <2> QED BY <2>1, <2>2, <2>3 DEF RootIsReference
<1> QED BY <1>1, <1>2, <1>3, <1>4, <1>7, <1>9 DEF IInv, TreeWidth

LEMMA Concatenation ==
  ASSUME NEW s \in Seq(Values), NEW t \in Seq(Values)
  PROVE  /\ s \o t \in Seq(Values)
         /\ Len(s \o t) = Len(s) + Len(t)
         /\ \A k \in 1..Len(s) : (s \o t)[k] = s[k]
         /\ \A k \in 1..Len(t) : (s \o t)[Len(s) + k] = t[k]
         /\ SubSeq(s \o t, Len(s) + 1, Len(s) + Len(t)) = t
<1>1. s \o t \in Seq(Values) /\ Len(s \o t) = Len(s) + Len(t)
  OBVIOUS
<1>2. \A k \in 1..Len(s) : (s \o t)[k] = s[k]
  OBVIOUS
<1>3. \A k \in 1..Len(t) : (s \o t)[Len(s) + k] = t[k]
  OBVIOUS
<1> DEFINE u == s \o t
           v == SubSeq(u, Len(s) + 1, Len(s) + Len(t))
<1> HIDE DEF u
<1>4. v \in Seq(Values) /\ Len(v) = Len(t) /\ \A k \in 1..Len(t) : v[k] = u[Len(s) + k]
  <2>1. u \in Seq(Values) /\ Len(u) = Len(s) + Len(t) /\ Len(s) \in Nat /\ Len(t) \in Nat
    BY <1>1 DEF u
  <2>2. v \in Seq(Values)
    BY <2>1
  <2>3. Len(v) = Len(t)
    BY <2>1
  <2>4. \A k \in 1..Len(t) : v[k] = u[Len(s) + k]
    BY <2>1
  <2> QED BY <2>2, <2>3, <2>4
<1> HIDE DEF v
<1>5. v = t
  BY <1>3, <1>4 DEF u
<1> QED BY <1>1, <1>2, <1>3, <1>5 DEF u, v

LEMMA InsertLeavesStep ==
  ASSUME IInv, NEW n \in 1..MaxBatch, NEW batch \in [1..n -> Values], InsertLeaves(batch)
  PROVE  IInv'
<1> DEFINE values == pushed \o batch
           plan == PlanUpdate(TreeHeight, frontier, batch, leafCount)
<1>1. batch \in Seq(Values) /\ Len(batch) = n /\ n \in Nat /\ n >= 1
  <2>1. n \in Nat /\ n >= 1
    BY MaxBatchAssumption
  <2> QED BY <2>1
<1>2. pushed \in Seq(Values) /\ leafCount = Len(pushed) /\ leafCount \in Nat
      /\ DOMAIN frontier = Slots /\ FrontierOf(TreeHeight, pushed, leafCount, frontier)
  BY DEF IInv
<1>3. /\ TreeWidth >= leafCount + n
      /\ frontier' = plan.frontier /\ latestRoot' = plan.value
      /\ event' = [leafIndex |-> leafCount, values |-> batch, root |-> plan.value]
      /\ leafCount' = leafCount + n /\ pushed' = values
  BY <1>1 DEF InsertLeaves
<1>4. /\ values \in Seq(Values) /\ Len(values) = leafCount + n
      /\ \A k \in 1..leafCount : pushed[k] = values[k]
      /\ \A k \in 1..n : batch[k] = values[leafCount + k]
      /\ SubSeq(values, leafCount + 1, leafCount + n) = batch
  BY <1>1, <1>2, Concatenation
<1> HIDE DEF values, plan
<1>5. TreeHeight \in Nat /\ TreeHeight <= 32 /\ TreeWidth = TwoTo[TreeHeight]
      /\ TreeWidth \in Nat
  BY TreeHeightAssumption, TwoToIsLarge DEF TreeWidth
<1>6. Len(values) \in Nat /\ Len(values) <= TwoTo[TreeHeight]
  BY <1>1, <1>2, <1>3, <1>4, <1>5
<1>7. FrontierOf(TreeHeight, values, leafCount, frontier)
  <2>1. Len(pushed) \in Nat /\ leafCount <= Len(pushed)
        /\ leafCount <= Len(values) /\ leafCount <= TwoTo[TreeHeight]
    <3> DEFINE w == TwoTo[TreeHeight]
               e == Len(values)
               p == Len(pushed)
    <3>1. n \in Nat /\ e = leafCount + n /\ e \in Nat /\ e <= w /\ w \in Nat
          /\ p = leafCount /\ leafCount \in Nat
      BY <1>1, <1>2, <1>4, <1>5, <1>6
    <3> HIDE DEF w, e, p
    <3>2. p \in Nat /\ leafCount <= p /\ leafCount <= e /\ leafCount <= w
      BY <3>1
    <3> QED BY <3>2 DEF w, e, p
  <2> QED BY <1>2, <1>4, <1>5, <1>6, <2>1, FrontierOfMore
<1>8. PlanOK(plan, TreeHeight, values, frontier, leafCount)
  <2>1. leafCount \in 0..Len(values) /\ Len(batch) = Len(values) - leafCount
    BY <1>1, <1>2, <1>4
  <2>2. \A k \in 1..Len(batch) : batch[k] = values[leafCount + k]
    BY <1>1, <1>4
  <2> QED BY <1>4, <1>5, <1>6, <1>7, <2>1, <2>2, PushedAreLeaves, PlanUpdateIsReference
          DEF plan
<1>9. plan.value = ReferenceRoot(TreeHeight, values)
  <2>1. leafCount < Len(values)
    BY <1>1, <1>2, <1>4
  <2> QED BY <1>8, <2>1 DEF PlanOK
<1>10. DOMAIN plan.frontier = Slots
  <2>1. 0..TreeHeight \subseteq Slots
    BY <1>5 DEF Slots
  <2> QED BY <1>2, <1>8, <2>1 DEF PlanOK
<1>11. FrontierOf(TreeHeight, values, leafCount + n, plan.frontier)
  BY <1>4, <1>8 DEF PlanOK
<1>12. RootIsReference'
  <2>1. event'.leafIndex = leafCount /\ event'.values = batch /\ event'.root = latestRoot'
    BY <1>3
  <2>2. latestRoot' = ReferenceRoot(TreeHeight, pushed')
    BY <1>3, <1>9
  <2>3. event'.values = SubSeq(pushed', event'.leafIndex + 1, leafCount')
    BY <1>3, <1>4, <2>1
  <2> QED BY <2>1, <2>2, <2>3 DEF RootIsReference
<1>13. TreeWidth' = TreeWidth
  BY DEF TreeWidth
<1> QED BY <1>3, <1>4, <1>10, <1>11, <1>12, <1>13 DEF IInv

LEMMA IInvInductive ==
  ASSUME IInv, [Next]_vars
  PROVE  IInv'
<1>1. CASE Next
  BY <1>1, VerifyAndPushStep, InsertLeavesStep DEF Next
<1>2. CASE UNCHANGED vars
  BY <1>2 DEF vars, IInv, RootIsReference, TreeWidth
<1> QED BY <1>1, <1>2

\* IInv is inductive for the calls of the contract: insertLeaf and insertLeaves keep the
\* frontier, the root, the last event and the recorded leaves those of the whole tree.
THEOREM AlwaysIInv == Spec => []IInv
<1>1. Init => IInv
  BY InitIInv
<1>2. IInv /\ [Next]_vars => IInv'
  BY IInvInductive
<1> QED BY <1>1, <1>2, PTL DEF Spec

---------------------------------------------------------------------------
(* The properties. *)

\* Whatever is inserted, one by one or in batches, the contract's root is the root of
\* the whole tree over all commitments, and the last event names its leaves and that root
\* (insertLeaf and insertLeaves).
THEOREM RootAlwaysReference == Spec => []RootIsReference
<1>1. IInv => RootIsReference
  BY DEF IInv
<1> QED BY <1>1, AlwaysIInv, PTL

\* The frontier holds the left sibling on every level where the next leaf's path comes
\* from a right child (the frontier of insertLeaf and insertLeaves).
THEOREM FrontierAlwaysHoldsLeftSiblings == Spec => []FrontierHoldsLeftSiblings
<1>1. IInv => FrontierHoldsLeftSiblings
  <2> SUFFICES ASSUME IInv, NEW level \in 0..(TreeHeight - 1),
                      (leafCount \div TwoTo[level]) % 2 = 1
               PROVE  frontier[level].term = Reference(level)[(leafCount \div TwoTo[level]) - 1]
    BY Zenon DEF FrontierHoldsLeftSiblings
  <2>1. FrontierOf(TreeHeight, pushed, leafCount, frontier)
    BY DEF IInv
  <2>2. leafCount \div TwoTo[level] = RightShift(leafCount, level)
    BY DEF RightShift
  <2>3. RightShift(leafCount, level) % 2 = 1
    BY <2>2
  <2>4. frontier[level].term
          = ReferenceRow(TreeHeight, pushed)[level][RightShift(leafCount, level) - 1]
    BY <2>1, <2>3, Zenon DEF FrontierOf
  <2> QED BY <2>2, <2>4, Zenon DEF Reference
<1> QED BY <1>1, AlwaysIInv, PTL

LEMMA Prefix ==
  ASSUME NEW s \in Seq(Values), NEW k \in 0..(Len(s) - 1)
  PROVE  /\ SubSeq(s, 1, k) \in Seq(Values)
         /\ Len(SubSeq(s, 1, k)) = k
         /\ \A j \in 1..k : SubSeq(s, 1, k)[j] = s[j]
<1>1. Len(s) \in Nat /\ k \in Nat /\ k <= Len(s)
  OBVIOUS
<1> QED BY <1>1

LEMMA Suffix ==
  ASSUME NEW s \in Seq(Values), NEW k \in 0..(Len(s) - 1)
  PROVE  /\ Len(SubSeq(s, k + 1, Len(s))) = Len(s) - k
         /\ \A j \in 1..(Len(s) - k) : SubSeq(s, k + 1, Len(s))[j] = s[k + j]
<1>1. Len(s) \in Nat /\ k \in Nat /\ k + 1 \in Nat /\ k + 1 <= Len(s)
  OBVIOUS
<1> DEFINE n == Len(s)
           a == k + 1
<1>2. Len(SubSeq(s, a, n)) = n - a + 1
  BY <1>1
<1>3. \A j \in 1..(n - a + 1) : SubSeq(s, a, n)[j] = s[a + j - 1]
  BY <1>1
<1>4. n - a + 1 = n - k
  BY <1>1
<1>5. ASSUME NEW j \in 1..(n - k) PROVE SubSeq(s, a, n)[j] = s[k + j]
  <2>1. a + j - 1 = k + j
    BY <1>1
  <2> HIDE DEF a, n
  <2>2. SubSeq(s, a, n)[j] = s[a + j - 1]
    BY <1>3, <1>4
  <2> QED BY <2>1, <2>2
<1> QED BY <1>2, <1>4, <1>5

\* The service that hashes the same leaves in two instalments, from an empty frontier,
\* ends with the contract's root (updateNodes against insertLeaf and insertLeaves).
THEOREM RecalculationAlwaysAgrees == Spec => []OffchainRecalculationAgrees
<1>1. ASSUME IInv, NEW k \in 0..(leafCount - 1)
      PROVE  LET first  == PlanUpdate(TreeHeight, <<>>, SubSeq(pushed, 1, k), 0)
                 second == PlanUpdate(TreeHeight, first.frontier,
                                      SubSeq(pushed, k + 1, leafCount), k)
             IN  second.ok /\ second.value = latestRoot
  <2> DEFINE h == TreeHeight
             e == <<>>
             a == SubSeq(pushed, 1, k)
             b == SubSeq(pushed, k + 1, leafCount)
             z == 0
             first  == PlanUpdate(h, e, a, z)
             second == PlanUpdate(h, first.frontier, b, k)
  <2>1. /\ h \in Nat /\ pushed \in Seq(Values) /\ Len(pushed) = leafCount
        /\ leafCount \in Nat /\ k \in Nat /\ k < leafCount /\ leafCount <= TwoTo[h]
        /\ TwoTo[h] \in Nat /\ z \in Nat /\ z = 0
    <3>1. h \in Nat /\ pushed \in Seq(Values) /\ Len(pushed) = leafCount
          /\ leafCount <= TwoTo[h]
      BY <1>1, HeightIs DEF IInv, TreeWidth
    <3>2. leafCount \in Nat
      BY <3>1
    <3> QED BY <3>1, <3>2, TwoToIsLarge
  <2>2. /\ a \in Seq(Values) /\ Len(a) = k /\ \A j \in 1..k : a[j] = pushed[j]
        /\ LeafValues(a) /\ LeafValues(pushed)
    <3>1. a \in Seq(Values) /\ Len(a) = k /\ \A j \in 1..k : a[j] = pushed[j]
      BY <2>1, Prefix
    <3> QED BY <2>1, <3>1, PushedAreLeaves
  <2>3. /\ Len(b) = leafCount - k
        /\ \A j \in 1..(leafCount - k) : b[j] = pushed[k + j]
    BY <2>1, Suffix
  <2> HIDE DEF h, a, b, z, e, second, first
  <2>4. PlanOK(first, h, a, e, z)
    <3>1. Len(a) \in Nat /\ Len(a) <= TwoTo[h] /\ z \in 0..Len(a) /\ Len(a) = Len(a) - z
          /\ \A j \in 1..Len(a) : z + j = j
      BY <2>1, <2>2
    <3>2. \A j \in 1..Len(a) : a[j] = a[z + j]
      BY <3>1
    <3>3. FrontierOf(h, a, z, e)
      BY <2>1, EmptyFrontier
    <3> QED BY <2>1, <2>2, <3>1, <3>2, <3>3, PlanUpdateIsReference DEF first
  <2>5. FrontierOf(h, a, k, first.frontier)
    BY <2>2, <2>4 DEF PlanOK
  <2>6. FrontierOf(h, pushed, k, first.frontier)
    <3>1. Len(a) \in Nat /\ Len(pushed) \in Nat /\ k <= Len(a) /\ k <= Len(pushed)
          /\ k <= TwoTo[h]
      BY <2>1, <2>2
    <3> QED BY <2>1, <2>2, <2>5, <3>1, FrontierOfMore
  <2>7. PlanOK(second, h, pushed, first.frontier, k)
    <3>1. Len(pushed) \in Nat /\ Len(pushed) <= TwoTo[h] /\ k \in 0..Len(pushed)
          /\ Len(b) = Len(pushed) - k
      BY <2>1, <2>3
    <3>2. \A j \in 1..Len(b) : b[j] = pushed[k + j]
      BY <2>1, <2>3
    <3> QED BY <2>1, <2>2, <2>6, <3>1, <3>2, PlanUpdateIsReference DEF second
  <2>8. second.value = ReferenceRoot(h, pushed)
    <3>1. k < Len(pushed)
      BY <2>1
    <3> QED BY <2>7, <3>1 DEF PlanOK
  <2>9. latestRoot = ReferenceRoot(h, pushed)
    <3>1. leafCount > 0
      BY <2>1
    <3> QED BY <1>1, <3>1 DEF IInv, RootIsReference, h
  <2>10. second.ok = TRUE
    BY <2>7 DEF PlanOK
  <2> QED BY <2>8, <2>9, <2>10 DEF second, first, a, b, h, z, e
<1>2. IInv => OffchainRecalculationAgrees
  BY <1>1, Zenon DEF OffchainRecalculationAgrees
<1> QED BY <1>2, AlwaysIInv, PTL

---------------------------------------------------------------------------
(* The document of the commitment manager, recalculated by updateTree. *)

\* How many leaves are hashed, and how many there are.
Hashed == recalculated.leafIndex + 1
Inserted == latestLeaf + 1

\* The document between two calls: all the leaves at their indices, the inner nodes of the
\* leaves that are hashed, and the frontier and the root that go with these.
TreeIInv ==
    /\ treeHeight \in Heights
    /\ latestLeaf \in Nat \cup {-1}
    /\ recalculated.leafIndex \in Nat \cup {-1}
    /\ Hashed <= Inserted
    /\ Inserted <= TwoTo[treeHeight]
    /\ FrontierOf(treeHeight, Commitments(Hashed), Hashed, recalculated.frontier)
    /\ Hashed > 0 => recalculated.root = ReferenceRoot(treeHeight, Commitments(Hashed))
    /\ LeavesStored(treeHeight, nodes, Inserted)
    /\ InnerReference(treeHeight, nodes, Commitments(Hashed))

LEMMA HeightOf ==
  ASSUME TreeIInv
  PROVE  treeHeight \in Nat /\ treeHeight > 0
BY HeightsAssumption DEF TreeIInv

LEMMA InitTreeIInv ==
  ASSUME TreeInit
  PROVE  TreeIInv
<1>1. treeHeight \in Heights /\ treeHeight \in Nat /\ treeHeight > 0
  BY HeightsAssumption DEF TreeInit
<1>2. Hashed = 0 /\ Inserted = 0 /\ latestLeaf = -1 /\ recalculated.leafIndex = -1
      /\ DOMAIN nodes = {}
  BY DEF TreeInit, Hashed, Inserted
<1>3. TwoTo[treeHeight] \in Nat
  BY <1>1, TwoToIsLarge
<1>4. \A l \in Nat : RightShift(0, l) = 0
  <2> SUFFICES ASSUME NEW l \in Nat PROVE RightShift(0, l) = 0
    OBVIOUS
  <2>1. TwoTo[l] \in Nat \ {0}
    BY TwoToIsLarge
  <2> QED BY <2>1, QuotientIs DEF RightShift
<1>5. FrontierOf(treeHeight, Commitments(Hashed), Hashed, recalculated.frontier)
  BY <1>1, <1>2, <1>4 DEF FrontierOf
<1>6. LeavesStored(treeHeight, nodes, Inserted)
  BY <1>2 DEF LeavesStored
<1>7. InnerReference(treeHeight, nodes, Commitments(Hashed))
  <2>1. Len(Commitments(Hashed)) = 0
    BY <1>2, CommitmentsOf
  <2>2. ASSUME NEW l \in 1..treeHeight, NEW i \in Columns(treeHeight, l)
        PROVE  ~(i <= RightShift(0 - 1, l))
    <3>1. RightShift(-1, l) < 0
      <4>1. TwoTo[l] \in Nat \ {0}
        BY TwoToIsLarge
      <4>2. -1 = TwoTo[l] * (-1) + (TwoTo[l] - 1)
        BY <4>1
      <4> QED BY <4>1, <4>2, QuotientIs DEF RightShift
    <3>2. RightShift(-1, l) \in Int /\ i \in Nat /\ 0 - 1 = -1
      BY ShiftType DEF Columns
    <3> QED BY <3>1, <3>2
  <2> QED BY <1>2, <2>1, <2>2 DEF InnerReference
<1> QED BY <1>1, <1>2, <1>3, <1>5, <1>6, <1>7 DEF TreeIInv

LEMMA InsertLeafKeeps ==
  ASSUME TreeIInv, StoreLeaf
  PROVE  TreeIInv'
<1> DEFINE h == treeHeight
           s == Inserted
<1>1. h \in Nat /\ h > 0 /\ TwoTo[h] \in Nat
  BY HeightOf, TwoToIsLarge
<1>2. s \in Nat /\ Hashed \in Nat /\ s < TwoTo[h] /\ latestLeaf + 1 = s
  BY <1>1 DEF TreeIInv, StoreLeaf, Inserted, Hashed
<1>3. /\ treeHeight' = h /\ recalculated' = recalculated /\ latestLeaf' = s
      /\ nodes' = SetNode(nodes, LeafIndexToNodeIndex(h, s), LeafNode(s))
  BY DEF StoreLeaf, Inserted
<1>4. Inserted' = s + 1 /\ Hashed' = Hashed
  BY <1>3 DEF Inserted, Hashed
<1>5. Len(Commitments(Hashed)) = Hashed
  BY <1>2, CommitmentsOf
<1>6. LeavesStored(h, nodes, s) /\ InnerReference(h, nodes, Commitments(Hashed))
  BY DEF TreeIInv
<1> HIDE DEF h, s
<1>7. LeavesStored(h, nodes', s + 1) /\ InnerReference(h, nodes', Commitments(Hashed))
  BY <1>1, <1>2, <1>3, <1>5, <1>6, LeafKeepsTree
<1>8. h = treeHeight /\ s = Inserted
  BY DEF h, s
<1>9. /\ treeHeight' \in Heights
      /\ FrontierOf(treeHeight', Commitments(Hashed'), Hashed', recalculated'.frontier)
      /\ Hashed' > 0 => recalculated'.root = ReferenceRoot(treeHeight', Commitments(Hashed'))
  BY <1>3, <1>4, <1>8 DEF TreeIInv
<1>10. latestLeaf' \in Nat \cup {-1} /\ recalculated'.leafIndex \in Nat \cup {-1}
       /\ Hashed' <= Inserted' /\ Inserted' <= TwoTo[treeHeight']
  BY <1>1, <1>2, <1>3, <1>4, <1>8 DEF TreeIInv
<1> QED BY <1>3, <1>4, <1>7, <1>8, <1>9, <1>10 DEF TreeIInv

\* The plan that is due is the reference for all leaves that there are.
LEMMA DuePlanOK ==
  ASSUME TreeIInv
  PROVE  PlanOK(DuePlan, treeHeight, Commitments(Inserted), recalculated.frontier, Hashed)
<1> DEFINE h == treeHeight
           s == Inserted
           m == Hashed
           found == LeavesOfSegment(nodes, m, latestLeaf)
<1>1. h \in Nat /\ h > 0 /\ TwoTo[h] \in Nat
  BY HeightOf, TwoToIsLarge
<1>2. s \in Nat /\ m \in Nat /\ m \in 0..s /\ s <= TwoTo[h] /\ latestLeaf = s - 1
      /\ FromLeaf = m /\ LeavesStored(h, nodes, s)
      /\ FrontierOf(h, Commitments(m), m, recalculated.frontier)
  BY <1>1 DEF TreeIInv, Inserted, Hashed, FromLeaf
<1>3. DuePlan = PlanUpdate(h, recalculated.frontier, [k \in DOMAIN found |-> found[k].hash], m)
  BY <1>2 DEF DuePlan
<1> HIDE DEF h, s, m, found
<1>4. /\ DOMAIN found = 1..(s - m)
      /\ \A k \in 1..(s - m) : found[k] = LeafNode(m + k - 1)
  <2>1. latestLeaf \in Int /\ -1 <= latestLeaf /\ latestLeaf < s /\ m <= latestLeaf + 1
        /\ latestLeaf + 1 - m = s - m
    BY <1>2
  <2>2. /\ DOMAIN found = 1..(latestLeaf + 1 - m)
        /\ \A k \in 1..(latestLeaf + 1 - m) : found[k] = LeafNode(m + k - 1)
    BY <1>1, <1>2, <2>1, SegmentOfLeaves DEF found
  <2> QED BY <2>1, <2>2
<1>5. PlanOK(PlanUpdate(h, recalculated.frontier, [k \in DOMAIN found |-> found[k].hash], m),
             h, Commitments(s), recalculated.frontier, m)
  BY <1>1, <1>2, <1>4, PlanOfLeaves
<1> QED BY <1>3, <1>5 DEF h, m, s

LEMMA UpdateTreeKeeps ==
  ASSUME TreeIInv, UpdateTree
  PROVE  TreeIInv' /\ HashCountIsExact'
<1> DEFINE h == treeHeight
           s == Inserted
           m == Hashed
           plan == DuePlan
           a == Commitments(m)
           b == Commitments(s)
<1>1. h \in Nat /\ h > 0 /\ TwoTo[h] \in Nat /\ h \in Heights
  BY HeightOf, TwoToIsLarge DEF TreeIInv
<1>2. s \in Nat /\ m \in Nat /\ m < s /\ s <= TwoTo[h] /\ latestLeaf = s - 1
      /\ FromLeaf = m /\ LeavesStored(h, nodes, s) /\ InnerReference(h, nodes, a)
  BY <1>1 DEF TreeIInv, UpdateTree, Inserted, Hashed, FromLeaf
<1>3. PlanOK(plan, h, b, recalculated.frontier, m)
  BY DuePlanOK
<1>4. /\ treeHeight' = h /\ latestLeaf' = latestLeaf
      /\ nodes' = WriteNodes(nodes, plan.writes)
      /\ recalculated' = [leafIndex |-> latestLeaf, root |-> plan.value,
                          frontier |-> plan.frontier]
      /\ hashes' = [planned |-> GetNumberOfHashes(s - 1, m, h), made |-> Len(plan.writes)]
  BY <1>2 DEF UpdateTree
<1> HIDE DEF plan, h
<1>5. Inserted' = s /\ Hashed' = s
  <2>1. recalculated'.leafIndex = s - 1 /\ latestLeaf' = s - 1
    BY <1>2, <1>4
  <2> QED BY <1>2, <2>1 DEF Inserted, Hashed
<1> HIDE DEF s, m
<1>6. /\ Len(a) = m /\ Len(b) = s
      /\ \A k \in 1..m : a[k] = b[k]
  <2>1. /\ Len(a) = m /\ \A k \in 1..m : a[k] = Commitment(k - 1)
        /\ Len(b) = s /\ \A k \in 1..s : b[k] = Commitment(k - 1)
    BY <1>2, CommitmentsOf
  <2> HIDE DEF a, b
  <2> QED BY <1>2, <2>1
<1> HIDE DEF a, b
<1>7. Len(a) \in Nat /\ Len(b) \in Nat /\ Len(a) < Len(b) /\ Len(b) <= TwoTo[h]
      /\ \A k \in 1..Len(a) : a[k] = b[k]
  BY <1>2, <1>6
<1>8. /\ Len(plan.writes) \in Nat /\ AllReference(plan.writes, h, b)
      /\ CoversPaths(plan.writes, h, Len(a), Len(b) - 1)
      /\ plan.value = ReferenceRoot(h, b)
      /\ Len(plan.writes) = GetNumberOfHashes(s - 1, m, h)
      /\ FrontierOf(h, b, s, plan.frontier)
  BY <1>2, <1>3, <1>6, LenOfSequence DEF PlanOK
<1>9. InnerReference(h, nodes', b)
  BY <1>1, <1>2, <1>4, <1>7, <1>8, WritingKeepsReference
<1>10. LeavesStored(h, nodes', s)
  BY <1>1, <1>2, <1>4, <1>8, WritingKeepsLeaves
<1>11. HashCountIsExact'
  BY <1>4, <1>8 DEF HashCountIsExact
<1>12. /\ recalculated'.leafIndex = s - 1 /\ latestLeaf' = s - 1
       /\ recalculated'.root = ReferenceRoot(h, b)
       /\ recalculated'.frontier = plan.frontier
       /\ Commitments(Hashed') = b
  BY <1>2, <1>4, <1>5, <1>8 DEF b, s
<1>13. TreeIInv'
  BY <1>1, <1>2, <1>4, <1>5, <1>8, <1>9, <1>10, <1>12 DEF TreeIInv
<1> QED BY <1>11, <1>13

\* TreeIInv is inductive: insertLeaf and updateTree keep the stored array, the root and the
\* frontier of the last recalculation those of the whole tree, and updateTree takes as many
\* hashes as getNumberOfHashes says.
THEOREM AlwaysTreeIInv == TreeSpec => [](TreeIInv /\ HashCountIsExact)
<1>1. TreeInit => TreeIInv /\ HashCountIsExact
  BY InitTreeIInv DEF TreeInit, HashCountIsExact
<1>2. TreeIInv /\ HashCountIsExact /\ [TreeNext]_treeVars => (TreeIInv /\ HashCountIsExact)'
  <2> SUFFICES ASSUME TreeIInv, HashCountIsExact, [TreeNext]_treeVars
               PROVE  (TreeIInv /\ HashCountIsExact)'
    OBVIOUS
  <2>1. CASE StoreLeaf
    <3>1. HashCountIsExact'
      BY <2>1 DEF StoreLeaf, HashCountIsExact
    <3> QED BY <2>1, <3>1, InsertLeafKeeps
  <2>2. CASE UpdateTree
    BY <2>2, UpdateTreeKeeps
  <2>3. CASE UNCHANGED treeVars
    BY <2>3 DEF treeVars, TreeIInv, HashCountIsExact, Hashed, Inserted
  <2> QED BY <2>1, <2>2, <2>3 DEF TreeNext
<1> QED BY <1>1, <1>2, PTL DEF TreeSpec

\* merkle-tree/utils.js:225: the number of hashes getNumberOfHashes answers for a batch
\* is the number of nodes that the recalculation of the batch writes.
THEOREM HashCountAlwaysExact == TreeSpec => []HashCountIsExact
BY AlwaysTreeIInv, PTL

LEMMA ReferenceNodes ==
  ASSUME TreeIInv
  PROVE  NodesAreReference
<1> DEFINE h == treeHeight
           m == Hashed
           hashed == Commitments(m)
           row == ReferenceRow(h, hashed)
<1>1. h \in Nat /\ h > 0
  BY HeightOf
<1>2. m \in Nat /\ Len(hashed) = m
  <2>1. m \in Nat
    BY DEF TreeIInv, Hashed
  <2> QED BY <2>1, CommitmentsOf
<1>3. recalculated.leafIndex + 1 = m
  BY DEF Hashed
<1> HIDE DEF m
<1>4. hashed # <<>> => recalculated.root = ReferenceRoot(h, hashed)
  <2>1. hashed # <<>> => m > 0
    BY <1>2 DEF Commitments
  <2> QED BY <2>1 DEF TreeIInv, m
<1>5. ASSUME NEW level \in 1..h, NEW i \in DOMAIN row[level], row[level][i] # <<>>
      PROVE  /\ TwoTo[h - level] - 1 + i \in DOMAIN nodes
             /\ nodes[TwoTo[h - level] - 1 + i].hash.term = row[level][i]
  <2>1. level \in 0..h
    OBVIOUS
  <2>2. row[level] = RowOver(row[level - 1], h, hashed, level)
    BY <1>1, <2>1, RowsOfReference DEF Rows
  <2>3. i \in Columns(h, level)
    BY <2>2 DEF RowOver, Columns
  <2>4. ~(i > RightShift(Len(hashed) - 1, level))
    BY <1>1, <1>5, <2>1, <2>3, ReferenceZero DEF Columns
  <2>5. i <= RightShift(Len(hashed) - 1, level)
    <3>1. RightShift(Len(hashed) - 1, level) \in Int /\ i \in Int
      BY <1>1, <1>2, <2>3, ShiftType DEF Columns
    <3> QED BY <2>4, <3>1
  <2>6. InnerReference(h, nodes, hashed)
    BY DEF TreeIInv, m
  <2>7. Place(h, level, i) = TwoTo[h - level] - 1 + i
    BY DEF Place
  <2> HIDE DEF row
  <2>8. /\ Place(h, level, i) \in DOMAIN nodes
        /\ nodes[Place(h, level, i)].hash.term = row[level][i]
    BY <2>3, <2>5, <2>6 DEF InnerReference, row
  <2> QED BY <2>7, <2>8
<1>6. DuePlan.ok
  BY DuePlanOK DEF PlanOK
<1> QED BY <1>3, <1>4, <1>5, <1>6 DEF NodesAreReference

\* However the leaves are split into recalculations, the root and every stored inner
\* node above a hashed leaf are those of the whole tree, at their places, and the next
\* recalculation finds every frontier slot it reads filled.
THEOREM NodesAlwaysReference == TreeSpec => []NodesAreReference
<1>1. TreeIInv => NodesAreReference
  BY ReferenceNodes
<1> QED BY <1>1, AlwaysTreeIInv, PTL

LEMMA ProofsOfLeaves ==
  ASSUME TreeIInv
  PROVE  ProofsVerify
<1> DEFINE h == treeHeight
           s == Inserted
           values == Commitments(s)
<1>1. SUFFICES ASSUME recalculated.leafIndex = latestLeaf, s < TwoTo[h],
                      NEW i \in Leaves, NEW j \in Leaves
               PROVE  VerifyPath(Commitment(j), SiblingPath(h, nodes, i), recalculated.root)
                        <=> i = j
  BY DEF ProofsVerify, Inserted
<1>2. h \in Nat /\ h > 0
  BY HeightOf
<1>3. s \in Nat /\ Hashed = s /\ Leaves = 0..(s - 1)
  BY <1>1 DEF TreeIInv, Inserted, Hashed, Leaves
<1>4. s > 0 /\ i \in 0..(s - 1) /\ j \in 0..(s - 1)
  BY <1>3
<1>5. LeavesStored(h, nodes, s) /\ InnerReference(h, nodes, values)
      /\ recalculated.root = ReferenceRoot(h, values)
  BY <1>3, <1>4 DEF TreeIInv
<1>6. CommittedLeaves(values, s)
  BY <1>3, CommitmentsOf DEF CommittedLeaves
<1>7. s < TwoTo[h]
  BY <1>1
<1> HIDE DEF s, h, values
<1>8. VerifyPath(Commitment(j), SiblingPath(h, nodes, i), ReferenceRoot(h, values)) <=> i = j
  BY <1>2, <1>3, <1>4, <1>5, <1>6, <1>7, ProofOfLeaf
<1> QED BY <1>5, <1>8

\* The sibling path that baseline_getProof answers verifies, against the root of the last
\* recalculation, for its own leaf and for no other, in every tree that is not full.
THEOREM ProofsAlwaysVerify == TreeSpec => []ProofsVerify
<1>1. TreeIInv => ProofsVerify
  BY ProofsOfLeaves
<1> QED BY <1>1, AlwaysTreeIInv, PTL
=============================================================================
