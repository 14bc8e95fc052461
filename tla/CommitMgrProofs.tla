-------------------------- MODULE CommitMgrProofs --------------------------
(***************************************************************************)
(* What holds of the commitment manager for every number of handlers,      *)
(* height, bucket size and every bound, whatever interleaves and fails:    *)
(* its type invariant and MirrorFollowsChain.                              *)
(*                                                                         *)
(* MirrorFollowsChain alone is not inductive: a handler writes back what   *)
(* it read before, and a callback inserts what was notified before.        *)
(* HandlersFollowChain says the same of all that is in flight.             *)
(*                                                                         *)
(* The second part is about handlers that run one at a time, and proves    *)
(* what concurrent ones break.                                             *)
(***************************************************************************)
EXTENDS CommitMgr, MerkleTreeUtilsProofs, SequenceTheorems

---------------------------------------------------------------------------
(* The invariant, read as one predicate for each part of the state.        *)

ChainOK == chain \in Seq(Nat) /\ Len(chain) <= MaxLeaves

TreeOK(t) ==
    /\ DOMAIN t = DOMAIN NoTree
    /\ t.exists \in BOOLEAN /\ t.active \in BOOLEAN
    /\ t.treeHeight \in {TreeHeight, DefaultTreeHeight}
    /\ Authentic(t.nodes)
    /\ IsLatest(t.latestLeaf)
    /\ t.latestRecalculation.leafIndex = -1 \/ IsLog(t.latestRecalculation)

HandlerOK(h) ==
    /\ DOMAIN h = DOMAIN Idle
    /\ h.op \in Ops /\ h.pc \in Pcs
    /\ h.queue \in Seq(Leaves)
    /\ h.pc \in {"findSegment", "putSegment", "putLatestLeaf"} => h.queue # <<>>
    /\ Authentic(h.snap)
    /\ IsLatest(h.latest)

ProcOK == DOMAIN proc = Procs /\ \A p \in Procs : HandlerOK(proc[p])

EventsOK == listeners \in Nat /\ wire \in Seq(Leaves) /\ ready \in Seq(Leaves)

CountersOK == /\ phase \in {"down", "starting", "serving"}
              /\ crashes \in 0..MaxCrashes
              /\ socketLosses \in 0..MaxSocketLosses

IInv == ChainOK /\ TreeOK(tree) /\ ProcOK /\ EventsOK /\ CountersOK

LEMMA IInvImplies == IInv => TypeOK /\ MirrorFollowsChain /\ HandlersFollowChain
<1> SUFFICES ASSUME IInv PROVE TypeOK /\ MirrorFollowsChain /\ HandlersFollowChain
  OBVIOUS
<1>1. wire \in Seq(Nat) /\ ready \in Seq(Nat)
  BY DEF IInv, EventsOK, ChainOK, Leaves
<1>2. TypeOK
  BY <1>1 DEF IInv, ChainOK, TreeOK, ProcOK, HandlerOK, EventsOK, CountersOK, TypeOK
<1>3. MirrorFollowsChain
  BY DEF IInv, TreeOK, MirrorFollowsChain
<1>4. HandlersFollowChain
  BY DEF IInv, ProcOK, HandlerOK, EventsOK, HandlersFollowChain
<1> QED BY <1>2, <1>3, <1>4

LEMMA IdleOK == HandlerOK(Idle)
  BY DEF HandlerOK, Idle, Ops, Pcs, Authentic, IsLatest, NoLeaf

\* Ending a handler, and giving one a new state, keep all handlers well formed.
LEMMA ProcStep ==
  ASSUME ProcOK, NEW p \in Procs, NEW h, HandlerOK(h),
         proc' = [proc EXCEPT ![p] = h], chain' = chain
  PROVE  ProcOK'
  BY DEF ProcOK, HandlerOK, Authentic, IsLatest, IsLog, Leaves

LEMMA EndStep ==
  ASSUME ProcOK, NEW p \in Procs, End(p), chain' = chain
  PROVE  ProcOK'
  BY IdleOK, ProcStep DEF End

LEMMA InitIInv == Init => IInv
  BY IdleOK, BoundsAssumption, LeavesAssumption, HeightAssumption
  DEF Init, IInv, ChainOK, TreeOK, ProcOK, EventsOK, CountersOK, NoTree, EmptyTree,
      NoLeaf, NoRecalculation, Authentic, IsLatest

---------------------------------------------------------------------------
(* Parts of the state that a step replaces or leaves alone.                *)

LEMMA TreeStep ==
  ASSUME NEW t, TreeOK(t), tree' = t, chain' = chain
  PROVE  TreeOK(tree)'
  BY DEF TreeOK, Authentic, IsLatest, IsLog, Leaves

LEMMA EventsStep ==
  ASSUME listeners' \in Nat, wire' \in Seq(Leaves), ready' \in Seq(Leaves),
         chain' = chain
  PROVE  EventsOK'
  BY DEF EventsOK, Leaves

\* An authentic array stays so when a real leaf, or any inner node, is put into it.
LEMMA SetNodeAuthentic ==
  ASSUME NEW nodes, Authentic(nodes), NEW n, NEW entry,
         entry.leafIndex # NotALeaf =>
            entry.leafIndex \in Leaves /\ entry.hash = Commitment(entry.leafIndex)
  PROVE  Authentic(SetNode(nodes, n, entry))
  BY DEF Authentic, SetNode

LEMMA LeafNodeAuthentic ==
  ASSUME NEW nodes, Authentic(nodes), NEW n, NEW i \in Leaves
  PROVE  Authentic(SetNode(nodes, n, LeafNode(i)))
<1>1. LeafNode(i).leafIndex = i /\ LeafNode(i).hash = Commitment(i)
  BY DEF LeafNode
<1> QED BY <1>1, SetNodeAuthentic

LEMMA InnerNodeAuthentic ==
  ASSUME NEW nodes, Authentic(nodes), NEW n, NEW v
  PROVE  Authentic(SetNode(nodes, n, InnerNode(v)))
<1>1. InnerNode(v).leafIndex = NotALeaf
  BY DEF InnerNode
<1> QED BY <1>1, SetNodeAuthentic

\* The leaf that a log entry describes is on the chain, in the block it names.
LEMMA LeafLogIsLatest ==
  ASSUME NEW i \in Leaves
  PROVE  IsLatest(LeafLog(i))
  BY DEF IsLatest, IsLog, LeafLog

\* The loop over fetched leaves: whatever is left of them is real.
LEMMA InsertRestStep ==
  ASSUME IInv, NEW p \in Procs, NEW rest \in Seq(Leaves), InsertRest(p, rest),
         chain' = chain, wire' = wire, ready' = ready,
         UNCHANGED <<crashes, socketLosses>>
  PROVE  ProcOK' /\ EventsOK' /\ CountersOK'
<1> USE DEF IInv
<1>1. CASE rest = <<>>
  <2>1. /\ End(p)
        /\ listeners' \in Nat
        /\ phase' \in {"down", "starting", "serving"}
    BY <1>1 DEF InsertRest, LoopDone, Subscribe, EventsOK, CountersOK
  <2>2. ProcOK'
    BY <2>1, EndStep
  <2>3. EventsOK'
    BY <2>1, EventsStep DEF EventsOK
  <2> QED BY <2>1, <2>2, <2>3 DEF CountersOK
<1>2. CASE rest # <<>>
  <2> DEFINE h == [Idle EXCEPT !.op = proc[p].op, !.pc = "findSegment", !.queue = rest]
  <2>1. HandlerOK(h)
    BY <1>2, IdleOK DEF HandlerOK, ProcOK, Idle, Pcs
  <2>2. proc' = [proc EXCEPT ![p] = h] /\ UNCHANGED <<listeners, phase>>
    BY <1>2 DEF InsertRest
  <2>3. ProcOK'
    BY <2>1, <2>2, ProcStep
  <2> QED BY <2>2, <2>3, EventsStep DEF EventsOK, CountersOK
<1> QED BY <1>1, <1>2

---------------------------------------------------------------------------
(* insertLeaf.                                                             *)

LEMMA FindSegmentStep ==
  ASSUME IInv, NEW p \in Procs, FindSegment(p)
  PROVE  IInv'
<1> USE DEF IInv
<1> DEFINE leaf == Head(proc[p].queue)
           node == LeafIndexToNodeIndex(tree.treeHeight, leaf)
           h    == [proc[p] EXCEPT !.pc = "putSegment",
                                   !.snap = SetNode(tree.nodes, node, LeafNode(leaf))]
<1>1. HandlerOK(proc[p]) /\ proc[p].queue # <<>> /\ leaf \in Leaves
  BY DEF FindSegment, ProcOK, HandlerOK
<1>2. Authentic(SetNode(tree.nodes, node, LeafNode(leaf)))
  BY <1>1, LeafNodeAuthentic DEF TreeOK
<1>3. HandlerOK(h)
  BY <1>1, <1>2 DEF HandlerOK, Idle, Pcs
<1>4. proc' = [proc EXCEPT ![p] = h] \/ End(p)
  BY DEF FindSegment
<1>5. ProcOK'
  BY <1>3, <1>4, ProcStep, EndStep DEF FindSegment
<1> QED BY <1>5, TreeStep, EventsStep DEF FindSegment, ChainOK, EventsOK, CountersOK

LEMMA PutSegmentStep ==
  ASSUME IInv, NEW p \in Procs, PutSegment(p)
  PROVE  IInv'
<1> USE DEF IInv
<1> DEFINE h == [proc[p] EXCEPT !.pc = "putLatestLeaf", !.snap = <<>>]
<1>1. HandlerOK(proc[p]) /\ proc[p].queue # <<>>
  BY DEF PutSegment, ProcOK, HandlerOK
<1>2. HandlerOK(h)
  BY <1>1 DEF HandlerOK, Idle, Pcs, Authentic
<1>3. proc' = [proc EXCEPT ![p] = h]
  BY DEF PutSegment
<1>4. ProcOK'
  BY <1>2, <1>3, ProcStep DEF PutSegment
<1>5. TreeOK([tree EXCEPT !.nodes = proc[p].snap])
  BY <1>1 DEF TreeOK, HandlerOK, NoTree, EmptyTree
<1>6. TreeOK(tree)'
  BY <1>5, TreeStep DEF PutSegment
<1> QED BY <1>4, <1>6, EventsStep DEF PutSegment, ChainOK, EventsOK, CountersOK

LEMMA PutLatestLeafStep ==
  ASSUME IInv, NEW p \in Procs, PutLatestLeaf(p)
  PROVE  IInv'
<1> USE DEF IInv
<1> DEFINE log == LeafLog(Head(proc[p].queue))
<1>1. Head(proc[p].queue) \in Leaves /\ Tail(proc[p].queue) \in Seq(Leaves)
  BY DEF PutLatestLeaf, ProcOK, HandlerOK
<1>2. TreeOK([tree EXCEPT !.latestLeaf = log])
  BY <1>1, LeafLogIsLatest DEF TreeOK, NoTree, EmptyTree
<1>3. TreeOK(tree)'
  BY <1>2, TreeStep DEF PutLatestLeaf
<1>4. ProcOK' /\ EventsOK' /\ CountersOK'
  BY <1>1, InsertRestStep DEF PutLatestLeaf
<1> QED BY <1>3, <1>4 DEF PutLatestLeaf, ChainOK

---------------------------------------------------------------------------
(* Events.                                                                 *)

LEMMA DeliverEventStep ==
  ASSUME IInv, DeliverEvent
  PROVE  IInv'
<1> USE DEF IInv
<1> DEFINE copies == [k \in 1..listeners |-> Head(wire)]
<1>1. Head(wire) \in Leaves /\ Tail(wire) \in Seq(Leaves) /\ listeners \in Nat
  BY DEF DeliverEvent, EventsOK
<1>2. copies \in Seq(Leaves)
  BY <1>1
<1>3. ready \o copies \in Seq(Leaves)
  BY <1>2 DEF EventsOK
<1>4. EventsOK'
  BY <1>1, <1>3, EventsStep DEF DeliverEvent
<1>5. ProcOK'
  BY DEF DeliverEvent, ProcOK, HandlerOK, Authentic, IsLatest, IsLog, Leaves
<1> QED BY <1>4, <1>5, TreeStep DEF DeliverEvent, ChainOK, CountersOK

LEMMA StartCallbackStep ==
  ASSUME IInv, NEW p \in Procs, StartCallback(p)
  PROVE  IInv'
<1> USE DEF IInv
<1> DEFINE h == [Idle EXCEPT !.op = "event", !.pc = "findSegment",
                             !.queue = <<Head(ready)>>]
<1>1. Head(ready) \in Leaves /\ Tail(ready) \in Seq(Leaves)
  BY DEF StartCallback, EventsOK
<1>2. HandlerOK(h)
  BY <1>1, IdleOK DEF HandlerOK, Idle, Ops, Pcs
<1>3. ProcOK'
  BY <1>2, ProcStep DEF StartCallback
<1>4. EventsOK'
  BY <1>1, EventsStep DEF StartCallback, EventsOK
<1> QED BY <1>3, <1>4, TreeStep DEF StartCallback, ChainOK, CountersOK

---------------------------------------------------------------------------
(* baseline_track and baseline_untrack.                                    *)

LEMMA TrackFindStep ==
  ASSUME IInv, NEW p \in Procs, TrackFind(p)
  PROVE  IInv'
<1> USE DEF IInv
<1>1. HandlerOK([Idle EXCEPT !.op = "track", !.pc = "trackUpsert"])
  BY IdleOK DEF HandlerOK, Idle, Ops, Pcs
<1>2. ProcOK'
  BY <1>1, ProcStep DEF TrackFind
<1> QED BY <1>2, TreeStep, EventsStep DEF TrackFind, ChainOK, EventsOK, CountersOK

LEMMA EmptyTreeOK == TreeOK(EmptyTree) /\ TreeOK(NoTree)
  BY DEF TreeOK, EmptyTree, NoTree, NoLeaf, NoRecalculation, Authentic, IsLatest

LEMMA TrackUpsertStep ==
  ASSUME IInv, NEW p \in Procs, TrackUpsert(p)
  PROVE  IInv'
<1> USE DEF IInv
<1> DEFINE before == IF tree.exists THEN tree ELSE EmptyTree
           h      == [proc[p] EXCEPT !.pc = "checkChainLogs"]
<1>1. HandlerOK(h)
  BY DEF ProcOK, HandlerOK, Idle, Pcs
<1>2. ProcOK'
  BY <1>1, ProcStep DEF TrackUpsert
<1>3. TreeOK(before)
  BY EmptyTreeOK
<1>4. TreeOK([before EXCEPT !.treeHeight = TreeHeight, !.active = TRUE])
  BY <1>3 DEF TreeOK, NoTree, EmptyTree
<1>5. TreeOK(tree)'
  BY <1>4, TreeStep DEF TrackUpsert
<1> QED BY <1>2, <1>5, EventsStep DEF TrackUpsert, ChainOK, EventsOK, CountersOK

LEMMA CheckChainLogsStep ==
  ASSUME IInv, NEW p \in Procs, CheckChainLogs(p)
  PROVE  IInv'
<1> USE DEF IInv
<1>1. PICK skip \in 0..Len(chain) :
        InsertRest(p, [k \in 1..(Len(chain) - skip) |-> skip + k - 1])
  BY DEF CheckChainLogs
<1>2. [k \in 1..(Len(chain) - skip) |-> skip + k - 1] \in Seq(Leaves)
  BY DEF ChainOK, Leaves
<1>3. ProcOK' /\ EventsOK' /\ CountersOK'
  BY <1>1, <1>2, InsertRestStep DEF CheckChainLogs
<1> QED BY <1>3, TreeStep DEF CheckChainLogs, ChainOK

LEMMA UntrackFindStep ==
  ASSUME IInv, NEW p \in Procs, NEW kind, UntrackFind(p, kind)
  PROVE  IInv'
<1> USE DEF IInv
<1>1. HandlerOK([Idle EXCEPT !.op = kind, !.pc = "untrackWrite"])
  BY IdleOK DEF UntrackFind, HandlerOK, Idle, Ops, Pcs
<1>2. ProcOK'
  BY <1>1, ProcStep DEF UntrackFind
<1>3. EventsOK'
  BY EventsStep DEF UntrackFind, EventsOK
<1> QED BY <1>2, <1>3, TreeStep DEF UntrackFind, ChainOK, CountersOK

LEMMA UntrackWriteStep ==
  ASSUME IInv, NEW p \in Procs, UntrackWrite(p)
  PROVE  IInv'
<1> USE DEF IInv
<1> DEFINE before == IF tree.exists THEN tree ELSE EmptyTree
<1>1. ProcOK'
  BY EndStep DEF UntrackWrite
<1>2. TreeOK(before)
  BY EmptyTreeOK
<1>3. TreeOK([before EXCEPT !.active = FALSE])
  BY <1>2 DEF TreeOK, NoTree, EmptyTree
<1>4. TreeOK(tree)'
  BY <1>3, EmptyTreeOK, TreeStep DEF UntrackWrite
<1> QED BY <1>1, <1>4, EventsStep DEF UntrackWrite, ChainOK, EventsOK, CountersOK

---------------------------------------------------------------------------
(* updateTree.  What it hashes does not matter: inner nodes are no leaves, *)
(* and the label of the recalculation is a latestLeaf it has read.         *)

LEMMA UpdateTreeFindStep ==
  ASSUME IInv, NEW p \in Procs, UpdateTreeFind(p)
  PROVE  IInv'
<1> USE DEF IInv
<1> DEFINE h == [Idle EXCEPT !.op = "getRoot", !.pc = "leafRange",
                             !.from = FromLeaf, !.cursor = FromLeaf,
                             !.to = tree.latestLeaf.leafIndex,
                             !.frontier = tree.latestRecalculation.frontier]
<1>1. HandlerOK(h)
  BY IdleOK DEF HandlerOK, Idle, Ops, Pcs
<1>2. proc' = [proc EXCEPT ![p] = h]
  BY DEF UpdateTreeFind
<1>3. ProcOK'
  BY <1>1, <1>2, ProcStep DEF UpdateTreeFind
<1> QED BY <1>3, TreeStep, EventsStep DEF UpdateTreeFind, ChainOK, EventsOK, CountersOK

LEMMA LeafRangeStep ==
  ASSUME IInv, NEW p \in Procs, LeafRange(p)
  PROVE  IInv'
<1> USE DEF IInv
<1> DEFINE found == LeavesOfSegment(tree.nodes, proc[p].cursor, proc[p].to)
           next  == NextCursor(proc[p].cursor, found)
           h     == [proc[p] EXCEPT !.leaves = @ \o found, !.cursor = next,
                                    !.pc = IF next > proc[p].to THEN "findTree"
                                                                ELSE "leafRange"]
<1>1. HandlerOK(proc[p])
  BY DEF ProcOK
<1>2. HandlerOK(h)
  <2> HIDE DEF found, next
  <2> QED BY <1>1 DEF HandlerOK, Idle, Pcs
<1>3. proc' = [proc EXCEPT ![p] = h] \/ End(p)
  BY DEF LeafRange
<1>4. ProcOK'
  <2> HIDE DEF h
  <2> QED BY <1>2, <1>3, ProcStep, EndStep DEF LeafRange
<1> QED BY <1>4, TreeStep, EventsStep DEF LeafRange, ChainOK, EventsOK, CountersOK

LEMMA FindTreeStep ==
  ASSUME IInv, NEW p \in Procs, FindTree(p)
  PROVE  IInv'
<1> USE DEF IInv
<1> DEFINE values == [k \in DOMAIN proc[p].leaves |-> proc[p].leaves[k].hash]
           result == PlanUpdate(tree.treeHeight, proc[p].frontier, values, proc[p].from)
           plan   == [frontier |-> result.frontier, root |-> result.value,
                      writes |-> result.writes, ok |-> result.ok]
           h      == [Idle EXCEPT !.op = "getRoot", !.pc = NextPc(plan),
                                  !.latest = tree.latestLeaf, !.plan = plan]
<1>1. (proc' = [proc EXCEPT ![p] = h] /\ NextPc(plan) # "failed") \/ End(p)
  BY DEF FindTree
<1>2. ASSUME NextPc(plan) # "failed" PROVE HandlerOK(h)
  <2>1. NextPc(plan) \in {"findNodes", "putRecalculation"}
    BY <1>2 DEF NextPc
  <2> HIDE DEF plan
  <2> QED BY <2>1, IdleOK DEF HandlerOK, Idle, Ops, Pcs, TreeOK
<1>3. ProcOK'
  <2> HIDE DEF h, plan
  <2> QED BY <1>1, <1>2, ProcStep, EndStep DEF FindTree
<1> QED BY <1>3, TreeStep, EventsStep DEF FindTree, ChainOK, EventsOK, CountersOK

LEMMA FindNodesStep ==
  ASSUME IInv, NEW p \in Procs, FindNodes(p)
  PROVE  IInv'
<1> USE DEF IInv
<1> DEFINE write == Head(proc[p].plan.writes)
           snap  == SetNode(tree.nodes, write.index, InnerNode(write.hash))
           h     == [proc[p] EXCEPT !.pc = "putNodes", !.snap = snap]
<1>1. HandlerOK(proc[p])
  BY DEF ProcOK
<1>2. Authentic(snap)
  BY InnerNodeAuthentic DEF TreeOK
<1>3. HandlerOK(h)
  <2> HIDE DEF snap
  <2> QED BY <1>1, <1>2 DEF HandlerOK, Idle, Pcs
<1>4. proc' = [proc EXCEPT ![p] = h] \/ End(p)
  BY DEF FindNodes
<1>5. ProcOK'
  <2> HIDE DEF h
  <2> QED BY <1>3, <1>4, ProcStep, EndStep DEF FindNodes
<1> QED BY <1>5, TreeStep, EventsStep DEF FindNodes, ChainOK, EventsOK, CountersOK

LEMMA PutNodesStep ==
  ASSUME IInv, NEW p \in Procs, PutNodes(p)
  PROVE  IInv'
<1> USE DEF IInv
<1> DEFINE rest == [proc[p].plan EXCEPT !.writes = Tail(@)]
           h    == [proc[p] EXCEPT !.plan = rest, !.pc = NextPc(rest), !.snap = <<>>]
<1>1. HandlerOK(proc[p])
  BY DEF ProcOK
<1>2. (proc' = [proc EXCEPT ![p] = h] /\ NextPc(rest) # "failed") \/ End(p)
  BY DEF PutNodes
<1>3. ASSUME NextPc(rest) # "failed" PROVE HandlerOK(h)
  <2>1. NextPc(rest) \in {"findNodes", "putRecalculation"}
    BY <1>3 DEF NextPc
  <2> HIDE DEF rest
  <2> QED BY <1>1, <2>1 DEF HandlerOK, Idle, Pcs, Authentic
<1>4. ProcOK'
  <2> HIDE DEF h, rest
  <2> QED BY <1>2, <1>3, ProcStep, EndStep DEF PutNodes
<1>5. TreeOK([tree EXCEPT !.nodes = proc[p].snap])
  BY <1>1 DEF TreeOK, HandlerOK, NoTree, EmptyTree
<1>6. TreeOK(tree)'
  BY <1>5, TreeStep DEF PutNodes
<1> QED BY <1>4, <1>6, EventsStep DEF PutNodes, ChainOK, EventsOK, CountersOK

LEMMA PutRecalculationStep ==
  ASSUME IInv, NEW p \in Procs, PutRecalculation(p)
  PROVE  IInv'
<1> USE DEF IInv
<1> DEFINE latest == proc[p].latest
           recalculation == [blockNumber |-> latest.blockNumber,
                             leafIndex |-> latest.leafIndex,
                             root |-> proc[p].plan.root,
                             frontier |-> proc[p].plan.frontier]
<1>1. latest.leafIndex = -1 \/ IsLog(latest)
  BY DEF ProcOK, HandlerOK, IsLatest, NoLeaf
<1>2. recalculation.leafIndex = -1 \/ IsLog(recalculation)
  BY <1>1 DEF IsLog
<1>3. TreeOK([tree EXCEPT !.latestRecalculation = recalculation])
  <2> HIDE DEF recalculation
  <2> QED BY <1>2 DEF TreeOK, NoTree, EmptyTree
<1>4. TreeOK(tree)'
  <2> HIDE DEF recalculation
  <2>1. tree' = [tree EXCEPT !.latestRecalculation = recalculation] \/ tree' = tree
    BY DEF PutRecalculation, recalculation
  <2> QED BY <1>3, <2>1, TreeStep DEF PutRecalculation
<1>5. ProcOK'
  BY EndStep DEF PutRecalculation
<1> QED BY <1>4, <1>5, EventsStep DEF PutRecalculation, ChainOK, EventsOK, CountersOK

---------------------------------------------------------------------------
(* Starts, stops and failures.                                             *)

LEMMA RestartStep ==
  ASSUME IInv, NEW p \in Procs, Restart(p)
  PROVE  IInv'
<1> USE DEF IInv
<1> DEFINE h == [Idle EXCEPT !.op = "restart", !.pc = "checkChainLogs",
                             !.from = tree.latestLeaf.blockNumber]
<1>1. HandlerOK(h)
  BY IdleOK DEF HandlerOK, Idle, Ops, Pcs
<1>2. proc' = [proc EXCEPT ![p] = h] \/ proc' = proc
  BY DEF Restart
<1>3. ProcOK'
  <2>1. CASE proc' = [proc EXCEPT ![p] = h]
    BY <1>1, <2>1, ProcStep DEF Restart
  <2>2. CASE proc' = proc
    BY <2>2 DEF Restart, ProcOK, HandlerOK, Authentic, IsLatest, IsLog, Leaves
  <2> QED BY <1>2, <2>1, <2>2
<1> QED BY <1>3, TreeStep, EventsStep DEF Restart, ChainOK, EventsOK, CountersOK

LEMMA HandlerFailsStep ==
  ASSUME IInv, NEW p \in Procs, HandlerFails(p)
  PROVE  IInv'
<1> USE DEF IInv
<1>1. ProcOK'
  BY EndStep DEF HandlerFails
<1> QED BY <1>1, TreeStep, EventsStep DEF HandlerFails, ChainOK, EventsOK, CountersOK

LEMMA LoseSocketStep ==
  ASSUME IInv, LoseSocket
  PROVE  IInv'
<1> USE DEF IInv
<1>1. ProcOK'
  BY DEF LoseSocket, ProcOK, HandlerOK, Authentic, IsLatest, IsLog, Leaves
<1>2. EventsOK'
  BY EventsStep DEF LoseSocket, EventsOK
<1>3. CountersOK'
  BY BoundsAssumption DEF LoseSocket, CountersOK
<1> QED BY <1>1, <1>2, <1>3, TreeStep DEF LoseSocket, ChainOK

LEMMA CrashStep ==
  ASSUME IInv, Crash
  PROVE  IInv'
<1> USE DEF IInv
<1>1. ProcOK'
  <2>1. HandlerOK(Idle)'
    BY DEF HandlerOK, Idle, Ops, Pcs, Authentic, IsLatest, NoLeaf
  <2> QED BY <2>1 DEF Crash, ProcOK
<1>2. EventsOK'
  BY EventsStep DEF Crash, EventsOK
<1>3. CountersOK'
  BY BoundsAssumption DEF Crash, CountersOK
<1> QED BY <1>1, <1>2, <1>3, TreeStep DEF Crash, ChainOK

---------------------------------------------------------------------------
(* Growth of the chain: what was real stays real.                          *)

LEMMA Concatenation ==
  ASSUME NEW s \in Seq(Nat), NEW t \in Seq(Nat)
  PROVE  /\ s \o t \in Seq(Nat)
         /\ Len(s \o t) = Len(s) + Len(t)
         /\ \A i \in 1..Len(s) : (s \o t)[i] = s[i]
  OBVIOUS

LEMMA ChainGrows ==
  ASSUME ChainOK, NEW n \in Nat \ {0}, Mine(n)
  PROVE  /\ ChainOK'
         /\ Leaves \subseteq Leaves'
         /\ \A i \in Leaves : chain'[i + 1] = chain[i + 1]
         /\ \A k \in 1..n : Len(chain) + k - 1 \in Leaves'
<1> DEFINE block == IF chain = <<>> THEN 1 ELSE chain[Len(chain)] + 1
           new   == [k \in 1..n |-> block]
<1>1. block \in Nat
  BY DEF ChainOK
<1>2. new \in Seq(Nat) /\ Len(new) = n
  <2> HIDE DEF block
  <2> QED BY <1>1
<1>3. chain' = chain \o new /\ Len(chain) + n <= MaxLeaves
  BY DEF Mine
<1> HIDE DEF new
<1>4. /\ chain' \in Seq(Nat) /\ Len(chain') = Len(chain) + n
      /\ \A i \in 1..Len(chain) : chain'[i] = chain[i]
  BY <1>2, <1>3, Concatenation DEF ChainOK
<1> QED BY <1>3, <1>4 DEF ChainOK, Leaves

LEMMA MineStep ==
  ASSUME IInv, NEW n \in Nat \ {0}, Mine(n)
  PROVE  IInv'
<1> USE DEF IInv
<1> DEFINE leaves == [k \in 1..n |-> Len(chain) + k - 1]
<1>1. /\ ChainOK'
      /\ Leaves \subseteq Leaves'
      /\ \A i \in Leaves : chain'[i + 1] = chain[i + 1]
      /\ \A k \in 1..n : Len(chain) + k - 1 \in Leaves'
  BY ChainGrows
<1>2. \A r : IsLog(r) => (IsLog(r))'
  BY <1>1 DEF IsLog
<1>3. \A nodes : Authentic(nodes) => (Authentic(nodes))'
  BY <1>1 DEF Authentic
<1>4. \A s \in Seq(Leaves) : s \in Seq(Leaves')
  BY <1>1
<1>5. TreeOK(tree)'
  BY <1>2, <1>3 DEF Mine, TreeOK, IsLatest
<1>6. ProcOK'
  BY <1>2, <1>3, <1>4 DEF Mine, ProcOK, HandlerOK, IsLatest
<1>7. EventsOK'
  <2>1. leaves \in Seq(Leaves')
    BY <1>1
  <2>2. wire \in Seq(Leaves') /\ ready \in Seq(Leaves')
    BY <1>4 DEF EventsOK
  <2>3. wire \o leaves \in Seq(Leaves')
    BY <2>1, <2>2
  <2> QED BY <2>2, <2>3 DEF Mine, EventsOK
<1> QED BY <1>1, <1>5, <1>6, <1>7 DEF Mine, CountersOK

---------------------------------------------------------------------------

LEMMA NextIInv == IInv /\ [Next]_vars => IInv'
<1> SUFFICES ASSUME IInv, [Next]_vars PROVE IInv'
  OBVIOUS
<1>1. ASSUME NEW p \in Procs, StartCallback(p) PROVE IInv'
  BY <1>1, StartCallbackStep
<1>2. ASSUME NEW p \in Procs, ClientRequest(p) PROVE IInv'
  BY <1>2, TrackFindStep, UntrackFindStep, UpdateTreeFindStep DEF ClientRequest
<1>3. ASSUME NEW p \in Procs, Restart(p) PROVE IInv'
  BY <1>3, RestartStep
<1>4. ASSUME NEW p \in Procs, HandlerStep(p) PROVE IInv'
  BY <1>4, FindSegmentStep, PutSegmentStep, PutLatestLeafStep, TrackUpsertStep,
     CheckChainLogsStep, UntrackWriteStep, LeafRangeStep, FindTreeStep, FindNodesStep,
     PutNodesStep, PutRecalculationStep DEF HandlerStep
<1>5. ASSUME NEW p \in Procs, HandlerFails(p) PROVE IInv'
  BY <1>5, HandlerFailsStep
<1>6. CASE DeliverEvent
  BY <1>6, DeliverEventStep
<1>7. CASE Environment
  BY <1>7, MineStep, LoseSocketStep, CrashStep, BoundsAssumption DEF Environment
<1>8. CASE UNCHANGED vars
  <2>1. ProcOK'
    BY <1>8 DEF vars, IInv, ProcOK, HandlerOK, Authentic, IsLatest, IsLog, Leaves
  <2> QED BY <1>8, <2>1, TreeStep, EventsStep
          DEF vars, IInv, ChainOK, EventsOK, CountersOK
<1> QED BY <1>1, <1>2, <1>3, <1>4, <1>5, <1>6, <1>7, <1>8 DEF Next

LEMMA SpecIInv == Spec => []IInv
  BY InitIInv, NextIInv, PTL DEF Spec

\* The document, the handlers' control state and the counters always have their types,
\* for any number of handlers and any bounds.
THEOREM TypeCorrect == Spec => []TypeOK
  BY SpecIInv, IInvImplies, PTL

\* The mirror never holds a leaf, a latestLeaf or a recalculation label that is not of
\* the contract, whatever handlers interleave, fail or are cut off by a stop: insertLeaf
\* and updateNodes overwrite whole arrays from stale copies, but never with a wrong leaf.
THEOREM MirrorIsAuthentic == Spec => []MirrorFollowsChain
  BY SpecIInv, IInvImplies, PTL

\* The same of everything on its way to the document: notifications, scheduled
\* callbacks, queued leaves and the arrays that insertLeaf and updateNodes write back.
THEOREM HandlersAreAuthentic == Spec => []HandlersFollowChain
  BY SpecIInv, IInvImplies, PTL

---------------------------------------------------------------------------
(* The mirror that never races: what CommitMgr guarantees when one handler runs at a
   time.  Concurrent handlers lose the contract's leaves (LostInsert.cfg), so the
   properties below do not hold of Spec as it stands; they hold of every instance that
   satisfies Serial, whatever the height of the tree, the length of the contract's
   log, and the number of stops of the process.  The invariant Mirror, which says what
   the document holds, what is on its way to it and what the one handler is about to
   write, is inductive together with IInv. Proofs
   made from the document need the more that Tracking says, at the end. *)

\* One handler at a time, whose calls do not fail, one leaf in each block, none of them
\* mined between the read of the logs and the subscription, and a tree whose nodes all
\* belong to the first document.
Serial ==
    /\ \E p \in Procs : Procs = {p}
    /\ ~CallsFail
    /\ QuietTracking
    /\ MaxLeavesPerBlock = 1
    /\ 2 * TwoTo[TreeHeight] <= BucketSize + 1

\* The one handler.
Only    == CHOOSE p \in Procs : TRUE
Handler == proc[Only]

LatestLeaf(t)   == t.latestLeaf.leafIndex
Recalculated(t) == t.latestRecalculation.leafIndex

\* How many leaves the array holds: the first so many, in their places.
Held(t) == CHOOSE n \in 0..TwoTo[TreeHeight] : LeavesStored(TreeHeight, t.nodes, n)

\* The leaves on their way to the document, the next one first.
Pending == Handler.queue \o ready \o wire

\* Each leaf of s finds its predecessor stored, or comes after it.
InOrder(s, n) ==
    \A k \in 1..Len(s) : s[k] <= n \/ \E j \in 1..(k - 1) : s[j] + 1 = s[k]

\* Each of the first len leaves is stored or on its way.
Covers(s, n, len) == \A i \in 0..(len - 1) : i < n \/ \E k \in 1..Len(s) : s[k] = i

Pipeline ==
    /\ (tree.exists /\ Handler.pc # "checkChainLogs") => InOrder(Pending, Held(tree))
    /\ (listeners = 1 \/ (Handler.op \in {"track", "restart"} /\ Handler.queue # <<>>))
          => Covers(Pending, Held(tree), Len(chain))

\* Blocks are numbered from 1 and have one leaf each.
ChainSerial == \A i \in 1..Len(chain) : chain[i] = i

\* The recalculation of the first m leaves.
RecalculationOf(r, m) ==
    /\ FrontierOf(TreeHeight, Commitments(m), m, r.frontier)
    /\ m # 0 => r.root = ReferenceRoot(TreeHeight, Commitments(m))

\* The document holds the first leaves, and is right about a recalculation of some.
TreeSerial(t, len) ==
    /\ ~t.exists => t = NoTree
    /\ t.exists => t.treeHeight = TreeHeight
    /\ Held(t) \in 0..len
    /\ LeavesStored(TreeHeight, t.nodes, Held(t))
    /\ LatestLeaf(t) < Held(t)
    /\ Recalculated(t) < Held(t)
    /\ RecalculationOf(t.latestRecalculation, Recalculated(t) + 1)

\* Handlers that subscribe or unsubscribe.
Subscribing == {"track", "restart", "untrack", "prune"}

ListenersSerial ==
    /\ listeners \in {0, 1}
    /\ listeners = 1 => /\ tree.exists /\ tree.active /\ phase = "serving"
                        /\ Handler.op \notin Subscribing
    /\ wire # <<>> => listeners = 1
    /\ phase = "down" => ready = <<>> /\ Handler = Idle
    /\ phase = "starting" <=> Handler.op = "restart"
    /\ (/\ socketLosses = 0 /\ phase = "serving"
        /\ tree.exists /\ tree.active /\ Handler.op \notin Subscribing) => listeners = 1

\* insertLeaf, from an event or from the loop over the logs of an active tree.
Inserting(h, t) ==
    /\ h.queue # <<>>
    /\ h.op \in {"event", "track", "restart"}
    /\ h.op # "event" => t.exists /\ t.active

\* updateTree has read a document that has not changed since.
Ranging(h, t) ==
    /\ h.op = "getRoot" /\ h.queue = <<>> /\ t.exists
    /\ Recalculated(t) < LatestLeaf(t)
    /\ h.from = Recalculated(t) + 1 /\ h.to = LatestLeaf(t)
    /\ h.frontier = t.latestRecalculation.frontier

\* What updateNodes writes is right for the leaves up to latestLeaf.
Writing(h, t) ==
    /\ h.op = "getRoot" /\ h.queue = <<>> /\ t.exists
    /\ Recalculated(t) < LatestLeaf(t)
    /\ h.latest = t.latestLeaf
    /\ DOMAIN h.plan = DOMAIN Idle.plan
    /\ h.plan.ok = TRUE
    /\ IsSequence(h.plan.writes)
    /\ AllReference(h.plan.writes, TreeHeight, Commitments(LatestLeaf(t) + 1))
    /\ RecalculationOf(h.plan, LatestLeaf(t) + 1)

HandlerSerial(h, t) ==
    /\ h.pc = "idle" => h = Idle
    /\ h.pc = "findSegment" => Inserting(h, t)
    /\ h.pc = "putSegment" =>
          /\ Inserting(h, t) /\ t.exists
          /\ h.snap = SetNode(t.nodes, LeafIndexToNodeIndex(TreeHeight, Head(h.queue)),
                              LeafNode(Head(h.queue)))
    /\ h.pc = "putLatestLeaf" => Inserting(h, t) /\ t.exists /\ Head(h.queue) < Held(t)
    /\ h.pc = "trackUpsert" => h.op = "track" /\ h.queue = <<>> /\ h.from = 0
    /\ h.pc = "checkChainLogs" =>
          /\ h.op \in {"track", "restart"} /\ h.queue = <<>>
          /\ t.exists /\ t.active
          /\ h.from \in 0..Held(t)
    /\ h.pc = "untrackWrite" => h.op \in {"untrack", "prune"} /\ h.queue = <<>> /\ t.exists
    /\ h.pc = "leafRange" => Ranging(h, t) /\ h.cursor = h.from /\ h.leaves = <<>>
    /\ h.pc = "findTree" =>
          /\ Ranging(h, t)
          /\ DOMAIN h.leaves = 1..(LatestLeaf(t) - Recalculated(t))
          /\ \A k \in 1..(LatestLeaf(t) - Recalculated(t)) :
                h.leaves[k] = LeafNode(Recalculated(t) + k)
    /\ h.pc = "findNodes" => Writing(h, t) /\ h.plan.writes # <<>>
    /\ h.pc = "putNodes" =>
          /\ Writing(h, t) /\ h.plan.writes # <<>>
          /\ h.snap = SetNode(t.nodes, Head(h.plan.writes).index,
                              InnerNode(Head(h.plan.writes).hash))
    /\ h.pc = "putRecalculation" => Writing(h, t)

Mirror == /\ ChainSerial
          /\ TreeSerial(tree, Len(chain))
          /\ ListenersSerial
          /\ HandlerSerial(Handler, tree)
          /\ Pipeline

\* Neither the leaves nor the recalculation of a document get fewer.
Grows == tree'.exists => /\ Held(tree) <= Held(tree')
                         /\ Recalculated(tree) <= Recalculated(tree')

LEMMA OneHandler ==
  ASSUME Serial
  PROVE  Only \in Procs /\ \A p \in Procs : p = Only
BY DEF Serial, Only

LEMMA HandlerBecomes ==
  ASSUME Serial, IInv, NEW p \in Procs, NEW h, proc' = [proc EXCEPT ![p] = h]
  PROVE  p = Only /\ Handler' = h
BY OneHandler DEF Handler, IInv, ProcOK

LEMMA HandlerEnds ==
  ASSUME Serial, IInv, NEW p \in Procs, End(p)
  PROVE  Handler' = Idle
BY HandlerBecomes DEF End

LEMMA SerialFacts ==
  ASSUME IInv, Mirror
  PROVE  /\ TreeHeight \in Nat /\ TreeHeight > 0
         /\ TwoTo[TreeHeight] \in Nat
         /\ Len(chain) \in Nat /\ Len(chain) <= TwoTo[TreeHeight]
         /\ Held(tree) \in Nat /\ Held(tree) <= Len(chain)
         /\ LatestLeaf(tree) \in Int /\ LatestLeaf(tree) >= -1
         /\ Recalculated(tree) \in Int /\ Recalculated(tree) >= -1
<1>1. TreeHeight \in Nat /\ TreeHeight > 0 /\ TwoTo[TreeHeight] \in Nat
  BY HeightAssumption, TwoToIsLarge
<1>2. Len(chain) \in Nat /\ Len(chain) <= TwoTo[TreeHeight]
  BY <1>1, LeavesAssumption DEF IInv, ChainOK
<1>3. Held(tree) \in Nat /\ Held(tree) <= Len(chain)
  BY <1>2 DEF Mirror, TreeSerial
<1>4. LatestLeaf(tree) \in Int /\ LatestLeaf(tree) >= -1
  BY <1>2 DEF IInv, TreeOK, IsLatest, IsLog, Leaves, NoLeaf, LatestLeaf
<1>5. Recalculated(tree) \in Int /\ Recalculated(tree) >= -1
  BY <1>2 DEF IInv, TreeOK, IsLog, Leaves, Recalculated
<1> QED BY <1>1, <1>2, <1>3, <1>4, <1>5

\* The leaves of an array are counted in one way.
LEMMA HeldIs ==
  ASSUME NEW t, NEW n \in 0..TwoTo[TreeHeight], LeavesStored(TreeHeight, t.nodes, n)
  PROVE  Held(t) = n
<1> DEFINE h == TreeHeight
<1>1. h \in Nat /\ TwoTo[h] \in Nat /\ h - 0 = h
  BY HeightAssumption, TwoToIsLarge
<1>2. ASSUME NEW a \in 0..TwoTo[h], NEW b \in 0..TwoTo[h], a < b,
             LeavesStored(h, t.nodes, a), LeavesStored(h, t.nodes, b)
      PROVE  FALSE
  <2>1. a \in 0..(b - 1) /\ a \in Columns(h, 0)
    BY <1>1, <1>2 DEF Columns
  <2>2. Place(h, 0, a) \in DOMAIN t.nodes
    BY <1>2, <2>1 DEF LeavesStored
  <2>3. a < a
    BY <1>2, <2>1, <2>2 DEF LeavesStored
  <2> QED BY <1>1, <2>3
<1>3. Held(t) \in 0..TwoTo[h] /\ LeavesStored(h, t.nodes, Held(t))
  BY DEF Held
<1>4. ~(n < Held(t)) /\ ~(Held(t) < n)
  BY <1>2, <1>3
<1> QED BY <1>1, <1>3, <1>4

---------------------------------------------------------------------------
(* Leaves on their way.                                                    *)

LEMMA PendingType ==
  ASSUME Serial, IInv
  PROVE  /\ HandlerOK(Handler)
         /\ Handler.queue \in Seq(Nat) /\ ready \in Seq(Nat) /\ wire \in Seq(Nat)
         /\ \A k \in 1..Len(ready) : ready[k] < Len(chain)
         /\ \A k \in 1..Len(wire) : wire[k] < Len(chain)
         /\ \A k \in 1..Len(Handler.queue) : Handler.queue[k] < Len(chain)
         /\ Pending \in Seq(Nat)
<1>1. HandlerOK(Handler)
  BY OneHandler DEF IInv, ProcOK, Handler
<1>2. Len(chain) \in Nat
  BY DEF IInv, ChainOK
<1>3. Handler.queue \in Seq(Leaves) /\ ready \in Seq(Leaves) /\ wire \in Seq(Leaves)
  BY <1>1 DEF HandlerOK, IInv, EventsOK
<1>4. Leaves \subseteq Nat /\ \A i \in Leaves : i < Len(chain)
  BY <1>2 DEF Leaves
<1>5. Handler.queue \in Seq(Nat) /\ ready \in Seq(Nat) /\ wire \in Seq(Nat)
  <2>1. \A s \in Seq(Leaves) : s \in Seq(Nat)
    <3>1. SUFFICES ASSUME NEW s \in Seq(Leaves) PROVE s \in Seq(Nat)
      OBVIOUS
    <3>2. \A k \in 1..Len(s) : s[k] \in Nat
      <4>1. \A k \in 1..Len(s) : s[k] \in Leaves
        OBVIOUS
      <4> QED BY <1>4, <4>1
    <3> QED BY <3>2
  <2> QED BY <1>3, <2>1
<1> QED BY <1>1, <1>3, <1>4, <1>5 DEF Pending

LEMMA InOrderTail ==
  ASSUME NEW s \in Seq(Nat), s # <<>>, NEW n \in Nat, InOrder(s, n), s[1] < n
  PROVE  InOrder(Tail(s), n)
<1> SUFFICES ASSUME NEW k \in 1..Len(Tail(s)), ~(Tail(s)[k] <= n)
             PROVE  \E j \in 1..(k - 1) : Tail(s)[j] + 1 = Tail(s)[k]
  BY DEF InOrder
<1>1. /\ Len(s) \in Nat /\ Len(s) > 0 /\ Len(Tail(s)) = Len(s) - 1
      /\ \A e \in 1..(Len(s) - 1) : Tail(s)[e] = s[e + 1]
  OBVIOUS
<1>2. k + 1 \in 1..Len(s) /\ Tail(s)[k] = s[k + 1] /\ s[k + 1] \in Nat /\ s[1] \in Nat
  BY <1>1
<1>3. PICK j \in 1..k : s[j] + 1 = s[k + 1]
  <2>1. (k + 1) - 1 = k
    OBVIOUS
  <2> QED BY <1>2, <2>1 DEF InOrder
<1>4. j # 1
  BY <1>2, <1>3
<1>5. j - 1 \in 1..(k - 1) /\ Tail(s)[j - 1] = s[j]
  BY <1>1, <1>4
<1> QED BY <1>2, <1>3, <1>5

LEMMA CoversTail ==
  ASSUME NEW s \in Seq(Nat), s # <<>>, NEW n \in Nat, NEW len \in Nat,
         Covers(s, n, len), s[1] < n
  PROVE  Covers(Tail(s), n, len)
<1> SUFFICES ASSUME NEW i \in 0..(len - 1), ~(i < n)
             PROVE  \E k \in 1..Len(Tail(s)) : Tail(s)[k] = i
  BY DEF Covers
<1>1. /\ Len(s) \in Nat /\ Len(s) > 0 /\ Len(Tail(s)) = Len(s) - 1
      /\ \A e \in 1..(Len(s) - 1) : Tail(s)[e] = s[e + 1]
  OBVIOUS
<1>2. PICK k \in 1..Len(s) : s[k] = i
  BY DEF Covers
<1>3. k # 1
  BY <1>2
<1>4. k - 1 \in 1..Len(Tail(s)) /\ Tail(s)[k - 1] = s[k]
  BY <1>1, <1>3
<1> QED BY <1>2, <1>4

LEMMA MoreHeld ==
  ASSUME NEW s \in Seq(Nat), NEW n \in Nat, NEW m \in Nat, n <= m, NEW len \in Nat
  PROVE  /\ InOrder(s, n) => InOrder(s, m)
         /\ Covers(s, n, len) => Covers(s, m, len)
<1>1. \A k \in 1..Len(s) : s[k] \in Nat
  OBVIOUS
<1> QED BY SMTT(30), <1>1 DEF InOrder, Covers

\* Leaves dropped at the end, and a leaf added at the end.
LEMMA InOrderPrefix ==
  ASSUME NEW s \in Seq(Nat), NEW t \in Seq(Nat), NEW n \in Nat, InOrder(s \o t, n)
  PROVE  InOrder(s, n)
<1>1. /\ \A k \in 1..Len(s) : k \in 1..Len(s \o t) /\ (s \o t)[k] = s[k]
  OBVIOUS
<1> SUFFICES ASSUME NEW k \in 1..Len(s)
             PROVE  s[k] <= n \/ \E j \in 1..(k - 1) : s[j] + 1 = s[k]
  BY DEF InOrder
<1>2. (s \o t)[k] <= n \/ \E j \in 1..(k - 1) : (s \o t)[j] + 1 = (s \o t)[k]
  BY <1>1 DEF InOrder
<1>3. \A j \in 1..(k - 1) : j \in 1..Len(s)
  OBVIOUS
<1> QED BY <1>1, <1>2, <1>3

LEMMA LeafAppended ==
  ASSUME NEW s \in Seq(Nat), NEW n \in Nat, NEW len \in Nat,
         Covers(s, n, len)
  PROVE  /\ InOrder(s, n) => InOrder(s \o <<len>>, n)
         /\ Covers(s \o <<len>>, n, len + 1)
<1> DEFINE t == s \o <<len>>
<1>1. /\ Len(s) \in Nat /\ Len(t) = Len(s) + 1
      /\ \A k \in 1..Len(s) : t[k] = s[k] /\ s[k] \in Nat
      /\ t[Len(s) + 1] = len
  OBVIOUS
<1> HIDE DEF t
<1>2. ASSUME InOrder(s, n), NEW k \in 1..Len(t)
      PROVE  t[k] <= n \/ \E j \in 1..(k - 1) : t[j] + 1 = t[k]
  <2>1. CASE k \in 1..Len(s)
    <3>1. s[k] <= n \/ \E j \in 1..(k - 1) : s[j] + 1 = s[k]
      BY <1>2, <2>1 DEF InOrder
    <3>2. \A j \in 1..(k - 1) : j \in 1..Len(s)
      BY <1>1, <2>1
    <3> QED BY <1>1, <2>1, <3>1, <3>2
  <2>2. CASE k = Len(s) + 1
    <3>1. CASE len = 0
      BY <1>1, <2>2, <3>1
    <3>2. CASE len # 0
      <4>1. len - 1 \in 0..(len - 1)
        BY <3>2
      <4>2. len - 1 < n \/ \E j \in 1..Len(s) : s[j] = len - 1
        BY <4>1 DEF Covers
      <4>3. CASE len - 1 < n
        BY <1>1, <2>2, <4>3
      <4>4. CASE \E j \in 1..Len(s) : s[j] = len - 1
        <5>1. PICK j \in 1..Len(s) : s[j] = len - 1
          BY <4>4
        <5>2. j \in 1..(k - 1) /\ t[j] + 1 = t[k]
          BY <1>1, <2>2, <5>1
        <5> QED BY <5>2
      <4> QED BY <4>2, <4>3, <4>4
    <3> QED BY <3>1, <3>2
  <2> QED BY <1>1, <2>1, <2>2
<1>3. Covers(t, n, len + 1)
  <2> SUFFICES ASSUME NEW i \in 0..((len + 1) - 1), ~(i < n)
               PROVE  \E k \in 1..Len(t) : t[k] = i
    BY DEF Covers
  <2>1. CASE i = len
    <3>1. Len(s) + 1 \in 1..Len(t)
      BY <1>1
    <3> QED BY <1>1, <2>1, <3>1
  <2>2. CASE i # len
    <3>1. i \in 0..(len - 1)
      BY <2>2
    <3>2. PICK k \in 1..Len(s) : s[k] = i
      BY <3>1 DEF Covers
    <3>3. k \in 1..Len(t)
      BY <1>1
    <3> QED BY <1>1, <3>2, <3>3
  <2> QED BY <2>1, <2>2
<1> QED BY <1>2, <1>3 DEF InOrder, t

LEMMA ConcatenatedTail ==
  ASSUME NEW s \in Seq(Nat), NEW t \in Seq(Nat)
  PROVE  \A k \in 1..Len(t) : (s \o t)[Len(s) + k] = t[k]
OBVIOUS

\* What checkChainLogs fetches: all leaves from `skip` on, before those of the callbacks.
LEMMA LogsFirst ==
  ASSUME NEW len \in Nat, NEW skip \in 0..len, NEW n \in Nat, skip <= n,
         NEW t \in Seq(Nat), \A k \in 1..Len(t) : t[k] < len
  PROVE  LET s == [k \in 1..(len - skip) |-> skip + k - 1] \o t IN
         InOrder(s, n) /\ Covers(s, n, len)
<1> DEFINE q == [k \in 1..(len - skip) |-> skip + k - 1]
           s == q \o t
<1>1. q \in Seq(Nat) /\ Len(q) = len - skip /\ \A k \in 1..Len(q) : q[k] = skip + k - 1
  OBVIOUS
<1> HIDE DEF q
<1>2. /\ s \in Seq(Nat) /\ Len(s) = Len(q) + Len(t) /\ Len(t) \in Nat
      /\ \A k \in 1..Len(q) : s[k] = q[k]
      /\ \A k \in 1..Len(t) : s[Len(q) + k] = t[k]
  <2>1. \A k \in 1..Len(t) : s[Len(q) + k] = t[k]
    BY <1>1, ConcatenatedTail
  <2>2. s \in Seq(Nat) /\ Len(s) = Len(q) + Len(t) /\ \A k \in 1..Len(q) : s[k] = q[k]
    BY <1>1, Concatenation
  <2>3. Len(t) \in Nat
    OBVIOUS
  <2> QED BY <2>1, <2>2, <2>3
<1> HIDE DEF s
<1>3. \A k \in 1..Len(s) : s[k] \in Nat /\ s[k] < len
  <2> SUFFICES ASSUME NEW k \in 1..Len(s) PROVE s[k] \in Nat /\ s[k] < len
    OBVIOUS
  <2>1. CASE k \in 1..Len(q)
    <3>1. s[k] = skip + k - 1 /\ k \in 1..(len - skip)
      BY <1>1, <1>2, <2>1
    <3> QED BY <3>1
  <2>2. CASE k \notin 1..Len(q)
    <3>1. k - Len(q) \in 1..Len(t) /\ Len(q) + (k - Len(q)) = k
      BY <1>1, <1>2, <2>2
    <3>2. s[k] = t[k - Len(q)]
      BY <1>2, <3>1
    <3> QED BY <1>2, <3>1, <3>2
  <2> QED BY <2>1, <2>2
<1>4. ASSUME NEW i \in Nat, i < len, ~(i < n)
      PROVE  (i - skip) + 1 \in 1..Len(q) /\ s[(i - skip) + 1] = i
  BY SMTT(30), <1>1, <1>2, <1>4
<1>5. Covers(s, n, len)
  <2> SUFFICES ASSUME NEW i \in 0..(len - 1), ~(i < n)
               PROVE  \E k \in 1..Len(s) : s[k] = i
    BY DEF Covers
  <2>1. (i - skip) + 1 \in 1..Len(q) /\ s[(i - skip) + 1] = i
    BY <1>4
  <2>2. (i - skip) + 1 \in 1..Len(s)
    BY <1>1, <1>2, <2>1
  <2> QED BY <2>1, <2>2
<1>6. InOrder(s, n)
  <2> SUFFICES ASSUME NEW k \in 1..Len(s), ~(s[k] <= n)
               PROVE  \E j \in 1..(k - 1) : s[j] + 1 = s[k]
    BY DEF InOrder
  <2>1. s[k] \in Nat /\ s[k] < len
    BY <1>3
  <2>2. s[k] - 1 \in Nat /\ s[k] - 1 < len /\ ~(s[k] - 1 < n)
    BY <2>1
  <2> DEFINE j == ((s[k] - 1) - skip) + 1
  <2>3. j \in 1..Len(q) /\ s[j] = s[k] - 1
    BY <1>4, <2>2
  <2>4. j < k
    <3> DEFINE x == s[k]
    <3>0. j = x - skip /\ x \in Nat /\ j \in 1..(len - skip)
      BY <1>1, <2>1, <2>3
    <3> HIDE DEF x, j
    <3>1. CASE k \in 1..Len(q)
      <4>1. x = skip + k - 1
        BY <1>1, <1>2, <3>1 DEF x
      <4> QED BY <3>0, <4>1
    <3>2. CASE k \notin 1..Len(q)
      BY <1>1, <1>2, <3>0, <3>2
    <3> QED BY <3>1, <3>2
  <2>5. j \in 1..(k - 1)
    <3> HIDE DEF j
    <3> QED BY <1>1, <2>3, <2>4
  <2> QED BY <2>1, <2>3, <2>5
<1> QED BY <1>5, <1>6 DEF s, q

---------------------------------------------------------------------------
(* Leaves and inner nodes put into the array.                              *)

\* Inner nodes of two arrays agree.
SameInner(h, old, new) ==
    \A l \in 1..h : \A i \in Columns(h, l) :
        /\ Place(h, l, i) \in DOMAIN new <=> Place(h, l, i) \in DOMAIN old
        /\ Place(h, l, i) \in DOMAIN old => new[Place(h, l, i)] = old[Place(h, l, i)]

\* A leaf that is stored already, or the one after them.
LEMMA LeafInPlace ==
  ASSUME NEW h \in Nat, NEW s \in Nat, NEW nodes, LeavesStored(h, nodes, s),
         NEW x \in 0..s, x < TwoTo[h]
  PROVE  LET new == SetNode(nodes, LeafIndexToNodeIndex(h, x), LeafNode(x)) IN
         /\ LeavesStored(h, new, IF x < s THEN s ELSE s + 1)
         /\ SameInner(h, nodes, new)
<1> DEFINE n == Place(h, 0, x)
           new == SetNode(nodes, LeafIndexToNodeIndex(h, x), LeafNode(x))
           m == IF x < s THEN s ELSE s + 1
<1>1. /\ n = LeafIndexToNodeIndex(h, x) /\ 0 \in 0..h /\ x \in Columns(h, 0)
      /\ TwoTo[h] \in Nat /\ h - 0 = h /\ m \in Nat /\ s <= m /\ x < m
      /\ \A i \in 0..(m - 1) : i = x \/ i \in 0..(s - 1)
  <2>1. TwoTo[h] \in Nat /\ h - 0 = h
    BY TwoToIsLarge
  <2>2. x \in Columns(h, 0) /\ n = LeafIndexToNodeIndex(h, x)
    BY <2>1 DEF Place, LeafIndexToNodeIndex, Columns
  <2> HIDE DEF n
  <2> QED BY <2>1, <2>2
<1> HIDE DEF m
<1>2. DOMAIN new = DOMAIN nodes \cup {n} /\ new[n] = LeafNode(x)
      /\ \A e \in DOMAIN nodes : e # n => new[e] = nodes[e]
  BY <1>1 DEF SetNode
<1> HIDE DEF new
<1>3. \A l \in 0..h : \A i \in Columns(h, l) : Place(h, l, i) = n => l = 0 /\ i = x
  <2> HIDE DEF n
  <2> SUFFICES ASSUME NEW l \in 0..h, NEW i \in Columns(h, l), Place(h, l, i) = n
               PROVE  l = 0 /\ i = x
    OBVIOUS
  <2> QED BY <1>1, PlaceDistinct DEF n
<1> HIDE DEF n
<1>4. LeavesStored(h, new, m)
  <2>1. ASSUME NEW i \in 0..(m - 1)
        PROVE  Place(h, 0, i) \in DOMAIN new /\ new[Place(h, 0, i)] = LeafNode(i)
    <3>1. CASE i = x
      BY <1>2, <3>1 DEF n
    <3>2. CASE i # x
      <4>1. i \in 0..(s - 1)
        BY <1>1, <3>2
      <4>2. Place(h, 0, i) \in DOMAIN nodes /\ nodes[Place(h, 0, i)] = LeafNode(i)
        BY <4>1 DEF LeavesStored
      <4>3. CASE Place(h, 0, i) = n
        <5>1. i \in Columns(h, 0)
          <6>1. x \in Nat /\ i \in Nat
            OBVIOUS
          <6>2. CASE i < TwoTo[h]
            BY <1>1, <6>1, <6>2 DEF Columns
          <6>3. CASE ~(i < TwoTo[h])
            <7>1. Place(h, 0, i) # Place(h, 0, x)
              BY <1>1, <3>2, <6>1 DEF Place
            <7> QED BY <4>3, <7>1 DEF n
          <6> QED BY <6>2, <6>3
        <5> QED BY <1>1, <1>3, <3>2, <4>3, <5>1
      <4>4. CASE Place(h, 0, i) # n
        BY <1>2, <4>2, <4>4
      <4> QED BY <4>3, <4>4
    <3> QED BY <3>1, <3>2
  <2>2. ASSUME NEW i \in Columns(h, 0), Place(h, 0, i) \in DOMAIN new
        PROVE  i < m
    <3>1. i \in Nat
      BY DEF Columns
    <3>2. CASE i = x
      BY <1>1, <3>2
    <3>3. CASE i # x
      <4>1. Place(h, 0, i) # n
        BY <1>1, <1>3, <3>3
      <4>2. i < s
        BY <1>2, <2>2, <4>1 DEF LeavesStored
      <4> QED BY <1>1, <3>1, <4>2
    <3> QED BY <3>2, <3>3
  <2>3. ASSUME NEW e \in DOMAIN new
        PROVE  new[e].leafIndex = NotALeaf
               \/ \E i \in 0..(m - 1) : e = Place(h, 0, i)
    <3>1. CASE e = n
      <4>1. x \in 0..(m - 1)
        BY <1>1
      <4> QED BY <3>1, <4>1 DEF n
    <3>2. CASE e # n
      <4>1. e \in DOMAIN nodes /\ new[e] = nodes[e]
        BY <1>2, <3>2
      <4>2. \A i \in 0..(s - 1) : i \in 0..(m - 1)
        BY <1>1
      <4> QED BY <4>1, <4>2 DEF LeavesStored
    <3> QED BY <3>1, <3>2
  <2> QED BY <2>1, <2>2, <2>3 DEF LeavesStored
<1>5. SameInner(h, nodes, new)
  <2> SUFFICES ASSUME NEW l \in 1..h, NEW i \in Columns(h, l)
               PROVE  /\ Place(h, l, i) \in DOMAIN new <=> Place(h, l, i) \in DOMAIN nodes
                      /\ Place(h, l, i) \in DOMAIN nodes =>
                            new[Place(h, l, i)] = nodes[Place(h, l, i)]
    BY DEF SameInner
  <2>1. l \in 0..h /\ l # 0
    OBVIOUS
  <2>2. Place(h, l, i) # n
    BY <1>3, <2>1
  <2> QED BY <1>2, <2>2
<1> QED BY <1>4, <1>5 DEF new, m

\* An inner node of a plan.
LEMMA InnerInPlace ==
  ASSUME NEW h \in Nat, NEW s \in Nat, s <= TwoTo[h], NEW nodes, LeavesStored(h, nodes, s),
         NEW w, NEW values, ReferenceWrite(w, h, values)
  PROVE  LeavesStored(h, SetNode(nodes, w.index, InnerNode(w.hash)), s)
<1> DEFINE new == SetNode(nodes, w.index, InnerNode(w.hash))
<1>1. /\ DOMAIN new = DOMAIN nodes \cup {w.index} /\ new[w.index] = InnerNode(w.hash)
      /\ \A e \in DOMAIN nodes : e # w.index => new[e] = nodes[e]
  BY DEF SetNode
<1> HIDE DEF new
<1>2. ASSUME NEW i \in Columns(h, 0) PROVE Place(h, 0, i) # w.index
  <2>1. 0 \in 0..h
    OBVIOUS
  <2> QED BY <2>1, ReferenceWriteAt
<1>3. \A i \in 0..(s - 1) : i \in Columns(h, 0)
  <2>1. TwoTo[h] \in Nat /\ h - 0 = h
    BY TwoToIsLarge
  <2> QED BY <2>1 DEF Columns
<1>4. ASSUME NEW i \in 0..(s - 1)
      PROVE  Place(h, 0, i) \in DOMAIN new /\ new[Place(h, 0, i)] = LeafNode(i)
  BY <1>1, <1>2, <1>3 DEF LeavesStored
<1>5. ASSUME NEW i \in Columns(h, 0), Place(h, 0, i) \in DOMAIN new
      PROVE  i < s
  BY <1>1, <1>2, <1>5 DEF LeavesStored
<1>6. ASSUME NEW e \in DOMAIN new
      PROVE  new[e].leafIndex = NotALeaf \/ \E i \in 0..(s - 1) : e = Place(h, 0, i)
  <2>1. CASE e = w.index
    BY <1>1, <2>1 DEF InnerNode
  <2>2. CASE e # w.index
    BY <1>1, <2>2 DEF LeavesStored
  <2> QED BY <2>1, <2>2
<1> QED BY <1>4, <1>5, <1>6 DEF LeavesStored, new

\* The index of an inner node is of the first document.
LEMMA InnerIndexSmall ==
  ASSUME NEW h \in Nat, NEW w, NEW values, ReferenceWrite(w, h, values)
  PROVE  w.index \in Nat /\ w.index < 2 * TwoTo[h] - 1
<1>0. PICK l \in 1..h : \E i \in 0..(TwoTo[h - l] - 1) : w.index = TwoTo[h - l] - 1 + i
  BY DEF ReferenceWrite
<1>1. PICK i \in 0..(TwoTo[h - l] - 1) : w.index = TwoTo[h - l] - 1 + i
  BY <1>0
<1>2. h - l \in Nat /\ h - l <= h
  OBVIOUS
<1>3. TwoTo[h - l] \in Nat /\ TwoTo[h - l] <= TwoTo[h] /\ TwoTo[h] \in Nat
  BY <1>2, TwoToMonotone, TwoToIsLarge
<1> QED BY <1>1, <1>3

---------------------------------------------------------------------------
(* Steps of the handler.                                                   *)

LEMMA FirstDocument ==
  ASSUME Serial, NEW node \in Nat, node < 2 * TwoTo[TreeHeight] - 1
  PROVE  CalculateBucket(node, BucketSize) = 0
<1>1. TwoTo[TreeHeight] \in Nat /\ BucketSize \in Nat /\ BucketSize > 0
  BY HeightAssumption, BoundsAssumption, TwoToIsLarge
<1>2. node < BucketSize
  BY <1>1 DEF Serial
<1> QED BY <1>1, <1>2, QuotientIs DEF CalculateBucket

LEMMA TheHandler ==
  ASSUME Serial, IInv, Mirror, NEW p \in Procs
  PROVE  /\ p = Only /\ proc[p] = Handler
         /\ DOMAIN Handler = DOMAIN Idle
         /\ Handler.op \in Ops /\ Handler.pc \in Pcs
         /\ Handler.pc # "idle" => phase # "down"
<1>1. p = Only /\ proc[p] = Handler
  BY OneHandler DEF Handler
<1>2. HandlerOK(Handler)
  BY PendingType
<1>3. phase = "down" => Handler.pc = "idle"
  BY DEF Mirror, ListenersSerial, Idle
<1> QED BY <1>1, <1>2, <1>3 DEF HandlerOK

LEMMA Associative ==
  ASSUME NEW a \in Seq(Nat), NEW b \in Seq(Nat), NEW c \in Seq(Nat)
  PROVE  a \o b \o c = a \o (b \o c)
BY SMTT(30), ConcatAssociative

LEMMA QueueFirst ==
  ASSUME NEW q \in Seq(Nat), NEW r \in Seq(Nat), NEW w \in Seq(Nat), q # <<>>
  PROVE  /\ q \o r \o w # <<>>
         /\ (q \o r \o w)[1] = Head(q)
         /\ Tail(q \o r \o w) = Tail(q) \o r \o w
<1>1. /\ Len(q) \in Nat \ {0} /\ Tail(q) \in Seq(Nat) /\ Len(Tail(q)) = Len(q) - 1
      /\ \A k \in 1..Len(Tail(q)) : Tail(q)[k] = q[k + 1]
  BY EmptySeq, HeadTailProperties
<1>2. ASSUME NEW u \in Seq(Nat)
      PROVE  /\ q \o u \in Seq(Nat) /\ q \o u # <<>>
             /\ (q \o u)[1] = q[1]
             /\ Tail(q \o u) = Tail(q) \o u
  <2> DEFINE s == q \o u
             t == Tail(q) \o u
  <2>1. /\ s \in Seq(Nat) /\ Len(s) = Len(q) + Len(u)
        /\ \A k \in 1..(Len(q) + Len(u)) :
              s[k] = IF k <= Len(q) THEN q[k] ELSE u[k - Len(q)]
    BY ConcatProperties
  <2>2. /\ t \in Seq(Nat) /\ Len(t) = Len(Tail(q)) + Len(u)
        /\ \A k \in 1..(Len(Tail(q)) + Len(u)) :
              t[k] = IF k <= Len(Tail(q)) THEN Tail(q)[k] ELSE u[k - Len(Tail(q))]
    BY <1>1, ConcatProperties
  <2>3. Len(u) \in Nat
    BY EmptySeq
  <2> HIDE DEF s, t
  <2>4. s # <<>> /\ s[1] = q[1]
    BY <1>1, <2>1, <2>3
  <2>5. /\ Tail(s) \in Seq(Nat) /\ Len(Tail(s)) = Len(s) - 1
        /\ \A k \in 1..Len(Tail(s)) : Tail(s)[k] = s[k + 1]
    BY <2>1, <2>4, HeadTailProperties
  <2>6. ASSUME NEW k \in 1..Len(t) PROVE Tail(s)[k] = t[k]
    <3>1. Tail(s)[k] = s[k + 1] /\ k + 1 \in 1..(Len(q) + Len(u))
      BY <1>1, <2>1, <2>2, <2>3, <2>5
    <3>2. CASE k <= Len(Tail(q))
      BY <1>1, <2>1, <2>2, <2>3, <3>1, <3>2
    <3>3. CASE ~(k <= Len(Tail(q)))
      <4>1. (k + 1) - Len(q) = k - Len(Tail(q)) /\ ~(k + 1 <= Len(q))
        BY <1>1, <3>3
      <4> QED BY <1>1, <2>1, <2>2, <2>3, <3>1, <3>3, <4>1
    <3> QED BY <3>2, <3>3
  <2>7. Len(Tail(s)) = Len(t)
    BY <1>1, <2>1, <2>2, <2>3, <2>5
  <2>8. Tail(s) = t
    BY <2>2, <2>5, <2>6, <2>7, SeqEqual
  <2> QED BY <2>1, <2>4, <2>8 DEF s, t
<1>3. r \o w \in Seq(Nat)
  BY ConcatProperties
<1>4. q \o r \o w = q \o (r \o w) /\ Tail(q) \o r \o w = Tail(q) \o (r \o w)
  BY SMTT(30), <1>1, Associative
<1>5. Head(q) = q[1]
  OBVIOUS
<1> QED BY <1>2, <1>3, <1>4, <1>5

\* A step that changes the handler only, and not what it has still to insert.
LEMMA HandlerMoves ==
  ASSUME Serial, IInv, Mirror,
         UNCHANGED <<chain, tree, listeners, wire, ready, phase, socketLosses>>,
         phase # "down", Handler.pc # "checkChainLogs",
         HandlerSerial(Handler', tree),
         \/ Handler'.op = Handler.op
         \/ Handler.op \notin Subscribing /\ Handler'.op \notin Subscribing,
         \/ Handler'.queue = Handler.queue
         \/ ~tree.exists /\ Handler'.queue = <<>>
  PROVE  Mirror' /\ Grows
<1>1. ChainSerial' /\ TreeSerial(tree', Len(chain'))
  BY DEF Mirror, ChainSerial
<1>2. ListenersSerial'
  BY DEF Mirror, ListenersSerial, Subscribing
<1>3. HandlerSerial(Handler', tree')
  OBVIOUS
<1>4. Pipeline'
  <2>1. CASE Handler'.queue = Handler.queue
    <3>1. Pending' = Pending
      BY <2>1 DEF Pending
    <3>2. Handler'.op \in {"track", "restart"} => Handler.op \in {"track", "restart"}
      BY DEF Subscribing
    <3> QED BY <2>1, <3>1, <3>2 DEF Mirror, Pipeline
  <2>2. CASE ~tree.exists /\ Handler'.queue = <<>>
    <3>1. listeners # 1
      BY <2>2 DEF Mirror, ListenersSerial
    <3> QED BY <2>2, <3>1 DEF Pipeline
  <2> QED BY <2>1, <2>2
<1>5. Grows
  BY SerialFacts DEF Grows
<1> QED BY <1>1, <1>2, <1>3, <1>4, <1>5 DEF Mirror

\* The segment of a leaf is there as long as the document is.
LEMMA FindSegmentFinds ==
  ASSUME Serial, IInv, Mirror, NEW p \in Procs, FindSegment(p), tree.exists
  PROVE  /\ Handler'.pc = "putSegment" /\ Handler'.op = Handler.op
         /\ Handler'.queue = Handler.queue
         /\ Handler'.snap = SetNode(tree.nodes,
                                    LeafIndexToNodeIndex(TreeHeight, Head(Handler.queue)),
                                    LeafNode(Head(Handler.queue)))
<1> DEFINE leaf == Head(Handler.queue)
           node == LeafIndexToNodeIndex(tree.treeHeight, leaf)
           h    == [Handler EXCEPT !.pc = "putSegment",
                                   !.snap = SetNode(tree.nodes, node, LeafNode(leaf))]
<1>1. /\ p = Only /\ proc[p] = Handler /\ DOMAIN Handler = DOMAIN Idle
      /\ Handler.pc = "findSegment"
  BY TheHandler DEF FindSegment
<1>2. Inserting(Handler, tree)
  BY <1>1 DEF Mirror, HandlerSerial
<1>3. leaf \in Nat /\ leaf < Len(chain)
  BY <1>2, PendingType DEF Inserting
<1>4. tree.treeHeight = TreeHeight
  BY DEF Mirror, TreeSerial
<1>5. node \in Nat /\ node < 2 * TwoTo[TreeHeight] - 1
  <2>1. node = leaf + TwoTo[TreeHeight] - 1
    BY <1>4 DEF LeafIndexToNodeIndex
  <2>2. /\ TwoTo[TreeHeight] \in Nat /\ Len(chain) \in Nat
        /\ Len(chain) <= TwoTo[TreeHeight]
    BY SerialFacts
  <2> HIDE DEF leaf, node
  <2> QED BY <1>3, <2>1, <2>2
<1>6. SegmentFound(node)
  BY <1>5, FirstDocument DEF SegmentFound
<1>7. proc' = [proc EXCEPT ![p] = h]
  BY ZenonT(30), <1>1, <1>6 DEF FindSegment
<1>8. Handler' = h
  BY <1>7, HandlerBecomes
<1>9. h.pc = "putSegment" /\ h.op = Handler.op /\ h.queue = Handler.queue
      /\ h.snap = SetNode(tree.nodes, LeafIndexToNodeIndex(TreeHeight, leaf), LeafNode(leaf))
  BY <1>1, <1>4 DEF Idle
<1> QED BY <1>8, <1>9

LEMMA FindSegmentSerial ==
  ASSUME Serial, IInv, Mirror, NEW p \in Procs, FindSegment(p)
  PROVE  Mirror' /\ Grows
<1>1. /\ p = Only /\ proc[p] = Handler
      /\ Handler.pc = "findSegment" /\ phase # "down"
      /\ UNCHANGED <<chain, tree, listeners, wire, ready, phase, socketLosses>>
  BY TheHandler DEF FindSegment
<1>2. Inserting(Handler, tree)
  BY <1>1 DEF Mirror, HandlerSerial
<1>3. CASE tree.exists
  <2>1. /\ Handler'.pc = "putSegment" /\ Handler'.op = Handler.op
        /\ Handler'.queue = Handler.queue
        /\ Handler'.snap = SetNode(tree.nodes,
                                   LeafIndexToNodeIndex(TreeHeight, Head(Handler.queue)),
                                   LeafNode(Head(Handler.queue)))
    BY <1>3, FindSegmentFinds
  <2>2. HandlerSerial(Handler', tree)
    BY <1>2, <1>3, <2>1 DEF HandlerSerial, Inserting
  <2> QED BY <1>1, <2>1, <2>2, HandlerMoves
<1>4. CASE ~tree.exists
  <2>1. Handler.op = "event"
    BY <1>2, <1>4 DEF Inserting
  <2>2. End(p)
    BY <1>1, <1>4 DEF FindSegment, SegmentFound
  <2>3. Handler' = Idle
    BY <2>2, HandlerEnds
  <2>4. HandlerSerial(Idle, tree) /\ Idle.op \notin Subscribing /\ Idle.queue = <<>>
    BY DEF HandlerSerial, Idle, Subscribing
  <2> QED BY <1>1, <1>4, <2>1, <2>3, <2>4, HandlerMoves DEF Subscribing
<1> QED BY <1>3, <1>4

\* The array read before is still the one of the document, and its leaf is the next one
\* or one that is there already.
LEMMA PutSegmentStores ==
  ASSUME Serial, IInv, Mirror, NEW p \in Procs, PutSegment(p)
  PROVE  LET x == Head(Handler.queue)
             n == Held(tree)
             m == IF x < n THEN n ELSE n + 1
         IN
         /\ Handler.pc = "putSegment" /\ Inserting(Handler, tree) /\ tree.exists
         /\ Handler'.pc = "putLatestLeaf" /\ Handler'.op = Handler.op
         /\ Handler'.queue = Handler.queue
         /\ tree'.exists /\ tree'.active = tree.active
         /\ tree'.treeHeight = tree.treeHeight /\ tree'.latestLeaf = tree.latestLeaf
         /\ tree'.latestRecalculation = tree.latestRecalculation
         /\ x \in Nat /\ n \in Nat /\ m \in Nat /\ x <= n /\ x < m /\ m <= Len(chain)
         /\ Handler.queue \in Seq(Nat) /\ Pending \in Seq(Nat)
         /\ Pending # <<>> /\ Pending[1] = x /\ InOrder(Pending, n)
         /\ LeavesStored(TreeHeight, tree'.nodes, m) /\ Held(tree') = m
         /\ SameInner(TreeHeight, tree.nodes, tree'.nodes)
<1> DEFINE x == Head(Handler.queue)
           h == [Handler EXCEPT !.pc = "putLatestLeaf", !.snap = <<>>]
           n == Held(tree)
           m == IF x < n THEN n ELSE n + 1
<1>1. /\ p = Only /\ proc[p] = Handler /\ DOMAIN Handler = DOMAIN Idle
      /\ Handler.pc = "putSegment"
  BY TheHandler DEF PutSegment
<1>2. /\ Inserting(Handler, tree) /\ tree.exists
      /\ Handler.snap = SetNode(tree.nodes, LeafIndexToNodeIndex(TreeHeight, x), LeafNode(x))
  BY <1>1 DEF Mirror, HandlerSerial
<1>3. /\ Handler.queue \in Seq(Nat) /\ ready \in Seq(Nat) /\ wire \in Seq(Nat)
      /\ Handler.queue # <<>> /\ Pending \in Seq(Nat)
      /\ x \in Nat /\ x < Len(chain)
  BY <1>2, PendingType DEF Inserting
<1>4. Pending # <<>> /\ Pending[1] = x
  BY <1>3, QueueFirst DEF Pending
<1>5. InOrder(Pending, n)
  BY <1>1, <1>2 DEF Mirror, Pipeline
<1>6. x <= n
  <2>1. 1 \in 1..Len(Pending)
    BY <1>3, <1>4
  <2>2. Pending[1] <= n \/ \E j \in 1..(1 - 1) : Pending[j] + 1 = Pending[1]
    BY <1>5, <2>1 DEF InOrder
  <2> QED BY <1>4, <2>2
<1>7. Handler' = h /\ tree' = [tree EXCEPT !.nodes = Handler.snap]
  <2>1. proc' = [proc EXCEPT ![p] = h]
    BY <1>1 DEF PutSegment
  <2> HIDE DEF h
  <2> QED BY <1>1, <1>2, <2>1, HandlerBecomes DEF PutSegment
<1>8. h.pc = "putLatestLeaf" /\ h.op = Handler.op /\ h.queue = Handler.queue
  BY <1>1 DEF Idle
<1>9. /\ tree'.nodes = Handler.snap /\ tree'.exists /\ tree'.active = tree.active
      /\ tree'.treeHeight = tree.treeHeight /\ tree'.latestLeaf = tree.latestLeaf
      /\ tree'.latestRecalculation = tree.latestRecalculation
  BY <1>2, <1>7 DEF IInv, TreeOK, NoTree, EmptyTree
<1> HIDE DEF h
<1>10. /\ n \in Nat /\ m \in Nat /\ n <= m /\ x < m /\ m <= Len(chain)
       /\ m \in 0..TwoTo[TreeHeight] /\ x \in 0..n /\ x < TwoTo[TreeHeight]
  <2>1. n \in Nat /\ n <= Len(chain) /\ Len(chain) \in Nat
        /\ Len(chain) <= TwoTo[TreeHeight] /\ TwoTo[TreeHeight] \in Nat
    BY SerialFacts
  <2> HIDE DEF n, x
  <2> QED BY <1>3, <1>6, <2>1
<1>11. /\ LeavesStored(TreeHeight, tree'.nodes, m)
       /\ SameInner(TreeHeight, tree.nodes, tree'.nodes)
  <2>1. LeavesStored(TreeHeight, tree.nodes, n) /\ TreeHeight \in Nat
    BY SerialFacts DEF Mirror, TreeSerial
  <2> HIDE DEF n, x, m
  <2> QED BY <1>2, <1>9, <1>10, <2>1, LeafInPlace DEF m
<1>12. Held(tree') = m
  BY <1>10, <1>11, HeldIs
<1> HIDE DEF m, n, x
<1> QED BY <1>1, <1>2, <1>3, <1>4, <1>5, <1>6, <1>7, <1>8, <1>9, <1>10, <1>11, <1>12
        DEF m, n, x

LEMMA PutSegmentSerial ==
  ASSUME Serial, IInv, Mirror, NEW p \in Procs, PutSegment(p)
  PROVE  Mirror' /\ Grows
<1> DEFINE x == Head(Handler.queue)
           n == Held(tree)
           m == IF x < n THEN n ELSE n + 1
<1>1. /\ phase # "down" /\ UNCHANGED <<chain, listeners, wire, ready, phase, socketLosses>>
  BY TheHandler DEF PutSegment
<1>2. /\ Handler.pc = "putSegment" /\ Inserting(Handler, tree) /\ tree.exists
      /\ Handler'.pc = "putLatestLeaf" /\ Handler'.op = Handler.op
      /\ Handler'.queue = Handler.queue
      /\ tree'.exists /\ tree'.active = tree.active
      /\ tree'.treeHeight = tree.treeHeight /\ tree'.latestLeaf = tree.latestLeaf
      /\ tree'.latestRecalculation = tree.latestRecalculation
      /\ n \in Nat /\ m \in Nat /\ n <= m /\ x < m /\ m <= Len(chain)
      /\ Pending \in Seq(Nat) /\ InOrder(Pending, n)
      /\ LeavesStored(TreeHeight, tree'.nodes, m) /\ Held(tree') = m
  BY PutSegmentStores
<1> HIDE DEF m, x
<1>3. TreeSerial(tree', Len(chain'))
  <2>1. LatestLeaf(tree') = LatestLeaf(tree) /\ Recalculated(tree') = Recalculated(tree)
    BY <1>2 DEF LatestLeaf, Recalculated
  <2>2. LatestLeaf(tree) < m /\ Recalculated(tree) < m
    BY <1>2, SerialFacts DEF Mirror, TreeSerial
  <2>3. m \in 0..Len(chain)
    BY <1>2, SerialFacts
  <2> QED BY <1>1, <1>2, <2>1, <2>2, <2>3 DEF Mirror, TreeSerial
<1>4. HandlerSerial(Handler', tree')
  BY <1>2 DEF HandlerSerial, Inserting, x
<1>5. ListenersSerial'
  BY <1>1, <1>2 DEF Mirror, ListenersSerial
<1>6. Pipeline'
  <2>1. Pending' = Pending
    BY <1>1, <1>2 DEF Pending
  <2>2. InOrder(Pending, m) /\ (Covers(Pending, n, Len(chain)) => Covers(Pending, m, Len(chain)))
    BY <1>2, MoreHeld, SerialFacts
  <2> HIDE DEF n
  <2> QED BY <1>1, <1>2, <2>1, <2>2 DEF Mirror, Pipeline, n
<1>7. ChainSerial'
  BY <1>1 DEF Mirror, ChainSerial
<1>8. Grows
  BY <1>2, SerialFacts DEF Grows, Recalculated
<1> QED BY <1>3, <1>4, <1>5, <1>6, <1>7, <1>8 DEF Mirror

\* The loop goes on with `rest`, or ends; track and restart then subscribe.
LEMMA InsertRestSerial ==
  ASSUME Serial, IInv, Mirror, NEW p \in Procs, NEW rest \in Seq(Nat), InsertRest(p, rest),
         UNCHANGED <<chain, wire, ready, socketLosses>>, phase # "down",
         Handler.op \in {"event", "track", "restart"},
         Handler.op # "event" => tree.active,
         tree.exists, tree'.exists, tree'.active = tree.active,
         TreeSerial(tree', Len(chain)), Held(tree') = Held(tree),
         Recalculated(tree) <= Recalculated(tree'),
         InOrder(rest \o ready \o wire, Held(tree)),
         (listeners = 1 \/ Handler.op \in {"track", "restart"})
            => Covers(rest \o ready \o wire, Held(tree), Len(chain))
  PROVE  Mirror' /\ Grows
<1>1. p = Only /\ proc[p] = Handler
  BY TheHandler
<1>2. Handler.op \in {"track", "restart"} => listeners = 0 /\ wire = <<>>
  BY DEF Mirror, ListenersSerial, Subscribing
<1>3. ChainSerial' /\ Grows
  BY SerialFacts DEF Mirror, ChainSerial, Grows
<1>4. CASE rest = <<>>
  <2>1. LoopDone(p)
    BY <1>4 DEF InsertRest
  <2>2. CASE Handler.op \in {"track", "restart"}
    <3>1. Subscribe(p)
      BY <1>1, <2>1, <2>2 DEF LoopDone
    <3>2. Handler' = Idle /\ listeners' = 1 /\ phase' = "serving"
      BY <1>2, <2>2, <3>1, HandlerEnds DEF Subscribe, Serial
    <3>3. HandlerSerial(Handler', tree')
      BY <3>2 DEF HandlerSerial, Idle
    <3>4. ListenersSerial'
      BY <1>2, <2>2, <3>2 DEF ListenersSerial, Idle, Subscribing
    <3>5. Pending' = rest \o ready \o wire
      BY <1>4, <3>2 DEF Pending, Idle
    <3>6. Pipeline'
      BY <2>2, <3>2, <3>5 DEF Pipeline
    <3> QED BY <1>3, <3>3, <3>4, <3>6 DEF Mirror
  <2>3. CASE Handler.op \notin {"track", "restart"}
    <3>1. End(p) /\ UNCHANGED <<listeners, phase>>
      BY <1>1, <2>1, <2>3 DEF LoopDone
    <3>2. Handler' = Idle
      BY <3>1, HandlerEnds
    <3>3. HandlerSerial(Handler', tree')
      BY <3>2 DEF HandlerSerial, Idle
    <3>4. ListenersSerial'
      BY <2>3, <3>1, <3>2 DEF Mirror, ListenersSerial, Idle, Subscribing
    <3>5. Pending' = rest \o ready \o wire
      BY <1>4, <3>2 DEF Pending, Idle
    <3>6. Pipeline'
      BY <3>1, <3>2, <3>5 DEF Pipeline, Idle
    <3> QED BY <1>3, <3>3, <3>4, <3>6 DEF Mirror
  <2> QED BY <2>2, <2>3
<1>5. CASE rest # <<>>
  <2> DEFINE h == [Idle EXCEPT !.op = Handler.op, !.pc = "findSegment", !.queue = rest]
  <2>1. proc' = [proc EXCEPT ![p] = h] /\ UNCHANGED <<listeners, phase>>
    BY <1>1, <1>5 DEF InsertRest
  <2>2. h.op = Handler.op /\ h.pc = "findSegment" /\ h.queue = rest
    BY DEF Idle
  <2> HIDE DEF h
  <2>3. Handler' = h
    BY <2>1, HandlerBecomes
  <2>4. HandlerSerial(Handler', tree')
    BY <1>5, <2>2, <2>3 DEF HandlerSerial, Inserting
  <2>5. ListenersSerial'
    BY <2>1, <2>2, <2>3 DEF Mirror, ListenersSerial
  <2>6. Pending' = rest \o ready \o wire
    BY <2>2, <2>3 DEF Pending
  <2>7. Pipeline'
    BY <2>1, <2>2, <2>3, <2>6 DEF Pipeline
  <2> QED BY <1>3, <2>4, <2>5, <2>7 DEF Mirror
<1> QED BY <1>4, <1>5

LEMMA PutLatestLeafSerial ==
  ASSUME Serial, IInv, Mirror, NEW p \in Procs, PutLatestLeaf(p)
  PROVE  Mirror' /\ Grows
<1> DEFINE x == Head(Handler.queue)
           rest == Tail(Handler.queue)
           n == Held(tree)
<1>1. /\ p = Only /\ proc[p] = Handler
      /\ Handler.pc = "putLatestLeaf" /\ phase # "down"
      /\ UNCHANGED <<chain, wire, ready, socketLosses>>
  BY TheHandler DEF PutLatestLeaf
<1>2. Inserting(Handler, tree) /\ tree.exists /\ x < n
  BY <1>1 DEF Mirror, HandlerSerial
<1>3. /\ Handler.queue \in Seq(Nat) /\ ready \in Seq(Nat) /\ wire \in Seq(Nat)
      /\ Handler.queue # <<>> /\ Pending \in Seq(Nat)
      /\ x \in Nat /\ rest \in Seq(Nat)
  BY <1>2, PendingType DEF Inserting
<1>4. Pending # <<>> /\ Pending[1] = x /\ Tail(Pending) = rest \o ready \o wire
  <2> DEFINE q == Handler.queue
  <2>1. q \in Seq(Nat) /\ q # <<>> /\ ready \in Seq(Nat) /\ wire \in Seq(Nat)
    BY <1>3
  <2> HIDE DEF q
  <2>2. /\ q \o ready \o wire # <<>>
        /\ (q \o ready \o wire)[1] = Head(q)
        /\ Tail(q \o ready \o wire) = Tail(q) \o ready \o wire
    BY SMTT(30), <2>1, QueueFirst
  <2> QED BY <2>2, Zenon DEF Pending, q
<1>5. n \in Nat /\ Len(chain) \in Nat
  BY SerialFacts
<1>6. InOrder(rest \o ready \o wire, n)
  <2>1. InOrder(Pending, n)
    BY <1>1, <1>2 DEF Mirror, Pipeline
  <2> HIDE DEF x, n, rest
  <2> QED BY <1>2, <1>3, <1>4, <1>5, <2>1, InOrderTail
<1>7. (listeners = 1 \/ Handler.op \in {"track", "restart"})
         => Covers(rest \o ready \o wire, n, Len(chain))
  <2>1. (listeners = 1 \/ Handler.op \in {"track", "restart"})
           => Covers(Pending, n, Len(chain))
    BY <1>3 DEF Mirror, Pipeline
  <2> HIDE DEF x, n, rest
  <2> QED BY <1>2, <1>3, <1>4, <1>5, <2>1, CoversTail
<1>8. tree' = [tree EXCEPT !.latestLeaf = LeafLog(x)] /\ InsertRest(p, rest)
  BY <1>1, <1>2 DEF PutLatestLeaf
<1>9. /\ tree'.nodes = tree.nodes /\ tree'.exists /\ tree'.active = tree.active
      /\ tree'.treeHeight = tree.treeHeight /\ tree'.latestLeaf.leafIndex = x
      /\ tree'.latestRecalculation = tree.latestRecalculation
  BY <1>2, <1>8 DEF IInv, TreeOK, NoTree, EmptyTree, LeafLog
<1>10. Held(tree') = Held(tree)
  BY <1>9 DEF Held
<1>11. TreeSerial(tree', Len(chain)) /\ Recalculated(tree') = Recalculated(tree)
  BY <1>2, <1>9, <1>10 DEF Mirror, TreeSerial, LatestLeaf, Recalculated
<1>12. Handler.op \in {"event", "track", "restart"} /\ (Handler.op # "event" => tree.active)
  BY <1>2 DEF Inserting
<1> HIDE DEF x, rest
<1>13. Recalculated(tree) <= Recalculated(tree')
  BY <1>11, SerialFacts
<1> QED BY <1>1, <1>2, <1>3, <1>6, <1>7, <1>8, <1>9, <1>10, <1>11, <1>12, <1>13, InsertRestSerial

\* Blocks are numbered like the leaves, so the logs after block `from` are the leaves from
\* `from` on.
LEMMA LogsRead ==
  ASSUME Serial, IInv, Mirror, NEW p \in Procs, CheckChainLogs(p)
  PROVE  /\ p = Only /\ proc[p] = Handler
         /\ Handler.pc = "checkChainLogs" /\ phase # "down"
         /\ Handler.op \in {"track", "restart"} /\ Handler.queue = <<>>
         /\ tree.exists /\ tree.active
         /\ Handler.from \in 0..Held(tree)
         /\ InsertRest(p, [k \in 1..(Len(chain) - Handler.from) |-> Handler.from + k - 1])
<1> DEFINE n == Held(tree)
           len == Len(chain)
           from == Handler.from
           block == IF from = 0 THEN 0 ELSE from + 1
           rest(k) == [i \in 1..(len - k) |-> k + i - 1]
<1>1. /\ p = Only /\ proc[p] = Handler
      /\ Handler.pc = "checkChainLogs" /\ phase # "down"
  BY TheHandler DEF CheckChainLogs
<1>2. /\ Handler.op \in {"track", "restart"} /\ tree.exists /\ tree.active /\ from \in 0..n
      /\ Handler.queue = <<>>
  BY <1>1 DEF Mirror, HandlerSerial
<1>3. n \in Nat /\ len \in Nat /\ n <= len
  BY SerialFacts
<1>4. PICK skip \in 0..len :
        /\ \A i \in 0..(len - 1) : i < skip <=> chain[i + 1] < block
        /\ InsertRest(p, rest(skip))
  BY <1>1 DEF CheckChainLogs
<1>5. \A i \in 0..(len - 1) : chain[i + 1] = i + 1
  BY <1>3 DEF Mirror, ChainSerial
<1> HIDE DEF n, len, from
<1>6. skip = from
  <2>1. ~(skip > from)
    <3>1. SUFFICES ASSUME skip > from PROVE FALSE
      OBVIOUS
    <3>2. from \in 0..(len - 1)
      BY <1>2, <1>3, <3>1
    <3>3. from < skip => from + 1 < block
      BY <1>4, <1>5, <3>2
    <3> QED BY <1>2, <1>3, <3>1, <3>3
  <2>2. ~(skip < from)
    <3>1. SUFFICES ASSUME skip < from PROVE FALSE
      OBVIOUS
    <3>2. from - 1 \in 0..(len - 1) /\ (from - 1) + 1 = from /\ from # 0
      BY <1>2, <1>3, <3>1
    <3>3. from < block => from - 1 < skip
      BY <1>4, <1>5, <3>2
    <3> QED BY <1>2, <1>3, <3>1, <3>2, <3>3
  <2> QED BY <1>2, <1>3, <2>1, <2>2
<1> QED BY <1>1, <1>2, <1>4, <1>6 DEF n, len, from

LEMMA CheckChainLogsSerial ==
  ASSUME Serial, IInv, Mirror, NEW p \in Procs, CheckChainLogs(p)
  PROVE  Mirror' /\ Grows
<1> DEFINE n == Held(tree)
           len == Len(chain)
           skip == Handler.from
           rest(k) == [i \in 1..(len - k) |-> k + i - 1]
<1>1. /\ p = Only /\ proc[p] = Handler
      /\ Handler.pc = "checkChainLogs" /\ phase # "down"
      /\ UNCHANGED <<chain, tree, wire, ready, socketLosses>>
  BY TheHandler DEF CheckChainLogs
<1>2. /\ Handler.op \in {"track", "restart"} /\ tree.exists /\ tree.active /\ skip \in 0..n
      /\ InsertRest(p, rest(skip))
  BY LogsRead
<1>3. n \in Nat /\ len \in Nat /\ n <= len
  BY SerialFacts
<1> HIDE DEF n, len, skip
<1>7. skip <= n /\ skip \in Nat /\ skip \in 0..len
  BY <1>2, <1>3
<1>8. /\ ready \in Seq(Nat) /\ wire \in Seq(Nat) /\ ready \o wire \in Seq(Nat)
      /\ \A k \in 1..Len(ready) : ready[k] < len
      /\ \A k \in 1..Len(wire) : wire[k] < len
  BY PendingType, ConcatProperties DEF len
<1>9. \A k \in 1..Len(ready \o wire) : (ready \o wire)[k] < len
  <2>1. /\ Len(ready \o wire) = Len(ready) + Len(wire)
        /\ \A k \in 1..(Len(ready) + Len(wire)) :
              (ready \o wire)[k] = IF k <= Len(ready) THEN ready[k] ELSE wire[k - Len(ready)]
    BY <1>8, ConcatProperties
  <2>2. Len(ready) \in Nat /\ Len(wire) \in Nat
    BY <1>8
  <2> SUFFICES ASSUME NEW k \in 1..Len(ready \o wire) PROVE (ready \o wire)[k] < len
    OBVIOUS
  <2>3. CASE k <= Len(ready)
    BY <1>8, <2>1, <2>2, <2>3
  <2>4. CASE ~(k <= Len(ready))
    <3>1. k - Len(ready) \in 1..Len(wire)
      BY <2>1, <2>2, <2>4
    <3> QED BY <1>8, <2>1, <2>2, <2>4, <3>1
  <2> QED BY <2>3, <2>4
<1>10. rest(skip) \in Seq(Nat)
  BY <1>3, <1>7
<1>11. /\ InOrder(rest(skip) \o (ready \o wire), n)
       /\ Covers(rest(skip) \o (ready \o wire), n, len)
  BY <1>3, <1>7, <1>8, <1>9, LogsFirst
<1> HIDE DEF rest
<1>12. rest(skip) \o ready \o wire = rest(skip) \o (ready \o wire)
  BY <1>8, <1>10, Associative
<1>13. TreeSerial(tree', Len(chain)) /\ Held(tree') = Held(tree)
       /\ Recalculated(tree) <= Recalculated(tree')
  <2>1. tree' = tree
    BY <1>1
  <2> QED BY <2>1, SerialFacts DEF Mirror
<1> QED BY <1>1, <1>2, <1>10, <1>11, <1>12, <1>13, InsertRestSerial DEF n, len

\* A scheduled callback takes its leaf with it.
LEMMA StartCallbackTakes ==
  ASSUME Serial, IInv, Mirror, NEW p \in Procs, StartCallback(p)
  PROVE  /\ Handler = Idle /\ phase # "down"
         /\ Handler'.op = "event" /\ Handler'.pc = "findSegment"
         /\ Handler'.queue # <<>>
         /\ Pending' = Pending /\ Pending # <<>>
<1> DEFINE h == [Idle EXCEPT !.op = "event", !.pc = "findSegment", !.queue = <<Head(ready)>>]
<1>1. /\ ready # <<>> /\ ready' = Tail(ready) /\ Handler = Idle /\ wire' = wire
      /\ proc' = [proc EXCEPT ![p] = h]
  BY TheHandler DEF StartCallback
<1>2. h.op = "event" /\ h.pc = "findSegment" /\ h.queue = <<Head(ready)>>
  BY DEF Idle
<1> HIDE DEF h
<1>3. Handler' = h
  BY <1>1, HandlerBecomes
<1>4. ready \in Seq(Nat) /\ wire \in Seq(Nat) /\ Head(ready) \in Nat
      /\ <<Head(ready)>> \in Seq(Nat) /\ Tail(ready) \in Seq(Nat)
  BY <1>1, PendingType
<1>5. Pending' = Pending
  <2>1. Idle.queue \o ready = ready
    BY <1>4, ConcatEmptySeq DEF Idle
  <2>2. <<Head(ready)>> \o Tail(ready) = ready
    BY <1>1, <1>4
  <2> QED BY <1>1, <1>2, <1>3, <2>1, <2>2 DEF Pending
<1>6. Pending' # <<>>
  <2>1. <<Head(ready)>> \o Tail(ready) \o wire # <<>>
    BY <1>4, QueueFirst
  <2> QED BY <1>1, <1>2, <1>3, <2>1 DEF Pending
<1>7. phase # "down"
  BY <1>1 DEF Mirror, ListenersSerial
<1>8. Handler'.queue # <<>> /\ Pending # <<>>
  BY <1>2, <1>3, <1>5, <1>6
<1> QED BY <1>1, <1>2, <1>3, <1>5, <1>7, <1>8

LEMMA StartCallbackSerial ==
  ASSUME Serial, IInv, Mirror, NEW p \in Procs, StartCallback(p)
  PROVE  Mirror' /\ Grows
<1>1. UNCHANGED <<chain, tree, listeners, wire, phase, socketLosses>>
  BY DEF StartCallback
<1>2. /\ Handler = Idle /\ phase # "down"
      /\ Handler'.op = "event" /\ Handler'.pc = "findSegment" /\ Handler'.queue # <<>>
      /\ Pending' = Pending
  BY StartCallbackTakes
<1>3. ChainSerial' /\ TreeSerial(tree', Len(chain')) /\ Grows
  BY <1>1, SerialFacts DEF Mirror, ChainSerial, Grows
<1>4. HandlerSerial(Handler', tree')
  BY <1>2 DEF HandlerSerial, Inserting
<1>5. ListenersSerial'
  BY <1>1, <1>2 DEF Mirror, ListenersSerial, Subscribing, Idle
<1>6. Pipeline'
  BY <1>1, <1>2 DEF Mirror, Pipeline, Idle
<1> QED BY <1>3, <1>4, <1>5, <1>6 DEF Mirror

\* With one listener, a notification becomes one callback, after those scheduled before.
LEMMA DeliverEventKeeps ==
  ASSUME Serial, IInv, Mirror, DeliverEvent
  PROVE  /\ listeners = 1 /\ phase = "serving" /\ Handler' = Handler
         /\ UNCHANGED <<chain, tree, listeners, proc, phase, socketLosses>>
         /\ Pending' = Pending /\ wire # <<>>
<1>1. /\ wire # <<>> /\ wire' = Tail(wire)
      /\ ready' = ready \o [k \in 1..listeners |-> Head(wire)]
      /\ UNCHANGED <<chain, tree, listeners, proc, phase, socketLosses>>
  BY DEF DeliverEvent
<1>2. listeners = 1 /\ phase = "serving"
  BY <1>1 DEF Mirror, ListenersSerial
<1>3. [k \in 1..listeners |-> Head(wire)] = <<Head(wire)>>
  BY <1>2
<1>4. Handler' = Handler
  BY <1>1 DEF Handler
<1>5. Handler.queue \in Seq(Nat) /\ ready \in Seq(Nat) /\ wire \in Seq(Nat)
  BY PendingType
<1>6. Pending' = Pending
  <2> DEFINE q == Handler.queue
             a == <<Head(wire)>>
             w == Tail(wire)
  <2>1. a \in Seq(Nat) /\ w \in Seq(Nat) /\ a \o w = wire
    BY <1>1, <1>5
  <2>2. Pending' = q \o (ready \o a) \o w
    BY <1>1, <1>3, <1>4 DEF Pending
  <2>3. q \in Seq(Nat) /\ q \o ready \in Seq(Nat)
    BY <1>5, ConcatProperties
  <2> HIDE DEF q, a, w
  <2>4. q \o (ready \o a) = q \o ready \o a
    <3>1. ready \in Seq(Nat)
      BY <1>5
    <3> QED BY SMTT(30), <2>1, <2>3, <3>1, Associative
  <2>5. q \o ready \o a \o w = q \o ready \o (a \o w)
    BY <2>1, <2>3, Associative
  <2> QED BY <2>1, <2>2, <2>4, <2>5 DEF Pending, q
<1> QED BY <1>1, <1>2, <1>4, <1>6

LEMMA DeliverEventSerial ==
  ASSUME Serial, IInv, Mirror, DeliverEvent
  PROVE  Mirror' /\ Grows
<1>1. /\ listeners = 1 /\ phase = "serving" /\ Handler' = Handler
      /\ UNCHANGED <<chain, tree, listeners, proc, phase, socketLosses>>
      /\ Pending' = Pending
  BY DeliverEventKeeps
<1>2. ChainSerial' /\ TreeSerial(tree', Len(chain')) /\ Grows
  BY <1>1, SerialFacts DEF Mirror, ChainSerial, Grows
<1>3. HandlerSerial(Handler', tree')
  BY <1>1 DEF Mirror
<1>4. ListenersSerial'
  BY <1>1 DEF Mirror, ListenersSerial
<1>5. Pipeline'
  BY <1>1 DEF Mirror, Pipeline
<1> QED BY <1>2, <1>3, <1>4, <1>5 DEF Mirror

LEMMA TrackFindSerial ==
  ASSUME Serial, IInv, Mirror, NEW p \in Procs, TrackFind(p)
  PROVE  Mirror' /\ Grows
<1> DEFINE h == [Idle EXCEPT !.op = "track", !.pc = "trackUpsert"]
<1>1. /\ phase = "serving" /\ Handler = Idle /\ ~(tree.exists /\ tree.active)
      /\ UNCHANGED <<chain, tree, listeners, wire, ready, phase, socketLosses>>
      /\ proc' = [proc EXCEPT ![p] = h]
  BY TheHandler DEF TrackFind, Request
<1>2. h.op = "track" /\ h.pc = "trackUpsert" /\ h.queue = <<>> /\ h.from = 0
  BY DEF Idle
<1> HIDE DEF h
<1>3. Handler' = h
  BY <1>1, HandlerBecomes
<1>4. Pending' = Pending
  BY <1>1, <1>2, <1>3 DEF Pending, Idle
<1>5. ChainSerial' /\ TreeSerial(tree', Len(chain')) /\ Grows
  BY <1>1, SerialFacts DEF Mirror, ChainSerial, Grows
<1>6. HandlerSerial(Handler', tree')
  BY <1>2, <1>3 DEF HandlerSerial
<1>7. ListenersSerial'
  BY <1>1, <1>2, <1>3 DEF Mirror, ListenersSerial, Subscribing, Idle
<1>8. Pipeline'
  BY <1>1, <1>2, <1>3, <1>4 DEF Mirror, Pipeline, Idle
<1> QED BY <1>5, <1>6, <1>7, <1>8 DEF Mirror

LEMMA TrackUpsertSerial ==
  ASSUME Serial, IInv, Mirror, NEW p \in Procs, TrackUpsert(p)
  PROVE  Mirror' /\ Grows
<1> DEFINE h == [Handler EXCEPT !.pc = "checkChainLogs"]
           t == IF tree.exists THEN tree ELSE EmptyTree
<1>1. /\ Handler.pc = "trackUpsert" /\ phase # "down" /\ DOMAIN Handler = DOMAIN Idle
      /\ UNCHANGED <<chain, listeners, wire, ready, phase, socketLosses>>
      /\ proc' = [proc EXCEPT ![p] = h]
      /\ tree' = [t EXCEPT !.treeHeight = TreeHeight, !.active = TRUE]
  BY TheHandler DEF TrackUpsert
<1>2. Handler.op = "track" /\ Handler.queue = <<>> /\ Handler.from = 0
  BY <1>1 DEF Mirror, HandlerSerial
<1>3. h.op = "track" /\ h.pc = "checkChainLogs" /\ h.queue = <<>> /\ h.from = 0
  BY <1>1, <1>2 DEF Idle
<1> HIDE DEF h
<1>4. Handler' = h
  BY <1>1, HandlerBecomes
<1>5. /\ t.exists /\ t.nodes = tree.nodes /\ t.latestLeaf = tree.latestLeaf
      /\ t.latestRecalculation = tree.latestRecalculation
      /\ DOMAIN t = DOMAIN NoTree
  <2>1. CASE tree.exists
    BY <2>1 DEF IInv, TreeOK
  <2>2. CASE ~tree.exists
    <3>1. tree = NoTree
      BY <2>2 DEF Mirror, TreeSerial
    <3> QED BY <2>2, <3>1 DEF NoTree, EmptyTree
  <2> QED BY <2>1, <2>2
<1> HIDE DEF t
<1>6. /\ tree'.exists /\ tree'.active /\ tree'.treeHeight = TreeHeight
      /\ tree'.nodes = tree.nodes /\ tree'.latestLeaf = tree.latestLeaf
      /\ tree'.latestRecalculation = tree.latestRecalculation
  BY <1>1, <1>5 DEF NoTree, EmptyTree
<1>7. /\ Held(tree') = Held(tree) /\ LatestLeaf(tree') = LatestLeaf(tree)
      /\ Recalculated(tree') = Recalculated(tree)
  BY <1>6 DEF Held, LatestLeaf, Recalculated
<1>8. ChainSerial' /\ TreeSerial(tree', Len(chain'))
  BY <1>1, <1>6, <1>7 DEF Mirror, ChainSerial, TreeSerial
<1>9. HandlerSerial(Handler', tree')
  BY <1>3, <1>4, <1>6, <1>7, SerialFacts DEF HandlerSerial
<1>10. listeners = 0 /\ wire = <<>>
  BY <1>2 DEF Mirror, ListenersSerial, Subscribing
<1>11. ListenersSerial'
  BY <1>1, <1>2, <1>3, <1>4, <1>10 DEF Mirror, ListenersSerial, Subscribing
<1>12. Pipeline'
  BY <1>1, <1>3, <1>4, <1>10 DEF Pipeline
<1>13. Grows
  BY <1>7, SerialFacts DEF Grows
<1> QED BY <1>8, <1>9, <1>11, <1>12, <1>13 DEF Mirror

\* A document that is not there holds nothing, and is right about it.
LEMMA NothingHeld ==
  ASSUME NEW len \in Nat
  PROVE  TreeSerial(NoTree, len) /\ Held(NoTree) = 0
<1> DEFINE h == TreeHeight
<1>1. h \in Nat /\ TwoTo[h] \in Nat
  BY HeightAssumption, TwoToIsLarge
<1>2. /\ ~NoTree.exists /\ NoTree.nodes = <<>>
      /\ LatestLeaf(NoTree) = -1 /\ Recalculated(NoTree) = -1
      /\ NoTree.latestRecalculation = NoRecalculation
  BY DEF NoTree, EmptyTree, LatestLeaf, Recalculated, NoLeaf, NoRecalculation
<1>3. LeavesStored(h, NoTree.nodes, 0)
  <2>1. DOMAIN NoTree.nodes = {}
    BY <1>2
  <2> QED BY <2>1 DEF LeavesStored
<1>4. Held(NoTree) = 0
  BY <1>1, <1>3, HeldIs
<1>5. FrontierOf(h, Commitments(0), 0, NoRecalculation.frontier)
  <2>1. ASSUME NEW l \in 0..(h - 1) PROVE RightShift(0, l) = 0
    <3>1. l \in Nat /\ TwoTo[l] \in Nat \ {0}
      BY <1>1, TwoToIsLarge
    <3> QED BY <3>1, QuotientIs DEF RightShift
  <2> QED BY <2>1 DEF FrontierOf
<1> QED BY <1>2, <1>3, <1>4, <1>5 DEF TreeSerial, RecalculationOf

LEMMA UntrackFindSerial ==
  ASSUME Serial, IInv, Mirror, NEW p \in Procs, NEW kind, UntrackFind(p, kind)
  PROVE  Mirror' /\ Grows
<1> DEFINE h == [Idle EXCEPT !.op = kind, !.pc = "untrackWrite"]
<1>1. /\ phase = "serving" /\ Handler = Idle /\ tree.exists
      /\ kind \in {"untrack", "prune"}
      /\ UNCHANGED <<chain, tree, ready, phase, socketLosses>>
      /\ listeners' = 0 /\ wire' = <<>>
      /\ proc' = [proc EXCEPT ![p] = h]
  BY TheHandler DEF UntrackFind, Request
<1>2. h.op = kind /\ h.pc = "untrackWrite" /\ h.queue = <<>>
  BY DEF Idle
<1> HIDE DEF h
<1>3. Handler' = h
  BY <1>1, HandlerBecomes
<1>4. ready \in Seq(Nat) /\ wire \in Seq(Nat) /\ Idle.queue = <<>>
  BY PendingType DEF Idle
<1>5. Pending = ready \o wire /\ Pending' = ready
  <2>1. <<>> \o ready = ready /\ ready \o <<>> = ready
    BY <1>4, ConcatEmptySeq
  <2> QED BY <1>1, <1>2, <1>3, <1>4, <2>1 DEF Pending
<1>6. ChainSerial' /\ TreeSerial(tree', Len(chain')) /\ Grows
  BY <1>1, SerialFacts DEF Mirror, ChainSerial, Grows
<1>7. HandlerSerial(Handler', tree')
  BY <1>1, <1>2, <1>3 DEF HandlerSerial
<1>8. ListenersSerial'
  BY <1>1, <1>2, <1>3 DEF Mirror, ListenersSerial, Subscribing, Idle
<1>9. InOrder(ready, Held(tree))
  <2>1. InOrder(ready \o wire, Held(tree))
    BY <1>1, <1>5 DEF Mirror, Pipeline, Idle
  <2> QED BY <1>4, <2>1, InOrderPrefix, SerialFacts
<1>10. Pipeline'
  BY <1>1, <1>2, <1>3, <1>5, <1>9 DEF Pipeline
<1> QED BY <1>6, <1>7, <1>8, <1>10 DEF Mirror

LEMMA UntrackWriteSerial ==
  ASSUME Serial, IInv, Mirror, NEW p \in Procs, UntrackWrite(p)
  PROVE  Mirror' /\ Grows
<1>1. /\ Handler.pc = "untrackWrite" /\ phase # "down" /\ proc[p] = Handler
      /\ UNCHANGED <<chain, listeners, wire, ready, phase, socketLosses>>
      /\ End(p)
  BY TheHandler DEF UntrackWrite
<1>2. Handler.op \in {"untrack", "prune"} /\ Handler.queue = <<>> /\ tree.exists
  BY <1>1 DEF Mirror, HandlerSerial
<1>3. Handler' = Idle
  BY <1>1, HandlerEnds
<1>4. Pending' = Pending
  BY <1>1, <1>2, <1>3 DEF Pending, Idle
<1>5. listeners = 0 /\ wire = <<>> /\ phase = "serving"
  BY <1>1, <1>2 DEF Mirror, ListenersSerial, Subscribing, IInv, CountersOK
<1>6. ChainSerial' /\ HandlerSerial(Handler', tree')
  BY <1>1, <1>3 DEF Mirror, ChainSerial, HandlerSerial, Idle
<1>7. CASE Handler.op = "prune"
  <2>1. tree' = NoTree
    BY <1>1, <1>7 DEF UntrackWrite
  <2>2. ~tree'.exists
    BY <2>1 DEF NoTree, EmptyTree
  <2>3. TreeSerial(tree', Len(chain'))
    BY <1>1, <2>1, NothingHeld, SerialFacts
  <2>4. ListenersSerial'
    BY <1>1, <1>3, <1>5, <2>2 DEF ListenersSerial, Idle
  <2>5. Pipeline'
    BY <1>1, <1>3, <1>5, <2>2 DEF Pipeline, Idle
  <2> QED BY <1>6, <2>2, <2>3, <2>4, <2>5 DEF Mirror, Grows
<1>8. CASE Handler.op # "prune"
  <2>1. tree' = [tree EXCEPT !.active = FALSE]
    BY <1>1, <1>2, <1>8 DEF UntrackWrite
  <2>2. /\ tree'.exists /\ ~tree'.active /\ tree'.treeHeight = tree.treeHeight
        /\ tree'.nodes = tree.nodes /\ tree'.latestLeaf = tree.latestLeaf
        /\ tree'.latestRecalculation = tree.latestRecalculation
    BY <1>2, <2>1 DEF IInv, TreeOK, NoTree, EmptyTree
  <2>3. /\ Held(tree') = Held(tree) /\ LatestLeaf(tree') = LatestLeaf(tree)
        /\ Recalculated(tree') = Recalculated(tree)
    BY <2>2 DEF Held, LatestLeaf, Recalculated
  <2>4. TreeSerial(tree', Len(chain'))
    BY <1>1, <1>2, <2>2, <2>3 DEF Mirror, TreeSerial
  <2>5. ListenersSerial'
    BY <1>1, <1>3, <1>5, <2>2 DEF ListenersSerial, Idle
  <2>6. Pipeline'
    BY <1>1, <1>2, <1>3, <1>4, <1>5, <2>3 DEF Mirror, Pipeline, Idle
  <2>7. Grows
    BY <2>3, SerialFacts DEF Grows
  <2> QED BY <1>6, <2>4, <2>5, <2>6, <2>7 DEF Mirror
<1> QED BY <1>7, <1>8

LEMMA UpdateTreeFindSerial ==
  ASSUME Serial, IInv, Mirror, NEW p \in Procs, UpdateTreeFind(p)
  PROVE  Mirror' /\ Grows
<1> DEFINE h == [Idle EXCEPT !.op = "getRoot", !.pc = "leafRange",
                             !.from = FromLeaf, !.cursor = FromLeaf,
                             !.to = tree.latestLeaf.leafIndex,
                             !.frontier = tree.latestRecalculation.frontier]
<1>1. /\ phase = "serving" /\ Handler = Idle /\ tree.exists /\ ~UpToDate
      /\ UNCHANGED <<chain, tree, listeners, wire, ready, phase, socketLosses>>
      /\ proc' = [proc EXCEPT ![p] = h]
  BY TheHandler DEF UpdateTreeFind, Request
<1>2. /\ h.op = "getRoot" /\ h.pc = "leafRange" /\ h.queue = Idle.queue
      /\ h.from = Recalculated(tree) + 1 /\ h.cursor = h.from /\ h.to = LatestLeaf(tree)
      /\ h.frontier = tree.latestRecalculation.frontier /\ h.leaves = <<>>
  BY DEF Idle, FromLeaf, Recalculated, LatestLeaf
<1> HIDE DEF h
<1>3. Handler' = h
  BY <1>1, HandlerBecomes
<1>4. Recalculated(tree) < LatestLeaf(tree)
  BY <1>1, SerialFacts DEF UpToDate, Recalculated, LatestLeaf
<1>5. HandlerSerial(h, tree)
  BY <1>1, <1>2, <1>4 DEF HandlerSerial, Ranging, Idle
<1>6. Handler.op \notin Subscribing /\ Handler.pc # "checkChainLogs"
      /\ h.op \notin Subscribing /\ h.queue = Handler.queue
  BY <1>1, <1>2 DEF Subscribing, Idle
<1> QED BY <1>1, <1>3, <1>5, <1>6, HandlerMoves

\* One turn of the loop finds the whole range: it lies in the first document.
LEMMA LeafRangeSerial ==
  ASSUME Serial, IInv, Mirror, NEW p \in Procs, LeafRange(p)
  PROVE  Mirror' /\ Grows
<1> DEFINE n    == Held(tree)
           r    == Recalculated(tree)
           top  == LatestLeaf(tree)
           node == LeafIndexToNodeIndex(tree.treeHeight, Handler.cursor)
           found == LeavesOfSegment(tree.nodes, Handler.cursor, Handler.to)
           next == NextCursor(Handler.cursor, found)
           h    == [Handler EXCEPT !.leaves = @ \o found, !.cursor = next,
                                   !.pc = IF next > Handler.to THEN "findTree"
                                                               ELSE "leafRange"]
<1>1. /\ p = Only /\ proc[p] = Handler /\ DOMAIN Handler = DOMAIN Idle
      /\ Handler.pc = "leafRange" /\ phase # "down"
      /\ UNCHANGED <<chain, tree, listeners, wire, ready, phase, socketLosses>>
  BY TheHandler DEF LeafRange
<1>2. /\ Ranging(Handler, tree) /\ Handler.cursor = r + 1 /\ Handler.to = top
      /\ Handler.leaves = <<>> /\ tree.exists /\ r < top
  BY <1>1 DEF Mirror, HandlerSerial, Ranging
<1>3. /\ r \in Int /\ r >= -1 /\ top \in Int /\ n \in Nat /\ top < n
      /\ n <= TwoTo[TreeHeight] /\ TwoTo[TreeHeight] \in Nat /\ TreeHeight \in Nat
  BY SerialFacts DEF Mirror, TreeSerial
<1>4. tree.treeHeight = TreeHeight /\ LeavesStored(TreeHeight, tree.nodes, n)
  BY <1>2 DEF Mirror, TreeSerial
<1>5. SegmentFound(node)
  <2>1. node = Handler.cursor + TwoTo[TreeHeight] - 1
    BY <1>4 DEF LeafIndexToNodeIndex
  <2> HIDE DEF n, r, top, node
  <2>2. node \in Nat /\ node < 2 * TwoTo[TreeHeight] - 1
    BY <1>2, <1>3, <2>1
  <2> QED BY <1>2, <2>2, FirstDocument DEF SegmentFound
<1>6. proc' = [proc EXCEPT ![p] = h]
  <2>1. proc' = [proc EXCEPT ![p].leaves = @ \o found, ![p].cursor = next,
                             ![p].pc = IF next > Handler.to THEN "findTree"
                                                            ELSE "leafRange"]
    BY <1>1, <1>5 DEF LeafRange
  <2> HIDE DEF found, next
  <2> QED BY <1>1, <2>1
<1>7. h.pc = (IF next > Handler.to THEN "findTree" ELSE "leafRange")
      /\ h.leaves = Handler.leaves \o found /\ h.op = Handler.op
      /\ h.queue = Handler.queue /\ h.from = Handler.from /\ h.to = Handler.to
      /\ h.frontier = Handler.frontier
  BY <1>1 DEF Idle
<1> HIDE DEF n, r, top, node, h, found
<1>8. /\ DOMAIN found = 1..(top - r) /\ Len(found) = top - r
      /\ \A k \in 1..(top - r) : found[k] = LeafNode(r + k)
  <2> DEFINE from == r + 1
             nodes == tree.nodes
             f == LeavesOfSegment(nodes, from, top)
  <2>1. /\ from \in Nat /\ -1 <= top /\ from <= top + 1 /\ top + 1 - from = top - r
        /\ \A k \in 1..(top - r) : from + k - 1 = r + k
    BY <1>2, <1>3
  <2>2. found = f
    BY <1>2 DEF found
  <2>3. LeavesStored(TreeHeight, nodes, n)
    BY <1>4
  <2> HIDE DEF from, nodes
  <2>4. /\ DOMAIN f = 1..(top + 1 - from) /\ Len(f) = top + 1 - from
        /\ \A k \in 1..(top + 1 - from) : f[k] = LeafNode(from + k - 1)
    BY <1>3, <2>1, <2>3, SegmentOfLeaves
  <2> HIDE DEF f
  <2> QED BY <2>1, <2>2, <2>4
<1>9. found # <<>> /\ next = top + 1 /\ next > Handler.to
  <2>1. found # <<>>
    BY <1>2, <1>3, <1>8
  <2> QED BY <1>2, <1>3, <1>8, <2>1 DEF NextCursor
<1>10. h.leaves = found
  <2>1. IsSequence(found)
    <3>1. found \in Seq({LeafNode(i) : i \in Int})
      <4>1. \A k \in 1..(top - r) : found[k] \in {LeafNode(i) : i \in Int}
        BY <1>3, <1>8
      <4>2. found = [k \in 1..(top - r) |-> found[k]]
        BY <1>8 DEF found, LeavesOfSegment
      <4>3. top - r \in Nat
        BY <1>2, <1>3
      <4> QED BY <4>1, <4>2, <4>3
    <3> QED BY <3>1 DEF IsSequence
  <2> QED BY <1>2, <1>7, <2>1, ConcatEmptySeq DEF IsSequence
<1>11. HandlerSerial(h, tree)
  BY <1>2, <1>7, <1>8, <1>9, <1>10 DEF HandlerSerial, Ranging, r, top
<1>12. Handler' = h
  BY <1>6, HandlerBecomes
<1> QED BY <1>1, <1>7, <1>11, <1>12, HandlerMoves

\* The plan is made of leaves and of a frontier that still are those of the document.
LEMMA PlanOfDocument ==
  ASSUME Serial, IInv, Mirror, NEW p \in Procs, FindTree(p)
  PROVE  LET plan == Handler'.plan
             values == Commitments(LatestLeaf(tree) + 1)
         IN
         /\ Handler.pc = "findTree" /\ Handler.queue = <<>> /\ Handler.op = "getRoot"
         /\ tree.exists /\ Recalculated(tree) < LatestLeaf(tree)
         /\ Handler'.op = "getRoot" /\ Handler'.queue = <<>> /\ Handler'.latest = tree.latestLeaf
         /\ Handler'.pc = IF plan.writes # <<>> THEN "findNodes" ELSE "putRecalculation"
         /\ DOMAIN plan = DOMAIN Idle.plan /\ plan.ok = TRUE
         /\ IsSequence(plan.writes) /\ AllReference(plan.writes, TreeHeight, values)
         /\ CoversPaths(plan.writes, TreeHeight, Recalculated(tree) + 1, LatestLeaf(tree))
         /\ RecalculationOf(plan, LatestLeaf(tree) + 1)
<1> DEFINE th   == TreeHeight
           r    == Recalculated(tree)
           top  == LatestLeaf(tree)
           m    == r + 1
           s    == top + 1
           values == [k \in DOMAIN Handler.leaves |-> Handler.leaves[k].hash]
           result == PlanUpdate(tree.treeHeight, Handler.frontier, values, Handler.from)
           plan == [frontier |-> result.frontier, root |-> result.value,
                    writes |-> result.writes, ok |-> result.ok]
           h    == [Idle EXCEPT !.op = "getRoot", !.pc = NextPc(plan),
                                !.latest = tree.latestLeaf, !.plan = plan]
<1>1. /\ p = Only /\ proc[p] = Handler
      /\ Handler.pc = "findTree" /\ phase # "down"
      /\ UNCHANGED <<chain, tree, listeners, wire, ready, phase, socketLosses>>
  BY TheHandler DEF FindTree
<1>2. /\ Ranging(Handler, tree) /\ tree.exists /\ r < top /\ Handler.from = m
      /\ Handler.frontier = tree.latestRecalculation.frontier
      /\ Handler.op = "getRoot" /\ Handler.queue = <<>>
      /\ DOMAIN Handler.leaves = 1..(top - r)
      /\ \A k \in 1..(top - r) : Handler.leaves[k] = LeafNode(r + k)
  BY <1>1 DEF Mirror, HandlerSerial, Ranging
<1>3. /\ r \in Int /\ r >= -1 /\ top \in Int /\ Held(tree) \in Nat /\ top < Held(tree)
      /\ Held(tree) <= TwoTo[th] /\ TwoTo[th] \in Nat /\ th \in Nat
  BY SerialFacts DEF Mirror, TreeSerial
<1>4. /\ tree.treeHeight = th
      /\ FrontierOf(th, Commitments(m), m, tree.latestRecalculation.frontier)
  BY <1>2 DEF Mirror, TreeSerial, RecalculationOf
<1>5. PlanOK(result, th, Commitments(s), Handler.frontier, m)
  <2> DEFINE found == Handler.leaves
  <2> HIDE DEF r, top, th
  <2>1. s \in Nat /\ s <= TwoTo[th] /\ m \in 0..s /\ s - m = top - r
        /\ \A k \in 1..(top - r) : m + k - 1 = r + k
    BY <1>2, <1>3
  <2>2. /\ DOMAIN found = 1..(s - m)
        /\ \A k \in 1..(s - m) : found[k] = LeafNode(m + k - 1)
    BY <1>2, <2>1
  <2>3. result = PlanUpdate(th, tree.latestRecalculation.frontier,
                            [k \in DOMAIN found |-> found[k].hash], m)
    BY <1>2, <1>4
  <2> HIDE DEF m, s, found, result
  <2>4. PlanOK(PlanUpdate(th, tree.latestRecalculation.frontier,
                          [k \in DOMAIN found |-> found[k].hash], m),
               th, Commitments(s), tree.latestRecalculation.frontier, m)
    BY <1>3, <1>4, <2>1, <2>2, PlanOfLeaves
  <2> QED BY <1>2, <2>3, <2>4
<1>6. /\ result.ok = TRUE /\ IsSequence(result.writes)
      /\ AllReference(result.writes, th, Commitments(s))
      /\ CoversPaths(result.writes, th, m, top)
      /\ FrontierOf(th, Commitments(s), s, result.frontier)
      /\ result.value = ReferenceRoot(th, Commitments(s))
  <2>1. s \in Nat /\ m < s /\ s - 1 = top
    BY <1>2, <1>3
  <2>2. Len(Commitments(s)) = s
    BY <2>1, CommitmentsOf
  <2> HIDE DEF m, s, result, th, top
  <2> QED BY <1>5, <2>1, <2>2 DEF PlanOK
<1> HIDE DEF result
<1>7. plan.ok = TRUE /\ plan.writes = result.writes /\ plan.root = result.value
      /\ plan.frontier = result.frontier /\ DOMAIN plan = DOMAIN Idle.plan
  BY <1>6 DEF Idle
<1>8. proc' = [proc EXCEPT ![p] = h]
  <2>1. NextPc(plan) # "failed"
    BY <1>7 DEF NextPc
  <2> QED BY SMTT(30), <1>1, <1>2, <2>1 DEF FindTree, result
<1> HIDE DEF plan
<1>9. h.op = "getRoot" /\ h.pc = NextPc(plan) /\ h.latest = tree.latestLeaf
      /\ h.plan = plan /\ h.queue = <<>>
  BY DEF Idle
<1>10. NextPc(plan) = IF plan.writes # <<>> THEN "findNodes" ELSE "putRecalculation"
  BY <1>7 DEF NextPc
<1> HIDE DEF h
<1>11. Handler' = h
  BY <1>8, HandlerBecomes
<1>12. RecalculationOf(plan, s)
  BY <1>6, <1>7 DEF RecalculationOf
<1> QED BY <1>1, <1>2, <1>6, <1>7, <1>9, <1>10, <1>11, <1>12

LEMMA FindTreeSerial ==
  ASSUME Serial, IInv, Mirror, NEW p \in Procs, FindTree(p)
  PROVE  Mirror' /\ Grows
<1>1. /\ phase # "down"
      /\ UNCHANGED <<chain, tree, listeners, wire, ready, phase, socketLosses>>
  BY TheHandler DEF FindTree
<1>2. /\ Handler.pc = "findTree" /\ Handler.queue = <<>> /\ Handler.op = "getRoot"
      /\ Handler'.op = "getRoot" /\ Handler'.queue = <<>>
      /\ Handler'.pc = IF Handler'.plan.writes # <<>> THEN "findNodes" ELSE "putRecalculation"
      /\ Writing(Handler', tree)
  BY PlanOfDocument DEF Writing
<1>3. HandlerSerial(Handler', tree)
  BY <1>2 DEF HandlerSerial
<1> QED BY <1>1, <1>2, <1>3, HandlerMoves

\* The first write of a plan and the others.
LEMMA WritesSplit ==
  ASSUME NEW h, NEW values, NEW writes, IsSequence(writes), writes # <<>>,
         AllReference(writes, h, values)
  PROVE  /\ ReferenceWrite(Head(writes), h, values)
         /\ IsSequence(Tail(writes)) /\ AllReference(Tail(writes), h, values)
<1>1. PICK S : writes \in Seq(S)
  BY DEF IsSequence
<1>2. /\ Len(writes) \in Nat /\ Len(writes) > 0 /\ Head(writes) = writes[1]
      /\ Tail(writes) \in Seq(S) /\ Len(Tail(writes)) = Len(writes) - 1
      /\ \A k \in 1..(Len(writes) - 1) : Tail(writes)[k] = writes[k + 1]
  BY <1>1
<1>3. ReferenceWrite(Head(writes), h, values)
  <2>1. 1 \in 1..Len(writes)
    BY <1>2
  <2> QED BY <1>2, <2>1 DEF AllReference
<1>4. ASSUME NEW k \in 1..Len(Tail(writes))
      PROVE  ReferenceWrite(Tail(writes)[k], h, values)
  <2>1. k + 1 \in 1..Len(writes) /\ Tail(writes)[k] = writes[k + 1]
    BY <1>2
  <2> QED BY <2>1 DEF AllReference
<1> QED BY <1>2, <1>3, <1>4 DEF IsSequence, AllReference

\* A step of updateTree that writes to the document.
LEMMA TreeMoves ==
  ASSUME Serial, IInv, Mirror,
         UNCHANGED <<chain, listeners, wire, ready, phase, socketLosses>>,
         phase # "down", Handler.op \notin Subscribing, Handler'.op \notin Subscribing,
         Handler.pc # "checkChainLogs", Handler'.queue = Handler.queue,
         tree.exists, tree'.exists, tree'.active = tree.active,
         TreeSerial(tree', Len(chain)), HandlerSerial(Handler', tree'),
         Held(tree') = Held(tree), Recalculated(tree) <= Recalculated(tree')
  PROVE  Mirror' /\ Grows
<1>1. ChainSerial'
  BY DEF Mirror, ChainSerial
<1>2. ListenersSerial'
  BY DEF Mirror, ListenersSerial, Subscribing
<1>3. Pending' = Pending
  BY DEF Pending
<1>4. Pipeline'
  BY <1>3 DEF Mirror, Pipeline, Subscribing
<1>5. Grows
  BY SerialFacts DEF Grows
<1> QED BY <1>1, <1>2, <1>4, <1>5 DEF Mirror

LEMMA FindNodesSerial ==
  ASSUME Serial, IInv, Mirror, NEW p \in Procs, FindNodes(p)
  PROVE  Mirror' /\ Grows
<1> DEFINE write == Head(Handler.plan.writes)
           h == [Handler EXCEPT !.pc = "putNodes",
                                !.snap = SetNode(tree.nodes, write.index,
                                                 InnerNode(write.hash))]
<1>1. /\ proc[p] = Handler /\ DOMAIN Handler = DOMAIN Idle
      /\ Handler.pc = "findNodes" /\ phase # "down"
      /\ UNCHANGED <<chain, tree, listeners, wire, ready, phase, socketLosses>>
  BY TheHandler DEF FindNodes
<1>2. Writing(Handler, tree) /\ Handler.plan.writes # <<>> /\ tree.exists
  BY <1>1 DEF Mirror, HandlerSerial, Writing
<1>3. ReferenceWrite(write, TreeHeight, Commitments(LatestLeaf(tree) + 1))
  BY <1>2, WritesSplit DEF Writing
<1>4. SegmentFound(write.index)
  <2>1. TreeHeight \in Nat
    BY HeightAssumption
  <2> HIDE DEF write
  <2>2. write.index \in Nat /\ write.index < 2 * TwoTo[TreeHeight] - 1
    BY <1>3, <2>1, InnerIndexSmall
  <2> QED BY <1>2, <2>2, FirstDocument DEF SegmentFound
<1>5. proc' = [proc EXCEPT ![p] = h]
  BY <1>1, <1>4 DEF FindNodes
<1>6. /\ h.pc = "putNodes" /\ h.op = Handler.op /\ h.queue = Handler.queue
      /\ h.latest = Handler.latest /\ h.plan = Handler.plan
      /\ h.snap = SetNode(tree.nodes, write.index, InnerNode(write.hash))
  BY <1>1 DEF Idle
<1> HIDE DEF h
<1>7. Writing(h, tree)
  BY <1>2, <1>6 DEF Writing
<1>8. HandlerSerial(h, tree)
  BY <1>2, <1>6, <1>7 DEF HandlerSerial
<1>9. Handler' = h
  BY <1>5, HandlerBecomes
<1> QED BY <1>1, <1>6, <1>8, <1>9, HandlerMoves

\* The array read before is still the one of the document, and gets the next node of the plan.
LEMMA PutNodesStores ==
  ASSUME Serial, IInv, Mirror, NEW p \in Procs, PutNodes(p)
  PROVE  LET writes == Handler.plan.writes
             values == Commitments(LatestLeaf(tree) + 1)
         IN
         /\ Handler.pc = "putNodes" /\ Writing(Handler, tree) /\ tree.exists
         /\ writes # <<>> /\ ReferenceWrite(Head(writes), TreeHeight, values)
         /\ Handler'.pc = IF Tail(writes) # <<>> THEN "findNodes" ELSE "putRecalculation"
         /\ Handler'.op = "getRoot" /\ Handler'.queue = <<>>
         /\ Handler'.latest = Handler.latest
         /\ DOMAIN Handler'.plan = DOMAIN Idle.plan /\ Handler'.plan.ok = TRUE
         /\ Handler'.plan.writes = Tail(writes)
         /\ IsSequence(Tail(writes)) /\ AllReference(Tail(writes), TreeHeight, values)
         /\ Handler'.plan.root = Handler.plan.root
         /\ Handler'.plan.frontier = Handler.plan.frontier
         /\ tree'.nodes = SetNode(tree.nodes, Head(writes).index, InnerNode(Head(writes).hash))
         /\ tree'.exists /\ tree'.active = tree.active
         /\ tree'.treeHeight = tree.treeHeight /\ tree'.latestLeaf = tree.latestLeaf
         /\ tree'.latestRecalculation = tree.latestRecalculation
         /\ LeavesStored(TreeHeight, tree'.nodes, Held(tree)) /\ Held(tree') = Held(tree)
<1> DEFINE plan == Handler.plan
           write == Head(plan.writes)
           rest == [plan EXCEPT !.writes = Tail(@)]
           values == Commitments(LatestLeaf(tree) + 1)
           h == [Handler EXCEPT !.plan = rest, !.pc = NextPc(rest), !.snap = <<>>]
<1>1. /\ proc[p] = Handler /\ DOMAIN Handler = DOMAIN Idle
      /\ Handler.pc = "putNodes" /\ phase # "down"
      /\ UNCHANGED <<chain, listeners, wire, ready, phase, socketLosses>>
  BY TheHandler DEF PutNodes
<1>2. /\ Writing(Handler, tree) /\ plan.writes # <<>> /\ tree.exists
      /\ Handler.op = "getRoot" /\ Handler.queue = <<>>
      /\ Handler.snap = SetNode(tree.nodes, write.index, InnerNode(write.hash))
      /\ DOMAIN plan = DOMAIN Idle.plan /\ plan.ok = TRUE
  BY <1>1 DEF Mirror, HandlerSerial, Writing
<1>3. /\ ReferenceWrite(write, TreeHeight, values)
      /\ IsSequence(Tail(plan.writes)) /\ AllReference(Tail(plan.writes), TreeHeight, values)
  BY <1>2, WritesSplit DEF Writing
<1>4. rest.writes = Tail(plan.writes) /\ rest.ok = TRUE /\ DOMAIN rest = DOMAIN Idle.plan
      /\ rest.root = plan.root /\ rest.frontier = plan.frontier
  BY <1>2 DEF Idle
<1> HIDE DEF rest
<1>5. tree' = [tree EXCEPT !.nodes = Handler.snap] /\ proc' = [proc EXCEPT ![p] = h]
  <2>1. NextPc(rest) # "failed"
    BY <1>4 DEF NextPc
  <2> QED BY <1>1, <1>2, <2>1 DEF PutNodes, rest
<1>6. /\ h.pc = NextPc(rest) /\ h.op = "getRoot" /\ h.queue = <<>>
      /\ h.latest = Handler.latest /\ h.plan = rest
  BY <1>1, <1>2 DEF Idle
<1> HIDE DEF h
<1>7. Handler' = h
  BY <1>5, HandlerBecomes
<1>8. /\ tree'.nodes = Handler.snap /\ tree'.exists /\ tree'.active = tree.active
      /\ tree'.treeHeight = tree.treeHeight /\ tree'.latestLeaf = tree.latestLeaf
      /\ tree'.latestRecalculation = tree.latestRecalculation
  BY <1>2, <1>5 DEF IInv, TreeOK, NoTree, EmptyTree
<1>9. LeavesStored(TreeHeight, tree'.nodes, Held(tree))
  <2> DEFINE n == Held(tree)
             nodes == tree.nodes
  <2>1. n \in Nat /\ n <= TwoTo[TreeHeight] /\ LeavesStored(TreeHeight, nodes, n)
        /\ TreeHeight \in Nat
    BY SerialFacts DEF Mirror, TreeSerial
  <2>2. tree'.nodes = SetNode(nodes, write.index, InnerNode(write.hash))
    BY <1>2, <1>8
  <2> HIDE DEF n, nodes, write, values
  <2>3. LeavesStored(TreeHeight, SetNode(nodes, write.index, InnerNode(write.hash)), n)
    BY <1>3, <2>1, InnerInPlace
  <2> QED BY <2>2, <2>3 DEF n
<1>10. Held(tree') = Held(tree)
  <2>1. Held(tree) \in 0..TwoTo[TreeHeight]
    BY SerialFacts
  <2> QED BY <1>9, <2>1, HeldIs
<1>11. NextPc(rest) = IF Tail(plan.writes) # <<>> THEN "findNodes" ELSE "putRecalculation"
  BY <1>4 DEF NextPc
<1> QED BY <1>1, <1>2, <1>3, <1>4, <1>6, <1>7, <1>8, <1>9, <1>10, <1>11

LEMMA PutNodesSerial ==
  ASSUME Serial, IInv, Mirror, NEW p \in Procs, PutNodes(p)
  PROVE  Mirror' /\ Grows
<1> DEFINE writes == Handler.plan.writes
           values == Commitments(LatestLeaf(tree) + 1)
<1>1. /\ phase # "down" /\ UNCHANGED <<chain, listeners, wire, ready, phase, socketLosses>>
  BY TheHandler DEF PutNodes
<1>2. /\ Handler.pc = "putNodes" /\ Writing(Handler, tree) /\ tree.exists
      /\ Handler'.pc = IF Tail(writes) # <<>> THEN "findNodes" ELSE "putRecalculation"
      /\ Handler'.op = "getRoot" /\ Handler'.queue = <<>> /\ Handler'.latest = Handler.latest
      /\ DOMAIN Handler'.plan = DOMAIN Idle.plan /\ Handler'.plan.ok = TRUE
      /\ Handler'.plan.writes = Tail(writes)
      /\ IsSequence(Tail(writes)) /\ AllReference(Tail(writes), TreeHeight, values)
      /\ Handler'.plan.root = Handler.plan.root
      /\ Handler'.plan.frontier = Handler.plan.frontier
      /\ tree'.exists /\ tree'.active = tree.active
      /\ tree'.treeHeight = tree.treeHeight /\ tree'.latestLeaf = tree.latestLeaf
      /\ tree'.latestRecalculation = tree.latestRecalculation
      /\ LeavesStored(TreeHeight, tree'.nodes, Held(tree)) /\ Held(tree') = Held(tree)
  BY PutNodesStores
<1>3. LatestLeaf(tree') = LatestLeaf(tree) /\ Recalculated(tree') = Recalculated(tree)
  BY <1>2 DEF LatestLeaf, Recalculated
<1> HIDE DEF writes
<1>4. TreeSerial(tree', Len(chain))
  BY <1>2, <1>3 DEF Mirror, TreeSerial
<1>5. Writing(Handler', tree')
  BY <1>2, <1>3 DEF Writing, RecalculationOf
<1>6. HandlerSerial(Handler', tree')
  BY <1>2, <1>5 DEF HandlerSerial
<1>7. Handler.op = "getRoot" /\ Handler.queue = <<>>
  BY <1>2 DEF Writing
<1>8. Recalculated(tree) <= Recalculated(tree')
  BY <1>3, SerialFacts
<1> QED BY <1>1, <1>2, <1>4, <1>6, <1>7, <1>8, TreeMoves DEF Subscribing

\* The document is then right about all leaves that it names.
LEMMA PutRecalculationStores ==
  ASSUME Serial, IInv, Mirror, NEW p \in Procs, PutRecalculation(p)
  PROVE  /\ Handler.pc = "putRecalculation" /\ Writing(Handler, tree) /\ tree.exists
         /\ Handler' = Idle
         /\ tree'.nodes = tree.nodes /\ tree'.exists /\ tree'.active = tree.active
         /\ tree'.treeHeight = tree.treeHeight
         /\ Held(tree') = Held(tree) /\ LatestLeaf(tree') = LatestLeaf(tree)
         /\ Recalculated(tree') = LatestLeaf(tree)
         /\ RecalculationOf(tree'.latestRecalculation, LatestLeaf(tree) + 1)
<1> DEFINE plan == Handler.plan
           top == LatestLeaf(tree)
           recalculation == [blockNumber |-> Handler.latest.blockNumber,
                             leafIndex |-> Handler.latest.leafIndex,
                             root |-> plan.root, frontier |-> plan.frontier]
<1>1. /\ proc[p] = Handler
      /\ Handler.pc = "putRecalculation" /\ phase # "down"
      /\ UNCHANGED <<chain, listeners, wire, ready, phase, socketLosses>>
  BY TheHandler DEF PutRecalculation
<1>2. /\ Writing(Handler, tree) /\ tree.exists /\ Handler.op = "getRoot" /\ Handler.queue = <<>>
      /\ Handler.latest = tree.latestLeaf /\ Recalculated(tree) < top
      /\ RecalculationOf(plan, top + 1)
  BY <1>1 DEF Mirror, HandlerSerial, Writing
<1>3. tree' = [tree EXCEPT !.latestRecalculation = recalculation] /\ End(p)
  BY <1>1, <1>2 DEF PutRecalculation
<1>4. Handler' = Idle
  BY <1>3, HandlerEnds
<1>5. recalculation.leafIndex = top /\ RecalculationOf(recalculation, top + 1)
  BY <1>2 DEF LatestLeaf, RecalculationOf
<1> HIDE DEF recalculation
<1>6. /\ tree'.nodes = tree.nodes /\ tree'.exists /\ tree'.active = tree.active
      /\ tree'.treeHeight = tree.treeHeight /\ tree'.latestLeaf = tree.latestLeaf
      /\ tree'.latestRecalculation = recalculation
  BY <1>2, <1>3 DEF IInv, TreeOK, NoTree, EmptyTree
<1>7. Held(tree') = Held(tree) /\ LatestLeaf(tree') = top /\ Recalculated(tree') = top
  BY <1>5, <1>6 DEF Held, LatestLeaf, Recalculated
<1> QED BY <1>1, <1>2, <1>4, <1>5, <1>6, <1>7

LEMMA PutRecalculationSerial ==
  ASSUME Serial, IInv, Mirror, NEW p \in Procs, PutRecalculation(p)
  PROVE  Mirror' /\ Grows
<1>1. /\ phase # "down" /\ UNCHANGED <<chain, listeners, wire, ready, phase, socketLosses>>
  BY TheHandler DEF PutRecalculation
<1>2. /\ Handler.pc = "putRecalculation" /\ Writing(Handler, tree) /\ tree.exists
      /\ Handler' = Idle
      /\ tree'.nodes = tree.nodes /\ tree'.exists /\ tree'.active = tree.active
      /\ tree'.treeHeight = tree.treeHeight
      /\ Held(tree') = Held(tree) /\ LatestLeaf(tree') = LatestLeaf(tree)
      /\ Recalculated(tree') = LatestLeaf(tree)
      /\ RecalculationOf(tree'.latestRecalculation, LatestLeaf(tree) + 1)
  BY PutRecalculationStores
<1>3. TreeSerial(tree', Len(chain))
  BY <1>2 DEF Mirror, TreeSerial
<1>4. HandlerSerial(Idle, tree')
  BY DEF HandlerSerial, Idle
<1>5. Recalculated(tree) <= Recalculated(tree')
  BY <1>2, SerialFacts DEF Writing
<1>6. Handler.op = "getRoot" /\ Handler.queue = <<>>
  BY <1>2 DEF Writing
<1> QED BY <1>1, <1>2, <1>3, <1>4, <1>5, <1>6, TreeMoves DEF Subscribing, Idle

LEMMA RestartSerial ==
  ASSUME Serial, IInv, Mirror, NEW p \in Procs, Restart(p)
  PROVE  Mirror' /\ Grows
<1>1. /\ phase = "down" /\ Handler = Idle
      /\ UNCHANGED <<chain, tree, listeners, wire, ready, socketLosses>>
  BY TheHandler DEF Restart
<1>2. listeners = 0 /\ wire = <<>> /\ ready = <<>>
  BY <1>1 DEF Mirror, ListenersSerial
<1>3. ChainSerial' /\ TreeSerial(tree', Len(chain')) /\ Grows
  BY <1>1, SerialFacts DEF Mirror, ChainSerial, Grows
<1>4. CASE tree.exists /\ tree.active
  <2> DEFINE h == [Idle EXCEPT !.op = "restart", !.pc = "checkChainLogs",
                               !.from = tree.latestLeaf.blockNumber]
  <2>1. phase' = "starting" /\ proc' = [proc EXCEPT ![p] = h]
    BY <1>1, <1>4 DEF Restart
  <2>2. h.op = "restart" /\ h.pc = "checkChainLogs" /\ h.queue = <<>>
        /\ h.from = tree.latestLeaf.blockNumber
    BY DEF Idle
  <2> HIDE DEF h
  <2>3. Handler' = h
    BY <2>1, HandlerBecomes
  <2>4. h.from \in 0..Held(tree)
    <3>1. CASE tree.latestLeaf = NoLeaf
      BY <2>2, <3>1, SerialFacts DEF NoLeaf
    <3>2. CASE tree.latestLeaf # NoLeaf
      <4>1. /\ LatestLeaf(tree) \in 0..(Len(chain) - 1)
            /\ tree.latestLeaf.blockNumber = chain[LatestLeaf(tree) + 1]
        BY <3>2 DEF IInv, TreeOK, IsLatest, IsLog, Leaves, LatestLeaf
      <4>2. chain[LatestLeaf(tree) + 1] = LatestLeaf(tree) + 1
        BY <4>1, SerialFacts DEF Mirror, ChainSerial
      <4>3. LatestLeaf(tree) < Held(tree)
        BY DEF Mirror, TreeSerial
      <4> QED BY <2>2, <4>1, <4>2, <4>3, SerialFacts
    <3> QED BY <3>1, <3>2
  <2>5. HandlerSerial(Handler', tree')
    BY <1>1, <1>4, <2>2, <2>3, <2>4 DEF HandlerSerial
  <2>6. ListenersSerial'
    BY <1>1, <1>2, <2>1, <2>2, <2>3 DEF ListenersSerial
  <2>7. Pipeline'
    BY <1>1, <1>2, <2>2, <2>3 DEF Pipeline
  <2> QED BY <1>3, <2>5, <2>6, <2>7 DEF Mirror
<1>5. CASE ~(tree.exists /\ tree.active)
  <2>1. phase' = "serving" /\ Handler' = Handler
    BY <1>1, <1>5 DEF Restart, Handler
  <2>2. HandlerSerial(Handler', tree')
    BY <1>1, <2>1 DEF Mirror
  <2>3. ListenersSerial'
    BY <1>1, <1>2, <1>5, <2>1 DEF ListenersSerial, Idle
  <2>4. Pending' = Pending
    BY <1>1, <2>1 DEF Pending
  <2>5. Pipeline'
    BY <1>1, <2>1, <2>4 DEF Mirror, Pipeline
  <2> QED BY <1>3, <2>2, <2>3, <2>5 DEF Mirror
<1> QED BY <1>4, <1>5

\* One leaf more, notified to the listener if there is one.
LEMMA MineAppends ==
  ASSUME Serial, IInv, Mirror, Mine(1)
  PROVE  LET len == Len(chain) IN
         /\ UNCHANGED <<tree, listeners, ready, proc, phase, socketLosses>>
         /\ Handler' = Handler
         /\ ~CatchingUp(Only)
         /\ Handler.op \in {"track", "restart"} => Handler.queue = <<>>
         /\ Len(chain') = len + 1
         /\ \A i \in 1..len : chain'[i] = chain[i]
         /\ chain'[len + 1] = len + 1
         /\ listeners = 1 => wire' = wire \o <<len>> /\ Pending' = Pending \o <<len>>
         /\ listeners # 1 => wire' = wire /\ Pending' = Pending
<1> DEFINE len == Len(chain)
           block == IF chain = <<>> THEN 1 ELSE chain[len] + 1
<1>1. len \in Nat /\ chain \in Seq(Nat)
  BY DEF IInv, ChainOK
<1>2. block = len + 1
  <2>1. CASE chain = <<>>
    BY <1>1, <2>1
  <2>2. CASE chain # <<>>
    <3>1. len \in 1..len
      BY <1>1, <2>2
    <3>2. chain[len] = len
      BY <3>1 DEF Mirror, ChainSerial
    <3> QED BY <2>2, <3>2
  <2> QED BY <2>1, <2>2
<1>3. chain' = chain \o <<len + 1>>
  <2>1. [k \in 1..1 |-> block] = <<len + 1>>
    BY <1>2
  <2> QED BY <2>1 DEF Mine
<1>4. /\ UNCHANGED <<tree, listeners, ready, proc, phase, socketLosses>>
      /\ ~CatchingUp(Only)
      /\ wire' = IF listeners > 0 THEN wire \o <<len>> ELSE wire
  <2>1. [k \in 1..1 |-> Len(chain) + k - 1] = <<len>>
    BY <1>1
  <2>2. QuietTracking /\ Only \in Procs
    BY OneHandler DEF Serial
  <2> QED BY <2>1, <2>2 DEF Mine
<1>5. Handler' = Handler
  BY <1>4 DEF Handler
<1>6. /\ Len(chain') = len + 1
      /\ \A i \in 1..len : chain'[i] = chain[i]
      /\ chain'[len + 1] = len + 1
  BY <1>1, <1>3
<1>7. Handler.op \in {"track", "restart"} => Handler.queue = <<>>
  BY <1>4 DEF CatchingUp, Mirror, HandlerSerial, Handler
<1>8. ASSUME listeners = 1 PROVE wire' = wire \o <<len>> /\ Pending' = Pending \o <<len>>
  <2> DEFINE q == Handler.queue \o ready
  <2>1. q \in Seq(Nat) /\ wire \in Seq(Nat) /\ <<len>> \in Seq(Nat)
    BY <1>1, PendingType, ConcatProperties
  <2>2. Pending = q \o wire /\ Pending' = q \o (wire \o <<len>>)
    BY <1>4, <1>5, <1>8 DEF Pending
  <2> HIDE DEF q
  <2>3. q \o wire \o <<len>> = q \o (wire \o <<len>>)
    BY <2>1, Associative
  <2> QED BY SMTT(30), <1>4, <1>8, <2>2, <2>3
<1>9. ASSUME listeners # 1 PROVE wire' = wire /\ Pending' = Pending
  <2>1. listeners = 0
    BY <1>9 DEF Mirror, ListenersSerial
  <2> QED BY <1>4, <1>5, <2>1 DEF Pending
<1> QED BY <1>4, <1>5, <1>6, <1>7, <1>8, <1>9

LEMMA MineSerial ==
  ASSUME Serial, IInv, Mirror, Mine(1)
  PROVE  Mirror' /\ Grows
<1> DEFINE len == Len(chain)
<1>1. len \in Nat
  BY SerialFacts
<1>2. /\ UNCHANGED <<tree, listeners, ready, proc, phase, socketLosses>>
      /\ Handler' = Handler
      /\ Handler.op \in {"track", "restart"} => Handler.queue = <<>>
      /\ Len(chain') = len + 1
      /\ \A i \in 1..len : chain'[i] = chain[i]
      /\ chain'[len + 1] = len + 1
      /\ listeners = 1 => wire' = wire \o <<len>> /\ Pending' = Pending \o <<len>>
      /\ listeners # 1 => wire' = wire /\ Pending' = Pending
  BY MineAppends
<1>3. ChainSerial'
  <2> SUFFICES ASSUME NEW i \in 1..(len + 1) PROVE chain'[i] = i
    BY <1>2 DEF ChainSerial
  <2>1. CASE i \in 1..len
    BY <1>2, <2>1 DEF Mirror, ChainSerial
  <2>2. CASE i = len + 1
    BY <1>2, <2>2
  <2> QED BY <1>1, <2>1, <2>2
<1>4. TreeSerial(tree', Len(chain')) /\ Grows
  <2>1. Held(tree) \in 0..(len + 1)
    BY <1>1, SerialFacts
  <2> QED BY <1>2, <2>1, SerialFacts DEF Mirror, TreeSerial, Grows
<1>5. HandlerSerial(Handler', tree')
  BY <1>2 DEF Mirror
<1>6. ListenersSerial'
  <2>1. listeners # 1 => wire' = <<>>
    BY <1>2 DEF Mirror, ListenersSerial
  <2> QED BY <1>2, <2>1 DEF Mirror, ListenersSerial
<1>7. Pipeline'
  <2>1. Pending \in Seq(Nat) /\ Held(tree) \in Nat
    BY PendingType, SerialFacts
  <2>2. CASE listeners = 1
    <3>1. Covers(Pending, Held(tree), len)
      BY <2>2 DEF Mirror, Pipeline
    <3>2. /\ InOrder(Pending, Held(tree)) => InOrder(Pending \o <<len>>, Held(tree))
          /\ Covers(Pending \o <<len>>, Held(tree), len + 1)
      BY <1>1, <2>1, <3>1, LeafAppended
    <3> QED BY <1>2, <2>2, <3>2 DEF Mirror, Pipeline
  <2>3. CASE listeners # 1
    BY <1>2, <2>3 DEF Pipeline, Mirror
  <2> QED BY <2>2, <2>3
<1> QED BY <1>3, <1>4, <1>5, <1>6, <1>7 DEF Mirror

\* What the node has notified and the provider has not emitted is lost; nothing is while a
\* handler catches up, as it has not subscribed yet.
LEMMA LoseSocketLoses ==
  ASSUME Serial, IInv, Mirror, LoseSocket
  PROVE  /\ UNCHANGED <<chain, tree, ready, proc, phase>> /\ phase # "down"
         /\ listeners' = 0 /\ wire' = <<>> /\ socketLosses' = socketLosses + 1
         /\ Handler' = Handler
         /\ Pending' \in Seq(Nat) /\ Pending = Pending' \o wire
         /\ Handler.op \in {"track", "restart"} => Pending' = Pending
<1>1. /\ UNCHANGED <<chain, tree, ready, proc, phase>> /\ phase # "down"
      /\ listeners' = 0 /\ wire' = <<>> /\ socketLosses' = socketLosses + 1
  BY DEF LoseSocket
<1>2. Handler' = Handler
  BY <1>1 DEF Handler
<1> DEFINE q == Handler.queue \o ready
<1>3. q \in Seq(Nat) /\ Pending = q \o wire
  BY PendingType, ConcatProperties DEF Pending
<1>4. Pending' = q
  <2>1. Pending' = q \o <<>>
    BY <1>1, <1>2 DEF Pending
  <2> HIDE DEF q
  <2> QED BY <1>3, <2>1, ConcatEmptySeq
<1>5. Handler.op \in {"track", "restart"} => wire = <<>>
  BY DEF Mirror, ListenersSerial, Subscribing
<1>6. Handler.op \in {"track", "restart"} => Pending' = Pending
  BY <1>1, <1>2, <1>5 DEF Pending
<1> HIDE DEF q
<1> QED BY <1>1, <1>2, <1>3, <1>4, <1>6

LEMMA LoseSocketSerial ==
  ASSUME Serial, IInv, Mirror, LoseSocket
  PROVE  Mirror' /\ Grows
<1>1. /\ UNCHANGED <<chain, tree, ready, proc, phase>> /\ phase # "down"
      /\ listeners' = 0 /\ wire' = <<>> /\ socketLosses' = socketLosses + 1
      /\ Handler' = Handler
      /\ Pending' \in Seq(Nat) /\ Pending = Pending' \o wire
      /\ Handler.op \in {"track", "restart"} => Pending' = Pending
  BY LoseSocketLoses
<1>2. ChainSerial' /\ TreeSerial(tree', Len(chain')) /\ Grows
  BY <1>1, SerialFacts DEF Mirror, ChainSerial, Grows
<1>3. HandlerSerial(Handler', tree')
  BY <1>1 DEF Mirror
<1>4. ListenersSerial'
  <2>1. socketLosses' # 0
    BY <1>1 DEF IInv, CountersOK
  <2> QED BY <1>1, <2>1 DEF Mirror, ListenersSerial
<1>5. Pipeline'
  <2>1. InOrder(Pending, Held(tree)) => InOrder(Pending', Held(tree))
    BY <1>1, PendingType, InOrderPrefix, SerialFacts
  <2>2. CASE Handler.op \in {"track", "restart"}
    <3>1. Pending' = Pending /\ tree' = tree /\ chain' = chain /\ Handler' = Handler
          /\ listeners' = 0
      BY <1>1, <2>2
    <3> QED BY <3>1 DEF Mirror, Pipeline
  <2>3. CASE Handler.op \notin {"track", "restart"}
    <3>1. tree' = tree /\ Handler' = Handler /\ listeners' = 0
      BY <1>1
    <3> QED BY <2>1, <2>3, <3>1 DEF Mirror, Pipeline
  <2> QED BY <2>2, <2>3
<1> QED BY <1>2, <1>3, <1>4, <1>5 DEF Mirror

LEMMA CrashSerial ==
  ASSUME Serial, IInv, Mirror, Crash
  PROVE  Mirror' /\ Grows
<1>1. /\ UNCHANGED <<chain, tree, socketLosses>>
      /\ phase' = "down" /\ listeners' = 0 /\ wire' = <<>> /\ ready' = <<>>
  BY DEF Crash
<1>2. Handler' = Idle
  BY OneHandler DEF Crash, Handler
<1>3. ChainSerial' /\ TreeSerial(tree', Len(chain')) /\ Grows
  BY <1>1, SerialFacts DEF Mirror, ChainSerial, Grows
<1>4. HandlerSerial(Handler', tree') /\ ListenersSerial'
  BY <1>1, <1>2 DEF HandlerSerial, ListenersSerial, Idle
<1>5. Pipeline'
  <2>1. Pending' = <<>>
    BY <1>1, <1>2 DEF Pending, Idle
  <2>2. InOrder(<<>>, Held(tree))
    BY DEF InOrder
  <2> QED BY <1>1, <1>2, <2>1, <2>2 DEF Pipeline, Idle
<1> QED BY <1>3, <1>4, <1>5 DEF Mirror

LEMMA InitMirror ==
  ASSUME Serial, Init
  PROVE  Mirror
<1>1. /\ chain = <<>> /\ tree = NoTree /\ listeners = 0 /\ wire = <<>> /\ ready = <<>>
      /\ phase = "serving" /\ ~tree.exists
  BY DEF Init, NoTree, EmptyTree
<1>2. Handler = Idle
  BY OneHandler DEF Init, Handler
<1>3. ChainSerial
  BY <1>1 DEF ChainSerial
<1>4. TreeSerial(tree, Len(chain))
  <2>1. Len(chain) = 0
    BY <1>1
  <2> QED BY <1>1, <2>1, NothingHeld
<1>5. ListenersSerial /\ HandlerSerial(Handler, tree) /\ Pipeline
  BY <1>1, <1>2 DEF ListenersSerial, HandlerSerial, Pipeline, Idle
<1> QED BY <1>3, <1>4, <1>5 DEF Mirror

LEMMA NextMirror ==
  ASSUME Serial, IInv, Mirror, Next
  PROVE  Mirror' /\ Grows
<1>1. ASSUME NEW p \in Procs, StartCallback(p) PROVE Mirror' /\ Grows
  BY <1>1, StartCallbackSerial
<1>2. ASSUME NEW p \in Procs, ClientRequest(p) PROVE Mirror' /\ Grows
  BY <1>2, TrackFindSerial, UntrackFindSerial, UpdateTreeFindSerial DEF ClientRequest
<1>3. ASSUME NEW p \in Procs, Restart(p) PROVE Mirror' /\ Grows
  BY <1>3, RestartSerial
<1>4. ASSUME NEW p \in Procs, HandlerStep(p) PROVE Mirror' /\ Grows
  BY <1>4, FindSegmentSerial, PutSegmentSerial, PutLatestLeafSerial, TrackUpsertSerial,
     CheckChainLogsSerial, UntrackWriteSerial, LeafRangeSerial, FindTreeSerial,
     FindNodesSerial, PutNodesSerial, PutRecalculationSerial DEF HandlerStep
<1>5. ASSUME NEW p \in Procs, HandlerFails(p) PROVE Mirror' /\ Grows
  BY <1>5 DEF HandlerFails, Serial
<1>6. CASE Environment
  <2>1. ASSUME NEW n \in 1..MaxLeavesPerBlock, Mine(n) PROVE Mirror' /\ Grows
    <3>1. n = 1
      BY DEF Serial
    <3> QED BY <2>1, <3>1, MineSerial
  <2> QED BY <1>6, <2>1, LoseSocketSerial, CrashSerial DEF Environment
<1> QED BY <1>1, <1>2, <1>3, <1>4, <1>5, <1>6, DeliverEventSerial DEF Next

\* With one handler at a time and the rest of Serial, Mirror is inductive on top of IInv, and
\* no step makes the document poorer.
LEMMA SerialStep ==
  ASSUME Serial, IInv, Mirror, [Next]_vars
  PROVE  Mirror' /\ Grows
<1>1. CASE Next
  BY <1>1, NextMirror
<1>2. CASE UNCHANGED vars
  <2>1. Handler' = Handler /\ Pending' = Pending
    BY <1>2 DEF vars, Handler, Pending
  <2> QED BY <1>2, <2>1, SerialFacts DEF vars, Mirror, ChainSerial, ListenersSerial, Pipeline,
             Grows
<1> QED BY <1>1, <1>2

LEMMA SerialInv ==
  ASSUME Serial
  PROVE  Spec => [](IInv /\ Mirror)
<1>1. Init => IInv /\ Mirror
  BY InitIInv, InitMirror
<1>2. IInv /\ Mirror /\ [Next]_vars => (IInv /\ Mirror)'
  BY NextIInv, SerialStep
<1> QED BY <1>1, <1>2, PTL DEF Spec

\* Handlers one at a time, leaves one in a block: what the document says of a
\* recalculation is the contract's root after the leaf it names, whatever is tracked,
\* untracked or pruned in between, and wherever the socket is lost or the service stops.
THEOREM RecalculationAlwaysMatches ==
  ASSUME Serial
  PROVE  Spec => []RecalculationMatchesChain
<1>1. IInv /\ Mirror => RecalculationMatchesChain
  <2> SUFFICES ASSUME IInv, Mirror, tree.latestRecalculation.leafIndex # -1
               PROVE  tree.latestRecalculation.root
                        = ChainRoot(tree.latestRecalculation.leafIndex + 1)
    BY DEF RecalculationMatchesChain
  <2>1. Recalculated(tree) \in Int /\ Recalculated(tree) # -1
    BY SerialFacts DEF Recalculated
  <2>2. RecalculationOf(tree.latestRecalculation, Recalculated(tree) + 1)
    BY DEF Mirror, TreeSerial
  <2>3. Recalculated(tree) + 1 # 0
    BY <2>1
  <2> QED BY <2>2, <2>3 DEF RecalculationOf, ChainRoot, Recalculated
<1> QED BY <1>1, SerialInv, PTL

LEMMA QuietHandler ==
  ASSUME Serial, Quiescent
  PROVE  Handler = Idle /\ phase = "serving" /\ wire = <<>> /\ ready = <<>>
BY OneHandler DEF Quiescent, IdleProcs, Handler

LEMMA Listened ==
  ASSUME Serial, MaxSocketLosses = 0, IInv, Mirror, Quiescent
  PROVE  listeners = IF tree.exists /\ tree.active THEN 1 ELSE 0
<1>1. socketLosses = 0
  BY DEF IInv, CountersOK
<1>2. Handler.op \notin Subscribing
  BY QuietHandler DEF Idle, Subscribing
<1> QED BY <1>1, <1>2, QuietHandler DEF Mirror, ListenersSerial

\* On the same terms, and with a socket that is never lost: at rest the service listens
\* to an active tree, once.
THEOREM TrackedIsAlwaysListenedTo ==
  ASSUME Serial, MaxSocketLosses = 0
  PROVE  Spec => []TrackedIsListenedTo
<1>1. IInv /\ Mirror => TrackedIsListenedTo
  BY Listened DEF TrackedIsListenedTo
<1> QED BY <1>1, SerialInv, PTL

LEMMA StoredIsHeld ==
  ASSUME IInv, Mirror, NEW i \in Nat, i < TwoTo[TreeHeight]
  PROVE  Stored(i) <=> i < Held(tree)
<1> DEFINE h == TreeHeight
           n == Held(tree)
<1>1. /\ LeavesStored(h, tree.nodes, n) /\ n \in Nat
      /\ TwoTo[h] \in Nat /\ h - 0 = h
  BY SerialFacts DEF Mirror, TreeSerial
<1>2. Place(h, 0, i) = LeafIndexToNodeIndex(h, i) /\ i \in Columns(h, 0)
  BY <1>1 DEF Place, LeafIndexToNodeIndex, Columns
<1> HIDE DEF n
<1>3. ASSUME Stored(i) PROVE i < n
  <2>1. Place(h, 0, i) \in DOMAIN tree.nodes
    BY <1>2, <1>3 DEF Stored
  <2> QED BY <1>1, <1>2, <2>1 DEF LeavesStored
<1>4. ASSUME i < n PROVE Stored(i)
  <2>1. i \in 0..(n - 1)
    BY <1>1, <1>4
  <2>2. Place(h, 0, i) \in DOMAIN tree.nodes /\ tree.nodes[Place(h, 0, i)] = LeafNode(i)
    BY <1>1, <2>1 DEF LeavesStored
  <2> QED BY <1>2, <2>2 DEF Stored
<1> QED BY <1>3, <1>4 DEF n

\* And the document then holds every leaf of the contract, also those that were mined
\* while the service was down or did not track.
THEOREM TreeIsAlwaysFull ==
  ASSUME Serial, MaxSocketLosses = 0
  PROVE  Spec => []TreeIsFull
<1>1. IInv /\ Mirror => TreeIsFull
  <2> SUFFICES ASSUME IInv, Mirror, Quiescent, tree.exists, tree.active,
                      NEW i \in 0..(Len(chain) - 1)
               PROVE  Stored(i)
    BY DEF TreeIsFull
  <2>1. listeners = 1
    BY Listened
  <2>2. Pending = <<>>
    BY QuietHandler DEF Pending, Idle
  <2>3. i \in Nat /\ i < TwoTo[TreeHeight]
    BY SerialFacts
  <2>4. i < Held(tree)
    BY <2>1, <2>2 DEF Mirror, Pipeline, Covers
  <2> QED BY <2>3, <2>4, StoredIsHeld
<1> QED BY <1>1, SerialInv, PTL

\* No step takes a stored leaf away or goes back to an older recalculation, short of a
\* prune: also not the write of an array that was read before, by the one handler.
THEOREM MirrorAlwaysGrows ==
  ASSUME Serial
  PROVE  Spec => MirrorOnlyGrows
<1> DEFINE Richer == tree'.exists =>
              /\ \A i \in 0..(MaxLeaves - 1) : Stored(i) => Stored(i)'
              /\ tree.latestRecalculation.leafIndex <= tree'.latestRecalculation.leafIndex
           Counted == /\ Held(tree) \in Nat
                      /\ \A i \in 0..(MaxLeaves - 1) : Stored(i) <=> i < Held(tree)
<1>1. IInv /\ Mirror => Counted
  <2> SUFFICES ASSUME IInv, Mirror PROVE Counted
    OBVIOUS
  <2>1. \A i \in 0..(MaxLeaves - 1) : i \in Nat /\ i < TwoTo[TreeHeight]
    BY LeavesAssumption, SerialFacts
  <2> QED BY <2>1, StoredIsHeld, SerialFacts
<1>2. (IInv /\ Mirror)' => Counted'
  BY <1>1, PTL
<1>3. IInv /\ Mirror /\ [Next]_vars => [Richer]_tree
  <2> SUFFICES ASSUME IInv, Mirror, [Next]_vars, tree'.exists
               PROVE  /\ \A i \in 0..(MaxLeaves - 1) : Stored(i) => Stored(i)'
                      /\ tree.latestRecalculation.leafIndex
                            <= tree'.latestRecalculation.leafIndex
    OBVIOUS
  <2>1. Grows /\ Counted /\ Counted'
    BY <1>1, <1>2, NextIInv, SerialStep
  <2>2. ASSUME NEW i \in 0..(MaxLeaves - 1), Stored(i) PROVE Stored(i)'
    <3>1. i < Held(tree) /\ Held(tree) \in Nat /\ Held(tree') \in Nat
      BY <2>1, <2>2
    <3>2. i < Held(tree')
      BY <2>1, <3>1 DEF Grows
    <3> QED BY <2>1, <3>2
  <2> QED BY <2>1, <2>2 DEF Grows, Recalculated
<1> QED BY <1>3, SerialInv, PTL DEF Spec, MirrorOnlyGrows

---------------------------------------------------------------------------
(* Proofs from the document.  A document that is untracked or pruned may   *)
(* go back: a callback scheduled before sets latestLeaf to its own leaf.   *)
(* What follows is about a service that clients ask to track and for roots *)
(* only; its leaves arrive once each and in order.                         *)

Steady == Serial /\ Requests \subseteq {"track", "getRoot"}

StaysTracked ==
    /\ tree.exists => tree.active
    /\ Handler.op \notin {"untrack", "prune"}
    /\ Handler.pc = "trackUpsert" => ~tree.exists

\* The leaves of s are the ones from leaf n on.
Consecutive(s, n) == \A k \in 1..Len(s) : s[k] = n + k - 1

\* What is on its way are the leaves after latestLeaf, and all of them for a listener.
Queued ==
    /\ ~tree.exists => Pending = <<>>
    /\ (tree.exists /\ Handler.pc # "checkChainLogs")
          => Consecutive(Pending, LatestLeaf(tree) + 1)
    /\ (listeners = 1 \/ (Handler.op \in {"track", "restart"} /\ Handler.queue # <<>>))
          => LatestLeaf(tree) + 1 + Len(Pending) = Len(chain)
    /\ Handler.pc = "checkChainLogs" => ready = <<>> /\ Handler.from = LatestLeaf(tree) + 1

\* latestLeaf is the last leaf stored, but between the two writes of insertLeaf, which a
\* stop may separate: the leaf is then read again from the logs.
LeafBehind ==
    \/ Held(tree) = LatestLeaf(tree) + 1
    \/ /\ Held(tree) = LatestLeaf(tree) + 2
       /\ \/ phase = "down"
          \/ Handler.pc = "putLatestLeaf"
          \/ /\ Handler.op = "restart"
             /\ Handler.pc \in {"checkChainLogs", "findSegment", "putSegment"}

\* The commitments up to latestLeaf, and up to the last recalculation.
Hashed(t) == Commitments(Recalculated(t) + 1)
Listed(t) == Commitments(LatestLeaf(t) + 1)

\* The inner nodes are those of the last recalculation, but for the writes of a later one,
\* of the one handler or cut off by a stop; and what is left of the handler's completes it.
InnerSerial(h, t) ==
    /\ Recalculated(t) <= LatestLeaf(t)
    /\ PartReference(TreeHeight, t.nodes, Hashed(t), Listed(t))
    /\ Recalculated(t) = LatestLeaf(t) => InnerReference(TreeHeight, t.nodes, Listed(t))
    /\ h.pc \in {"findNodes", "putNodes", "putRecalculation"}
          => InnerReference(TreeHeight, WriteNodes(t.nodes, h.plan.writes), Listed(t))
    /\ h.pc = "putRecalculation" => h.plan.writes = <<>>

Tracking == StaysTracked /\ Queued /\ LeafBehind /\ InnerSerial(Handler, tree)

LEMMA TrackingFacts ==
  ASSUME IInv, Mirror, Tracking
  PROVE  /\ LatestLeaf(tree) \in Int /\ LatestLeaf(tree) >= -1
         /\ Recalculated(tree) \in Int /\ Recalculated(tree) >= -1
         /\ Recalculated(tree) <= LatestLeaf(tree)
         /\ Recalculated(tree) + 1 \in Nat /\ LatestLeaf(tree) + 1 \in Nat
         /\ Len(Hashed(tree)) = Recalculated(tree) + 1
         /\ Len(Listed(tree)) = LatestLeaf(tree) + 1
         /\ \A k \in 1..Len(Hashed(tree)) : Hashed(tree)[k] = Listed(tree)[k]
         /\ Len(Listed(tree)) <= TwoTo[TreeHeight] /\ TwoTo[TreeHeight] \in Nat
<1> DEFINE top == LatestLeaf(tree)
           r   == Recalculated(tree)
<1>1. top \in Int /\ top >= -1 /\ r \in Int /\ r >= -1 /\ r <= top
      /\ top < Held(tree) /\ Held(tree) \in Nat /\ Held(tree) <= TwoTo[TreeHeight]
      /\ TwoTo[TreeHeight] \in Nat
  BY SerialFacts DEF Tracking, InnerSerial, Mirror, TreeSerial
<1> HIDE DEF top, r
<1>2. r + 1 \in Nat /\ top + 1 \in Nat
  BY <1>1
<1>3. /\ Len(Hashed(tree)) = r + 1 /\ \A k \in 1..(r + 1) : Hashed(tree)[k] = Commitment(k - 1)
      /\ Len(Listed(tree)) = top + 1
      /\ \A k \in 1..(top + 1) : Listed(tree)[k] = Commitment(k - 1)
  BY <1>2, CommitmentsOf DEF Hashed, Listed, top, r
<1> QED BY <1>1, <1>2, <1>3 DEF top, r

\* Inner nodes that are not touched stay what they are.
LEMMA SameInnerKeeps ==
  ASSUME NEW h \in Nat, h > 0, NEW old, NEW new, SameInner(h, old, new), NEW a, NEW b,
         Len(a) \in Nat
  PROVE  /\ PartReference(h, old, a, b) => PartReference(h, new, a, b)
         /\ InnerReference(h, old, a) => InnerReference(h, new, a)
<1>1. PartReference(h, old, a, b) => PartReference(h, new, a, b)
  BY DEF PartReference, SameInner
<1>2. ASSUME InnerReference(h, old, a)
      PROVE  InnerReference(h, new, a)
  <2>1. ASSUME NEW l \in 1..h, NEW i \in Columns(h, l)
        PROVE  /\ i <= RightShift(Len(a) - 1, l) => Place(h, l, i) \in DOMAIN new
               /\ Place(h, l, i) \in DOMAIN new =>
                     new[Place(h, l, i)].hash.term = ReferenceRow(h, a)[l][i]
    BY <1>2 DEF InnerReference, SameInner
  <2>2. ASSUME Len(a) > 0, Len(a) < TwoTo[h]
        PROVE  new[0].hash = ReferenceRoot(h, a)
    <3>1. 0 \in DOMAIN old
      <4>1. Len(a) <= TwoTo[h]
        BY <2>2, TwoToIsLarge
      <4> QED BY <1>2, <2>2, <4>1, InnerReferenceHasRoot
    <3>2. Place(h, h, 0) = 0 /\ h \in 1..h /\ 0 \in Columns(h, h)
      <4>1. h - h = 0
        OBVIOUS
      <4> QED BY <4>1, TwoToZero DEF Place, Columns
    <3>3. new[0] = old[0]
      BY <3>1, <3>2 DEF SameInner
    <3> QED BY <1>2, <2>2, <3>3 DEF InnerReference
  <2> QED BY <2>1, <2>2 DEF InnerReference
<1> QED BY <1>1, <1>2

\* Nothing on its way: nothing queued, scheduled or notified.
LEMMA PendingEmpty ==
  ASSUME Serial, IInv, Pending = <<>>
  PROVE  Handler.queue = <<>> /\ ready = <<>> /\ wire = <<>>
<1> DEFINE q == Handler.queue
<1>1. q \in Seq(Nat) /\ ready \in Seq(Nat) /\ wire \in Seq(Nat) /\ q \o ready \in Seq(Nat)
  BY PendingType, ConcatProperties
<1>2. Len(q \o ready \o wire) = Len(q) + Len(ready) + Len(wire)
  BY <1>1, ConcatProperties
<1>3. Len(q \o ready \o wire) = 0
  BY DEF Pending
<1>4. Len(q) \in Nat /\ Len(ready) \in Nat /\ Len(wire) \in Nat
  BY <1>1
<1> HIDE DEF q
<1>5. Len(q) = 0 /\ Len(ready) = 0 /\ Len(wire) = 0
  BY <1>2, <1>3, <1>4
<1> QED BY <1>1, <1>5, EmptySeq DEF q

\* The next leaf to insert is the one after latestLeaf, and the document is there.
LEMMA NextLeaf ==
  ASSUME Steady, IInv, Mirror, Tracking, Inserting(Handler, tree),
         Handler.pc # "checkChainLogs"
  PROVE  /\ tree.exists /\ Head(Handler.queue) = LatestLeaf(tree) + 1
         /\ Pending \in Seq(Nat) /\ Pending # <<>> /\ Pending[1] = Head(Handler.queue)
         /\ Tail(Pending) = Tail(Handler.queue) \o ready \o wire
<1> DEFINE q == Handler.queue
<1>1. q \in Seq(Nat) /\ q # <<>> /\ ready \in Seq(Nat) /\ wire \in Seq(Nat)
      /\ Pending \in Seq(Nat)
  BY PendingType DEF Steady, Inserting
<1> HIDE DEF q
<1>2. /\ q \o ready \o wire # <<>>
      /\ (q \o ready \o wire)[1] = Head(q)
      /\ Tail(q \o ready \o wire) = Tail(q) \o ready \o wire
  <2>1. q \in Seq(Nat) /\ q # <<>> /\ ready \in Seq(Nat) /\ wire \in Seq(Nat)
    BY <1>1
  <2> QED BY SMTT(30), <2>1, QueueFirst
<1>3. Pending = q \o ready \o wire
  BY DEF Pending, q
<1>4. Pending # <<>> /\ Pending[1] = Head(q) /\ Tail(Pending) = Tail(q) \o ready \o wire
  BY <1>2, <1>3, Zenon
<1>5. tree.exists
  BY <1>4 DEF Tracking, Queued
<1>6. Pending[1] = LatestLeaf(tree) + 1
  <2>1. 1 \in 1..Len(Pending) /\ LatestLeaf(tree) \in Int
    BY <1>1, <1>4, SerialFacts
  <2>2. Consecutive(Pending, LatestLeaf(tree) + 1)
    BY <1>5 DEF Tracking, Queued
  <2>3. Pending[1] = (LatestLeaf(tree) + 1) + 1 - 1
    BY <2>1, <2>2 DEF Consecutive
  <2> QED BY <2>1, <2>3
<1> QED BY <1>1, <1>4, <1>5, <1>6 DEF q

LEMMA ConsecutiveTail ==
  ASSUME NEW s \in Seq(Nat), s # <<>>, NEW n \in Nat, Consecutive(s, n)
  PROVE  Consecutive(Tail(s), n + 1) /\ Len(Tail(s)) = Len(s) - 1
<1>1. /\ Len(s) \in Nat /\ Len(s) > 0 /\ Len(Tail(s)) = Len(s) - 1
      /\ \A e \in 1..(Len(s) - 1) : Tail(s)[e] = s[e + 1]
  OBVIOUS
<1>2. ASSUME NEW k \in 1..Len(Tail(s)) PROVE Tail(s)[k] = (n + 1) + k - 1
  <2>1. k + 1 \in 1..Len(s) /\ Tail(s)[k] = s[k + 1]
    BY <1>1
  <2>2. s[k + 1] = n + (k + 1) - 1
    BY <2>1 DEF Consecutive
  <2> QED BY <1>1, <2>1, <2>2
<1> QED BY <1>1, <1>2 DEF Consecutive

LEMMA ConsecutivePrefix ==
  ASSUME NEW s \in Seq(Nat), NEW t \in Seq(Nat), NEW n \in Nat, Consecutive(s \o t, n)
  PROVE  Consecutive(s, n)
<1>1. \A k \in 1..Len(s) : k \in 1..Len(s \o t) /\ (s \o t)[k] = s[k]
  OBVIOUS
<1> QED BY <1>1 DEF Consecutive

LEMMA ConsecutiveAppended ==
  ASSUME NEW s \in Seq(Nat), NEW n \in Nat, Consecutive(s, n), NEW len, n + Len(s) = len
  PROVE  /\ Consecutive(s \o <<len>>, n)
         /\ Len(s \o <<len>>) = Len(s) + 1
<1> DEFINE t == s \o <<len>>
<1>1. /\ Len(s) \in Nat /\ Len(t) = Len(s) + 1 /\ len \in Nat
      /\ \A k \in 1..Len(s) : t[k] = s[k]
      /\ t[Len(s) + 1] = len
  OBVIOUS
<1> HIDE DEF t
<1>2. ASSUME NEW k \in 1..Len(t) PROVE t[k] = n + k - 1
  <2>1. CASE k \in 1..Len(s)
    BY <1>1, <2>1 DEF Consecutive
  <2>2. CASE k \notin 1..Len(s)
    <3>1. k = Len(s) + 1
      BY <1>1, <2>2
    <3> QED BY <1>1, <3>1
  <2> QED BY <2>1, <2>2
<1> QED BY <1>1, <1>2 DEF Consecutive, t

---------------------------------------------------------------------------

LEMMA QueuedKept ==
  ASSUME Steady, IInv, Mirror, Tracking,
         tree'.exists <=> tree.exists, LatestLeaf(tree') = LatestLeaf(tree),
         Len(chain') = Len(chain), listeners' = listeners, Pending' = Pending,
         Handler.pc # "checkChainLogs", Handler'.pc # "checkChainLogs",
         (Handler'.op \in {"track", "restart"} /\ Handler'.queue # <<>>)
            => (Handler.op \in {"track", "restart"} /\ Handler.queue # <<>>)
  PROVE  Queued'
BY DEF Tracking, Queued

\* A step of updateTree that writes nothing.
LEMMA UpdateTreeReads ==
  ASSUME Steady, IInv, Mirror, Tracking, phase # "down",
         UNCHANGED <<chain, tree, listeners, wire, ready, phase>>,
         Handler = Idle \/ Handler.op = "getRoot",
         Handler.queue = <<>>, Handler'.queue = <<>>,
         Handler' = Idle \/ Handler'.op = "getRoot",
         Handler.pc \in {"idle", "leafRange", "findTree", "findNodes"},
         Handler'.pc \in {"idle", "leafRange", "findTree", "findNodes", "putNodes",
                          "putRecalculation"},
         Handler'.pc \in {"findNodes", "putNodes", "putRecalculation"} =>
            InnerReference(TreeHeight, WriteNodes(tree.nodes, Handler'.plan.writes),
                           Listed(tree)),
         Handler'.pc = "putRecalculation" => Handler'.plan.writes = <<>>
  PROVE  Tracking'
<1>1. Handler.op \in {"none", "getRoot"} /\ Handler'.op \in {"none", "getRoot"}
  BY DEF Idle
<1>2. StaysTracked'
  BY <1>1 DEF Tracking, StaysTracked
<1>3. Pending' = Pending
  BY DEF Pending
<1>4. Queued'
  BY <1>1, <1>3, QueuedKept
<1>5. LeafBehind'
  BY <1>1 DEF Tracking, LeafBehind
<1>6. InnerSerial(Handler', tree)
  BY DEF Tracking, InnerSerial
<1>7. InnerSerial(Handler', tree')
  BY <1>6
<1> QED BY <1>2, <1>4, <1>5, <1>7 DEF Tracking

LEMMA UpdateTreeFindTracks ==
  ASSUME Steady, IInv, Mirror, Tracking, NEW p \in Procs, UpdateTreeFind(p)
  PROVE  Tracking'
<1> DEFINE h == [Idle EXCEPT !.op = "getRoot", !.pc = "leafRange",
                             !.from = FromLeaf, !.cursor = FromLeaf,
                             !.to = tree.latestLeaf.leafIndex,
                             !.frontier = tree.latestRecalculation.frontier]
<1>1. /\ phase # "down" /\ Handler = Idle
      /\ UNCHANGED <<chain, tree, listeners, wire, ready, phase>>
      /\ proc' = [proc EXCEPT ![p] = h]
  BY TheHandler DEF UpdateTreeFind, Request, Steady
<1>2. h.op = "getRoot" /\ h.pc = "leafRange" /\ h.queue = <<>>
      /\ Idle.pc = "idle" /\ Idle.queue = <<>>
  BY DEF Idle
<1> HIDE DEF h
<1>3. Handler' = h
  BY <1>1, HandlerBecomes DEF Steady
<1> QED BY <1>1, <1>2, <1>3, UpdateTreeReads

LEMMA LeafRangeTracks ==
  ASSUME Steady, IInv, Mirror, Tracking, NEW p \in Procs, LeafRange(p)
  PROVE  Tracking'
<1> DEFINE node == LeafIndexToNodeIndex(tree.treeHeight, Handler.cursor)
           found == LeavesOfSegment(tree.nodes, Handler.cursor, Handler.to)
           next == NextCursor(Handler.cursor, found)
           h    == [Handler EXCEPT !.leaves = @ \o found, !.cursor = next,
                                   !.pc = IF next > Handler.to THEN "findTree"
                                                               ELSE "leafRange"]
<1>1. /\ p = Only /\ proc[p] = Handler /\ DOMAIN Handler = DOMAIN Idle
      /\ Handler.pc = "leafRange" /\ phase # "down"
      /\ UNCHANGED <<chain, tree, listeners, wire, ready, phase>>
  BY TheHandler DEF LeafRange, Steady
<1>2. Handler.op = "getRoot" /\ Handler.queue = <<>>
  BY <1>1 DEF Mirror, HandlerSerial, Ranging
<1>3. CASE SegmentFound(node)
  <2>1. proc' = [proc EXCEPT ![p] = h]
    <3>1. proc' = [proc EXCEPT ![p].leaves = @ \o found, ![p].cursor = next,
                               ![p].pc = IF next > Handler.to THEN "findTree"
                                                              ELSE "leafRange"]
      BY <1>1, <1>3 DEF LeafRange
    <3> HIDE DEF found, next
    <3> QED BY <1>1, <3>1
  <2>2. h.pc \in {"findTree", "leafRange"} /\ h.op = "getRoot" /\ h.queue = <<>>
    BY <1>1, <1>2 DEF Idle
  <2> HIDE DEF h
  <2>3. Handler' = h
    BY <2>1, HandlerBecomes DEF Steady
  <2> QED BY <1>1, <1>2, <2>2, <2>3, UpdateTreeReads
<1>4. CASE ~SegmentFound(node)
  <2>1. Handler' = Idle
    BY <1>1, <1>4, HandlerEnds DEF LeafRange, Steady
  <2>2. Idle.pc = "idle" /\ Idle.queue = <<>>
    BY DEF Idle
  <2> QED BY <1>1, <1>2, <2>1, <2>2, UpdateTreeReads
<1> QED BY <1>3, <1>4

\* The plan completes the tree, whatever an earlier one has left.
LEMMA FindTreeTracks ==
  ASSUME Steady, IInv, Mirror, Tracking, NEW p \in Procs, FindTree(p)
  PROVE  Tracking'
<1> DEFINE writes == Handler'.plan.writes
           a == Hashed(tree)
           b == Listed(tree)
<1>1. UNCHANGED <<chain, tree, listeners, wire, ready, phase>> /\ phase # "down"
  BY TheHandler DEF FindTree, Steady
<1>2. /\ Handler.pc = "findTree" /\ Handler.queue = <<>> /\ Handler.op = "getRoot"
      /\ tree.exists /\ Recalculated(tree) < LatestLeaf(tree)
      /\ Handler'.op = "getRoot" /\ Handler'.queue = <<>>
      /\ Handler'.pc = IF writes # <<>> THEN "findNodes" ELSE "putRecalculation"
      /\ IsSequence(writes) /\ AllReference(writes, TreeHeight, b)
      /\ CoversPaths(writes, TreeHeight, Recalculated(tree) + 1, LatestLeaf(tree))
  BY PlanOfDocument DEF Steady, Listed
<1> HIDE DEF writes
<1>3. TreeHeight \in Nat /\ TreeHeight > 0 /\ Len(writes) \in Nat
  BY <1>2, SerialFacts, LenOfSequence
<1>4. /\ LatestLeaf(tree) \in Int /\ Recalculated(tree) \in Int
      /\ Len(a) \in Nat /\ Len(b) \in Nat /\ Len(b) <= TwoTo[TreeHeight]
      /\ Len(a) = Recalculated(tree) + 1 /\ Len(b) = LatestLeaf(tree) + 1
      /\ \A k \in 1..Len(a) : a[k] = b[k]
  BY TrackingFacts
<1>5. PartReference(TreeHeight, tree.nodes, a, b)
  BY DEF Tracking, InnerSerial
<1> HIDE DEF a, b
<1>6. Len(a) < Len(b) /\ Len(b) - 1 = LatestLeaf(tree)
  BY <1>2, <1>4
<1>7. CoversPaths(writes, TreeHeight, Len(a), Len(b) - 1)
  BY <1>2, <1>4, <1>6
<1>8. InnerReference(TreeHeight, WriteNodes(tree.nodes, writes), b)
  BY <1>2, <1>3, <1>4, <1>5, <1>6, <1>7, WritingCompletes
<1> QED BY <1>1, <1>2, <1>8, UpdateTreeReads DEF writes, b

LEMMA FindNodesTracks ==
  ASSUME Steady, IInv, Mirror, Tracking, NEW p \in Procs, FindNodes(p)
  PROVE  Tracking'
<1> DEFINE write == Head(Handler.plan.writes)
           h == [Handler EXCEPT !.pc = "putNodes",
                                !.snap = SetNode(tree.nodes, write.index,
                                                 InnerNode(write.hash))]
<1>1. /\ proc[p] = Handler /\ DOMAIN Handler = DOMAIN Idle
      /\ Handler.pc = "findNodes" /\ phase # "down"
      /\ UNCHANGED <<chain, tree, listeners, wire, ready, phase>>
  BY TheHandler DEF FindNodes, Steady
<1>2. Handler.op = "getRoot" /\ Handler.queue = <<>>
      /\ InnerReference(TreeHeight, WriteNodes(tree.nodes, Handler.plan.writes), Listed(tree))
  BY <1>1 DEF Mirror, HandlerSerial, Writing, Tracking, InnerSerial
<1>3. CASE SegmentFound(write.index)
  <2>1. proc' = [proc EXCEPT ![p] = h]
    BY <1>1, <1>3 DEF FindNodes
  <2>2. h.pc = "putNodes" /\ h.op = "getRoot" /\ h.queue = <<>> /\ h.plan = Handler.plan
    BY <1>1, <1>2 DEF Idle
  <2> HIDE DEF h
  <2>3. Handler' = h
    BY <2>1, HandlerBecomes DEF Steady
  <2> QED BY <1>1, <1>2, <2>2, <2>3, UpdateTreeReads
<1>4. CASE ~SegmentFound(write.index)
  <2>1. Handler' = Idle
    BY <1>1, <1>4, HandlerEnds DEF FindNodes, Steady
  <2>2. Idle.pc = "idle" /\ Idle.queue = <<>>
    BY DEF Idle
  <2> QED BY <1>1, <1>2, <2>1, <2>2, UpdateTreeReads
<1> QED BY <1>3, <1>4

LEMMA PutNodesTracks ==
  ASSUME Steady, IInv, Mirror, Tracking, NEW p \in Procs, PutNodes(p)
  PROVE  Tracking'
<1> DEFINE writes == Handler.plan.writes
           nodes == tree.nodes
           a == Hashed(tree)
           b == Listed(tree)
<1>1. /\ phase # "down" /\ UNCHANGED <<chain, listeners, wire, ready, phase>>
  BY TheHandler DEF PutNodes, Steady
<1>2. /\ Handler.pc = "putNodes" /\ Writing(Handler, tree) /\ tree.exists
      /\ writes # <<>> /\ ReferenceWrite(Head(writes), TreeHeight, b)
      /\ Handler'.pc = IF Tail(writes) # <<>> THEN "findNodes" ELSE "putRecalculation"
      /\ Handler'.op = "getRoot" /\ Handler'.queue = <<>>
      /\ Handler'.plan.writes = Tail(writes)
      /\ tree'.nodes = SetNode(nodes, Head(writes).index, InnerNode(Head(writes).hash))
      /\ tree'.exists /\ tree'.active = tree.active /\ tree'.latestLeaf = tree.latestLeaf
      /\ tree'.latestRecalculation = tree.latestRecalculation
      /\ Held(tree') = Held(tree)
  BY PutNodesStores DEF Steady, Listed
<1>3. /\ Handler.op = "getRoot" /\ Handler.queue = <<>> /\ IsSequence(writes)
      /\ Recalculated(tree) < LatestLeaf(tree)
  BY <1>2 DEF Writing
<1>4. /\ LatestLeaf(tree') = LatestLeaf(tree) /\ Recalculated(tree') = Recalculated(tree)
      /\ Hashed(tree') = a /\ Listed(tree') = b
  BY <1>2 DEF LatestLeaf, Recalculated, Hashed, Listed
<1>5. StaysTracked'
  BY <1>2, <1>3 DEF Tracking, StaysTracked
<1>6. Queued'
  <2>1. Pending' = Pending
    BY <1>1, <1>2, <1>3 DEF Pending
  <2> QED BY <1>1, <1>2, <1>3, <1>4, <2>1, QueuedKept
<1>7. LeafBehind'
  BY <1>1, <1>2, <1>3, <1>4 DEF Tracking, LeafBehind
<1>8. WriteNodes(tree'.nodes, Tail(writes)) = WriteNodes(nodes, writes)
  <2> HIDE DEF writes, nodes
  <2> QED BY <1>2, <1>3, WriteFirst
<1>9. InnerReference(TreeHeight, WriteNodes(nodes, writes), b)
  BY <1>2 DEF Tracking, InnerSerial
<1>10. PartReference(TreeHeight, tree'.nodes, a, b)
  <2>1. /\ LatestLeaf(tree) \in Int /\ Recalculated(tree) \in Int
        /\ Len(a) \in Nat /\ Len(b) \in Nat /\ Len(b) <= TwoTo[TreeHeight]
        /\ Len(a) = Recalculated(tree) + 1 /\ Len(b) = LatestLeaf(tree) + 1
        /\ \A k \in 1..Len(a) : a[k] = b[k]
    BY TrackingFacts
  <2>2. PartReference(TreeHeight, nodes, a, b)
    BY DEF Tracking, InnerSerial
  <2>3. TreeHeight \in Nat
    BY SerialFacts
  <2> DEFINE w == Head(writes)
  <2>4. ReferenceWrite(w, TreeHeight, b)
        /\ tree'.nodes = SetNode(nodes, w.index, InnerNode(w.hash))
    BY <1>2
  <2> HIDE DEF a, b, nodes, w
  <2>5. Len(a) < Len(b)
    BY <1>3, <2>1
  <2> QED BY <2>1, <2>2, <2>3, <2>4, <2>5, PartWrite
<1>11. InnerSerial(Handler', tree')
  <2>1. Recalculated(tree) <= LatestLeaf(tree) /\ Recalculated(tree) # LatestLeaf(tree)
    BY <1>3, SerialFacts
  <2> HIDE DEF writes, nodes, a, b
  <2> QED BY <1>2, <1>4, <1>8, <1>9, <1>10, <2>1 DEF InnerSerial
<1> QED BY <1>5, <1>6, <1>7, <1>11 DEF Tracking

LEMMA PutRecalculationTracks ==
  ASSUME Steady, IInv, Mirror, Tracking, NEW p \in Procs, PutRecalculation(p)
  PROVE  Tracking'
<1> DEFINE b == Listed(tree)
<1>1. /\ phase # "down" /\ UNCHANGED <<chain, listeners, wire, ready, phase>>
  BY TheHandler DEF PutRecalculation, Steady
<1>2. /\ Handler.pc = "putRecalculation" /\ Writing(Handler, tree) /\ tree.exists
      /\ Handler' = Idle
      /\ tree'.nodes = tree.nodes /\ tree'.exists /\ tree'.active = tree.active
      /\ Held(tree') = Held(tree) /\ LatestLeaf(tree') = LatestLeaf(tree)
      /\ Recalculated(tree') = LatestLeaf(tree)
  BY PutRecalculationStores DEF Steady
<1>3. Handler.op = "getRoot" /\ Handler.queue = <<>>
      /\ Idle.op = "none" /\ Idle.pc = "idle" /\ Idle.queue = <<>>
  BY <1>2 DEF Writing, Idle
<1>4. Hashed(tree') = b /\ Listed(tree') = b
  BY <1>2 DEF Hashed, Listed
<1>5. StaysTracked'
  BY <1>2, <1>3 DEF Tracking, StaysTracked
<1>6. Queued'
  <2>1. Pending' = Pending
    BY <1>1, <1>2, <1>3 DEF Pending
  <2> QED BY <1>1, <1>2, <1>3, <2>1, QueuedKept
<1>7. LeafBehind'
  BY <1>1, <1>2, <1>3 DEF Tracking, LeafBehind
<1>8. InnerReference(TreeHeight, tree.nodes, b)
  <2>1. InnerReference(TreeHeight, WriteNodes(tree.nodes, <<>>), b)
    BY <1>2 DEF Tracking, InnerSerial
  <2> QED BY <2>1, WriteNothing
<1>9. PartReference(TreeHeight, tree.nodes, b, b)
  <2>1. Len(b) \in Nat /\ TreeHeight \in Nat
    BY TrackingFacts, SerialFacts
  <2> QED BY <1>8, <2>1, ReferenceIsPart
<1> HIDE DEF b
<1>10. InnerSerial(Handler', tree')
  BY <1>2, <1>3, <1>4, <1>8, <1>9, SerialFacts DEF InnerSerial
<1> QED BY <1>5, <1>6, <1>7, <1>10 DEF Tracking

LEMMA FindSegmentTracks ==
  ASSUME Steady, IInv, Mirror, Tracking, NEW p \in Procs, FindSegment(p)
  PROVE  Tracking'
<1>1. /\ Handler.pc = "findSegment" /\ phase # "down" /\ Inserting(Handler, tree)
      /\ UNCHANGED <<chain, tree, listeners, wire, ready, phase>>
  BY TheHandler DEF FindSegment, Steady, Mirror, HandlerSerial
<1>2. tree.exists
  BY <1>1, NextLeaf
<1>3. /\ Handler'.pc = "putSegment" /\ Handler'.op = Handler.op
      /\ Handler'.queue = Handler.queue
  BY <1>2, FindSegmentFinds DEF Steady
<1>4. StaysTracked'
  BY <1>1, <1>3 DEF Tracking, StaysTracked
<1>5. Queued'
  <2>1. Pending' = Pending
    BY <1>1, <1>3 DEF Pending
  <2> QED BY <1>1, <1>3, <2>1, QueuedKept
<1>6. LeafBehind'
  BY <1>1, <1>3 DEF Tracking, LeafBehind
<1>7. InnerSerial(Handler', tree')
  BY <1>1, <1>3 DEF Tracking, InnerSerial
<1> QED BY <1>4, <1>5, <1>6, <1>7 DEF Tracking

\* The leaf after latestLeaf is stored, or is already.
LEMMA PutSegmentTracks ==
  ASSUME Steady, IInv, Mirror, Tracking, NEW p \in Procs, PutSegment(p)
  PROVE  Tracking'
<1> DEFINE x == Head(Handler.queue)
           n == Held(tree)
           m == IF x < n THEN n ELSE n + 1
<1>1. /\ phase # "down" /\ UNCHANGED <<chain, listeners, wire, ready, phase>>
  BY TheHandler DEF PutSegment, Steady
<1>2. /\ Handler.pc = "putSegment" /\ Inserting(Handler, tree) /\ tree.exists
      /\ Handler'.pc = "putLatestLeaf" /\ Handler'.op = Handler.op
      /\ Handler'.queue = Handler.queue
      /\ tree'.exists /\ tree'.active = tree.active /\ tree'.latestLeaf = tree.latestLeaf
      /\ tree'.latestRecalculation = tree.latestRecalculation
      /\ n \in Nat /\ Held(tree') = m
      /\ SameInner(TreeHeight, tree.nodes, tree'.nodes)
  BY PutSegmentStores DEF Steady
<1>3. x = LatestLeaf(tree) + 1
  BY <1>2, NextLeaf
<1>4. /\ LatestLeaf(tree') = LatestLeaf(tree) /\ Recalculated(tree') = Recalculated(tree)
      /\ Hashed(tree') = Hashed(tree) /\ Listed(tree') = Listed(tree)
  BY <1>2 DEF LatestLeaf, Recalculated, Hashed, Listed
<1>5. StaysTracked'
  BY <1>2 DEF Tracking, StaysTracked
<1>6. Queued'
  <2>1. Pending' = Pending
    BY <1>1, <1>2 DEF Pending
  <2> QED BY <1>1, <1>2, <1>4, <2>1, QueuedKept
<1>7. LeafBehind'
  <2>1. n = LatestLeaf(tree) + 1 \/ n = LatestLeaf(tree) + 2
    BY DEF Tracking, LeafBehind
  <2>2. LatestLeaf(tree) \in Int
    BY SerialFacts
  <2> HIDE DEF n, x
  <2>3. m = LatestLeaf(tree) + 2
    BY <1>3, <2>1, <2>2
  <2> HIDE DEF m
  <2> QED BY <1>2, <1>4, <2>3 DEF LeafBehind
<1>8. InnerSerial(Handler', tree')
  <2> DEFINE a == Hashed(tree)
             b == Listed(tree)
  <2>1. TreeHeight \in Nat /\ TreeHeight > 0 /\ Len(a) \in Nat /\ Len(b) \in Nat
    BY SerialFacts, TrackingFacts
  <2>2. /\ Recalculated(tree) <= LatestLeaf(tree)
        /\ PartReference(TreeHeight, tree.nodes, a, b)
        /\ Recalculated(tree) = LatestLeaf(tree)
              => InnerReference(TreeHeight, tree.nodes, b)
    BY DEF Tracking, InnerSerial
  <2> HIDE DEF a, b
  <2>3. PartReference(TreeHeight, tree'.nodes, a, b)
    BY <1>2, <2>1, <2>2, SameInnerKeeps
  <2>4. Recalculated(tree) = LatestLeaf(tree) => InnerReference(TreeHeight, tree'.nodes, b)
    BY <1>2, <2>1, <2>2, SameInnerKeeps
  <2> QED BY <1>2, <1>4, <2>2, <2>3, <2>4 DEF InnerSerial, a, b
<1> QED BY <1>5, <1>6, <1>7, <1>8 DEF Tracking

LEMMA AfterLeaf ==
  ASSUME Serial, IInv, Mirror, NEW p \in Procs, NEW rest, InsertRest(p, rest)
  PROVE  /\ Handler'.queue = rest
         /\ rest = <<>> => Handler' = Idle
         /\ rest # <<>> => /\ Handler'.op = Handler.op /\ Handler'.pc = "findSegment"
                          /\ UNCHANGED <<listeners, phase>>
         /\ Handler.op \notin {"track", "restart"} => UNCHANGED <<listeners, phase>>
         /\ rest = <<>> /\ Handler.op \in {"track", "restart"} => phase' = "serving"
<1>1. p = Only /\ proc[p] = Handler
  BY TheHandler
<1>2. CASE rest = <<>>
  <2>1. LoopDone(p) /\ End(p)
    BY <1>1, <1>2 DEF InsertRest, LoopDone, Subscribe
  <2>2. Handler' = Idle /\ Idle.queue = <<>>
    BY <2>1, HandlerEnds DEF Idle
  <2> QED BY <1>1, <1>2, <2>1, <2>2 DEF LoopDone, Subscribe, Serial
<1>3. CASE rest # <<>>
  <2> DEFINE h == [Idle EXCEPT !.op = Handler.op, !.pc = "findSegment", !.queue = rest]
  <2>1. proc' = [proc EXCEPT ![p] = h] /\ UNCHANGED <<listeners, phase>>
    BY <1>1, <1>3 DEF InsertRest
  <2>2. h.op = Handler.op /\ h.pc = "findSegment" /\ h.queue = rest
    BY DEF Idle
  <2> HIDE DEF h
  <2>3. Handler' = h
    BY <2>1, HandlerBecomes
  <2> QED BY <1>3, <2>1, <2>2, <2>3
<1> QED BY <1>2, <1>3

\* latestLeaf is the leaf stored last again.
LEMMA PutLatestLeafTracks ==
  ASSUME Steady, IInv, Mirror, Tracking, NEW p \in Procs, PutLatestLeaf(p)
  PROVE  Tracking'
<1> DEFINE x == Head(Handler.queue)
           rest == Tail(Handler.queue)
           top == LatestLeaf(tree)
<1>1. /\ p = Only /\ proc[p] = Handler
      /\ Handler.pc = "putLatestLeaf" /\ UNCHANGED <<chain, wire, ready>>
  BY TheHandler DEF PutLatestLeaf, Steady
<1>2. Inserting(Handler, tree) /\ tree.exists /\ x < Held(tree)
  BY <1>1 DEF Mirror, HandlerSerial
<1>3. /\ x = top + 1 /\ Pending \in Seq(Nat) /\ Pending # <<>>
      /\ Tail(Pending) = rest \o ready \o wire
  BY <1>1, <1>2, NextLeaf
<1>4. tree' = [tree EXCEPT !.latestLeaf = LeafLog(x)] /\ InsertRest(p, rest)
  BY <1>1, <1>2 DEF PutLatestLeaf
<1>5. /\ tree'.nodes = tree.nodes /\ tree'.exists /\ tree'.active = tree.active
      /\ tree'.latestRecalculation = tree.latestRecalculation
      /\ LatestLeaf(tree') = x
  BY <1>2, <1>4 DEF IInv, TreeOK, NoTree, EmptyTree, LeafLog, LatestLeaf
<1>6. /\ Held(tree') = Held(tree) /\ Recalculated(tree') = Recalculated(tree)
      /\ Hashed(tree') = Hashed(tree) /\ Listed(tree') = Commitments(x + 1)
  BY <1>5 DEF Held, Recalculated, Hashed, Listed
<1>7. /\ Handler'.queue = rest
      /\ rest = <<>> => Handler' = Idle
      /\ rest # <<>> => /\ Handler'.op = Handler.op /\ Handler'.pc = "findSegment"
                       /\ UNCHANGED <<listeners, phase>>
      /\ Handler.op \notin {"track", "restart"} => UNCHANGED <<listeners, phase>>
  BY <1>4, AfterLeaf DEF Steady
<1>8. top \in Int /\ top >= -1 /\ Recalculated(tree) <= top /\ Recalculated(tree) \in Int
  BY TrackingFacts
<1>9. Handler'.pc \in {"idle", "findSegment"} /\ Handler'.op \in {"none", Handler.op}
  BY <1>7 DEF Idle
<1> HIDE DEF x, rest
<1>10. StaysTracked'
  BY <1>2, <1>5, <1>9 DEF Tracking, StaysTracked, Inserting
<1>11. Queued'
  <2>1. Pending' = Tail(Pending)
    BY <1>1, <1>3, <1>7 DEF Pending
  <2>2. Consecutive(Pending, top + 1) /\ top + 1 \in Nat
    BY <1>1, <1>2, <1>8 DEF Tracking, Queued
  <2>3. Consecutive(Pending', x + 1) /\ Len(Pending') = Len(Pending) - 1
    BY <1>3, <2>1, <2>2, ConsecutiveTail
  <2>4. Len(Pending) \in Nat /\ Len(chain) \in Nat
    BY <1>3, SerialFacts
  <2>5. (listeners' = 1 \/ Handler'.op \in {"track", "restart"})
           => top + 1 + Len(Pending) = Len(chain)
    <3>1. Handler.queue # <<>>
      BY <1>2 DEF Inserting
    <3>2. (listeners' = 1 \/ Handler'.op \in {"track", "restart"})
             => listeners = 1 \/ Handler.op \in {"track", "restart"}
      BY <1>7, <1>9
    <3> QED BY <3>1, <3>2 DEF Tracking, Queued
  <2>6. (listeners' = 1 \/ Handler'.op \in {"track", "restart"})
           => x + 1 + Len(Pending') = Len(chain)
    <3>1. ASSUME NEW k \in Nat, NEW j, j = k - 1 PROVE x + 1 + j = top + 1 + k
      BY <1>3, <1>8, <3>1
    <3>2. x + 1 + Len(Pending') = top + 1 + Len(Pending)
      BY <2>3, <2>4, <3>1
    <3> QED BY <2>5, <3>2
  <2> QED BY <1>1, <1>5, <1>9, <2>3, <2>6 DEF Queued
<1>12. LeafBehind'
  <2>1. Held(tree) = top + 1 \/ Held(tree) = top + 2
    BY DEF Tracking, LeafBehind
  <2>2. Held(tree') = LatestLeaf(tree') + 1
    BY <1>2, <1>3, <1>5, <1>6, <1>8, <2>1
  <2> QED BY <2>2 DEF LeafBehind
<1>13. InnerSerial(Handler', tree')
  <2> DEFINE a == Hashed(tree)
             b == Listed(tree)
             c == Commitments(x + 1)
  <2>1. /\ Len(b) = top + 1 /\ x + 1 \in Nat /\ TreeHeight \in Nat
    BY SMTT(30), <1>3, <1>8, TrackingFacts, SerialFacts
  <2>2. Len(c) = x + 1
    BY <2>1, CommitmentsOf
  <2>3. PartReference(TreeHeight, tree.nodes, a, b)
    BY DEF Tracking, InnerSerial
  <2> HIDE DEF a, b, c
  <2>4. Len(b) \in Nat /\ Len(c) \in Nat /\ Len(b) <= Len(c)
    BY <1>3, <1>8, <2>1, <2>2
  <2>5. PartReference(TreeHeight, tree.nodes, a, c)
    BY <2>1, <2>3, <2>4, PartOfMore
  <2>6. Recalculated(tree) < x
    BY <1>3, <1>8
  <2>7. Recalculated(tree) <= x /\ Recalculated(tree) # x
    BY <1>3, <1>8, <2>6
  <2> QED BY <1>5, <1>6, <1>9, <2>5, <2>7 DEF InnerSerial, a, c
<1> QED BY <1>10, <1>11, <1>12, <1>13 DEF Tracking

\* The leaves read are those after latestLeaf; the one that is stored already comes first.
LEMMA CheckChainLogsTracks ==
  ASSUME Steady, IInv, Mirror, Tracking, NEW p \in Procs, CheckChainLogs(p)
  PROVE  Tracking'
<1> DEFINE len == Len(chain)
           from == Handler.from
           rest == [k \in 1..(len - from) |-> from + k - 1]
<1>1. /\ UNCHANGED <<chain, tree, wire, ready>>
  BY DEF CheckChainLogs
<1>2. /\ Handler.pc = "checkChainLogs" /\ phase # "down"
      /\ Handler.op \in {"track", "restart"} /\ Handler.queue = <<>>
      /\ tree.exists /\ tree.active /\ from \in 0..Held(tree)
      /\ InsertRest(p, rest)
  BY LogsRead DEF Steady
<1>3. /\ ready = <<>> /\ from = LatestLeaf(tree) + 1 /\ wire = <<>>
  BY <1>2 DEF Tracking, Queued, Mirror, ListenersSerial, Subscribing
<1>4. len \in Nat /\ from \in Nat /\ from <= len /\ LatestLeaf(tree) \in Int
      /\ Held(tree) \in Nat /\ Held(tree) <= len
  BY <1>2, SerialFacts
<1> HIDE DEF len, from
<1>5. /\ rest \in Seq(Nat) /\ Len(rest) = len - from
      /\ \A k \in 1..Len(rest) : rest[k] = from + k - 1
  BY <1>4
<1> HIDE DEF rest
<1>6. /\ Handler'.queue = rest
      /\ rest = <<>> => Handler' = Idle
      /\ rest # <<>> => Handler'.op = Handler.op /\ Handler'.pc = "findSegment"
  BY <1>2, AfterLeaf DEF Steady
<1>7. Handler'.pc \in {"idle", "findSegment"} /\ Handler'.op \in {"none", Handler.op}
  BY <1>6 DEF Idle
<1>8. StaysTracked'
  BY <1>1, <1>2, <1>7 DEF Tracking, StaysTracked
<1>9. Queued'
  <2>1. Pending' = rest
    <3>1. Pending' = rest \o <<>> \o <<>>
      BY <1>1, <1>3, <1>6 DEF Pending
    <3>2. rest \o <<>> = rest
      BY <1>5, ConcatEmptySeq
    <3> QED BY <3>1, <3>2
  <2>2. Consecutive(rest, LatestLeaf(tree) + 1)
    BY <1>3, <1>5 DEF Consecutive
  <2>3. LatestLeaf(tree) + 1 + Len(rest) = len
    BY <1>3, <1>4, <1>5
  <2> QED BY <1>1, <1>2, <1>7, <2>1, <2>2, <2>3 DEF Queued, len
<1>10. LeafBehind'
  <2>1. CASE Held(tree) = LatestLeaf(tree) + 1
    BY <1>1, <2>1 DEF LeafBehind
  <2>2. CASE Held(tree) # LatestLeaf(tree) + 1
    <3>1. Held(tree) = LatestLeaf(tree) + 2 /\ Handler.op = "restart"
      BY <1>2, <2>2 DEF Tracking, LeafBehind
    <3>2. rest # <<>>
      BY <1>3, <1>4, <1>5, <3>1
    <3> QED BY <1>1, <1>6, <3>1, <3>2 DEF LeafBehind
  <2> QED BY <2>1, <2>2
<1>11. InnerSerial(Handler', tree')
  BY <1>1, <1>7 DEF Tracking, InnerSerial
<1> QED BY <1>8, <1>9, <1>10, <1>11 DEF Tracking

LEMMA TrackFindTracks ==
  ASSUME Steady, IInv, Mirror, Tracking, NEW p \in Procs, TrackFind(p)
  PROVE  Tracking'
<1> DEFINE h == [Idle EXCEPT !.op = "track", !.pc = "trackUpsert"]
<1>1. /\ phase = "serving" /\ Handler = Idle /\ ~(tree.exists /\ tree.active)
      /\ UNCHANGED <<chain, tree, listeners, wire, ready, phase>>
      /\ proc' = [proc EXCEPT ![p] = h]
  BY TheHandler DEF TrackFind, Request, Steady
<1>2. h.op = "track" /\ h.pc = "trackUpsert" /\ h.queue = <<>>
      /\ Idle.pc = "idle" /\ Idle.op = "none" /\ Idle.queue = <<>>
  BY DEF Idle
<1> HIDE DEF h
<1>3. Handler' = h
  BY <1>1, HandlerBecomes DEF Steady
<1>4. ~tree.exists
  BY <1>1 DEF Tracking, StaysTracked
<1>5. StaysTracked'
  BY <1>1, <1>2, <1>3, <1>4 DEF StaysTracked
<1>6. Queued'
  <2>1. Pending' = Pending
    BY <1>1, <1>2, <1>3 DEF Pending
  <2> QED BY <1>1, <1>2, <1>3, <2>1, QueuedKept
<1>7. LeafBehind'
  BY <1>1, <1>2 DEF Tracking, LeafBehind
<1>8. InnerSerial(Handler', tree')
  BY <1>1, <1>2, <1>3 DEF Tracking, InnerSerial
<1> QED BY <1>5, <1>6, <1>7, <1>8 DEF Tracking

\* A document that is made holds nothing, and nothing is on its way to it.
LEMMA TrackUpsertTracks ==
  ASSUME Steady, IInv, Mirror, Tracking, NEW p \in Procs, TrackUpsert(p)
  PROVE  Tracking'
<1> DEFINE h == [Handler EXCEPT !.pc = "checkChainLogs"]
<1>1. /\ Handler.pc = "trackUpsert" /\ DOMAIN Handler = DOMAIN Idle
      /\ UNCHANGED <<chain, listeners, wire, ready, phase>>
      /\ proc' = [proc EXCEPT ![p] = h]
      /\ tree' = [(IF tree.exists THEN tree ELSE EmptyTree)
                      EXCEPT !.treeHeight = TreeHeight, !.active = TRUE]
  BY TheHandler DEF TrackUpsert, Steady
<1>2. Handler.op = "track" /\ Handler.queue = <<>> /\ Handler.from = 0
  BY <1>1 DEF Mirror, HandlerSerial
<1>3. h.op = "track" /\ h.pc = "checkChainLogs" /\ h.queue = <<>> /\ h.from = 0
  BY <1>1, <1>2 DEF Idle
<1> HIDE DEF h
<1>4. Handler' = h
  BY <1>1, HandlerBecomes DEF Steady
<1>5. ~tree.exists /\ tree = NoTree
  BY <1>1 DEF Tracking, StaysTracked, Mirror, TreeSerial
<1>6. /\ tree'.exists /\ tree'.active /\ tree'.nodes = tree.nodes
      /\ tree'.latestLeaf = tree.latestLeaf
      /\ tree'.latestRecalculation = tree.latestRecalculation
      /\ tree.latestLeaf.leafIndex = -1
  BY <1>1, <1>5 DEF NoTree, EmptyTree, NoLeaf
<1>7. /\ Held(tree') = Held(tree) /\ LatestLeaf(tree') = LatestLeaf(tree)
      /\ Recalculated(tree') = Recalculated(tree) /\ LatestLeaf(tree) = -1
      /\ Hashed(tree') = Hashed(tree) /\ Listed(tree') = Listed(tree)
  BY <1>6 DEF Held, LatestLeaf, Recalculated, Hashed, Listed
<1>8. StaysTracked'
  BY <1>3, <1>4, <1>6 DEF StaysTracked
<1>9. Queued'
  <2>1. ready = <<>>
    BY <1>5, PendingEmpty DEF Tracking, Queued, Steady
  <2>2. listeners = 0
    BY <1>2 DEF Mirror, ListenersSerial, Subscribing
  <2> QED BY <1>1, <1>3, <1>4, <1>6, <1>7, <2>1, <2>2 DEF Queued
<1>10. LeafBehind'
  BY <1>1, <1>2, <1>7 DEF Tracking, LeafBehind
<1>11. InnerSerial(Handler', tree')
  BY <1>3, <1>4, <1>6, <1>7 DEF Tracking, InnerSerial
<1> QED BY <1>8, <1>9, <1>10, <1>11 DEF Tracking

\* The logs are read from the block of latestLeaf on, whose number is that of the next leaf.
LEMMA RestartTracks ==
  ASSUME Steady, IInv, Mirror, Tracking, NEW p \in Procs, Restart(p)
  PROVE  Tracking'
<1>1. /\ phase = "down" /\ Handler = Idle
      /\ UNCHANGED <<chain, tree, listeners, wire, ready>>
  BY TheHandler DEF Restart, Steady
<1>2. listeners = 0 /\ ready = <<>> /\ Idle.op = "none" /\ Idle.pc = "idle"
      /\ Idle.queue = <<>>
  BY <1>1 DEF Mirror, ListenersSerial, Idle
<1>3. CASE tree.exists
  <2> DEFINE h == [Idle EXCEPT !.op = "restart", !.pc = "checkChainLogs",
                               !.from = tree.latestLeaf.blockNumber]
  <2>1. proc' = [proc EXCEPT ![p] = h]
    BY <1>1, <1>3 DEF Restart, Tracking, StaysTracked
  <2>2. h.op = "restart" /\ h.pc = "checkChainLogs" /\ h.queue = <<>>
        /\ h.from = tree.latestLeaf.blockNumber
    BY DEF Idle
  <2> HIDE DEF h
  <2>3. Handler' = h
    BY <2>1, HandlerBecomes DEF Steady
  <2>4. h.from = LatestLeaf(tree) + 1
    <3>1. CASE tree.latestLeaf = NoLeaf
      BY <2>2, <3>1 DEF NoLeaf, LatestLeaf
    <3>2. CASE tree.latestLeaf # NoLeaf
      <4>1. /\ LatestLeaf(tree) \in 0..(Len(chain) - 1)
            /\ tree.latestLeaf.blockNumber = chain[LatestLeaf(tree) + 1]
        BY <3>2 DEF IInv, TreeOK, IsLatest, IsLog, Leaves, LatestLeaf
      <4> QED BY <2>2, <4>1, SerialFacts DEF Mirror, ChainSerial
    <3> QED BY <3>1, <3>2
  <2>5. StaysTracked'
    BY <1>1, <2>2, <2>3 DEF Tracking, StaysTracked
  <2>6. Queued'
    BY <1>1, <1>2, <1>3, <2>2, <2>3, <2>4 DEF Queued
  <2>7. LeafBehind'
    BY <1>1, <2>2, <2>3 DEF Tracking, LeafBehind, Idle
  <2>8. InnerSerial(Handler', tree')
    BY <1>1, <2>2, <2>3 DEF Tracking, InnerSerial
  <2> QED BY <2>5, <2>6, <2>7, <2>8 DEF Tracking
<1>4. CASE ~tree.exists
  <2>1. phase' = "serving" /\ Handler' = Handler
    BY <1>1, <1>4 DEF Restart, Handler
  <2>2. Pending' = Pending
    BY <1>1, <2>1 DEF Pending
  <2>3. Held(tree) = LatestLeaf(tree) + 1
    <3>1. tree = NoTree /\ Len(chain) \in Nat
      BY <1>4, SerialFacts DEF Mirror, TreeSerial
    <3>2. Held(tree) = 0
      BY <3>1, NothingHeld
    <3> QED BY <3>1, <3>2 DEF LatestLeaf, NoTree, EmptyTree, NoLeaf
  <2>4. StaysTracked'
    BY <1>1, <2>1 DEF Tracking, StaysTracked
  <2>5. Queued'
    BY <1>1, <1>2, <2>1, <2>2, QueuedKept
  <2>6. LeafBehind'
    BY <1>1, <2>3 DEF LeafBehind
  <2>7. InnerSerial(Handler', tree')
    BY <1>1, <2>1 DEF Tracking
  <2> QED BY <2>4, <2>5, <2>6, <2>7 DEF Tracking
<1> QED BY <1>3, <1>4

LEMMA StartCallbackTracks ==
  ASSUME Steady, IInv, Mirror, Tracking, NEW p \in Procs, StartCallback(p)
  PROVE  Tracking'
<1>1. UNCHANGED <<chain, tree, listeners, wire, phase>>
  BY DEF StartCallback
<1>2. /\ Handler = Idle /\ phase # "down"
      /\ Handler'.op = "event" /\ Handler'.pc = "findSegment"
      /\ Pending' = Pending /\ Pending # <<>>
      /\ Idle.op = "none" /\ Idle.pc = "idle"
  BY StartCallbackTakes DEF Steady, Idle
<1>3. StaysTracked'
  BY <1>1, <1>2 DEF Tracking, StaysTracked
<1>4. Queued'
  BY <1>1, <1>2, QueuedKept
<1>5. LeafBehind'
  BY <1>1, <1>2 DEF Tracking, LeafBehind
<1>6. InnerSerial(Handler', tree')
  BY <1>1, <1>2 DEF Tracking, InnerSerial
<1> QED BY <1>3, <1>4, <1>5, <1>6 DEF Tracking

\* A step that leaves the handler and the document alone.
LEMMA DocumentRests ==
  ASSUME Tracking, UNCHANGED <<tree, phase>>, Handler' = Handler
  PROVE  StaysTracked' /\ LeafBehind' /\ InnerSerial(Handler', tree')
BY DEF Tracking, StaysTracked, LeafBehind

LEMMA DeliverEventTracks ==
  ASSUME Steady, IInv, Mirror, Tracking, DeliverEvent
  PROVE  Tracking'
<1>1. /\ listeners = 1 /\ Handler' = Handler
      /\ UNCHANGED <<chain, tree, listeners, phase>> /\ Pending' = Pending
  BY DeliverEventKeeps DEF Steady
<1>2. Handler.pc # "checkChainLogs"
  BY <1>1 DEF Mirror, ListenersSerial, HandlerSerial, Subscribing
<1>3. Queued'
  BY <1>1, <1>2, QueuedKept
<1> QED BY <1>1, <1>3, DocumentRests DEF Tracking

LEMMA MineTracks ==
  ASSUME Steady, IInv, Mirror, Tracking, Mine(1)
  PROVE  Tracking'
<1> DEFINE len == Len(chain)
           top == LatestLeaf(tree)
<1>1. /\ UNCHANGED <<tree, listeners, ready, phase>> /\ Handler' = Handler
      /\ Handler.op \in {"track", "restart"} => Handler.queue = <<>>
      /\ Len(chain') = len + 1
      /\ listeners = 1 => Pending' = Pending \o <<len>>
      /\ listeners # 1 => Pending' = Pending
  BY MineAppends DEF Steady
<1>2. Queued'
  <2>1. CASE listeners = 1
    <3>1. tree.exists /\ Handler.pc # "checkChainLogs" /\ Handler.op \notin Subscribing
      BY <2>1 DEF Mirror, ListenersSerial, HandlerSerial, Subscribing
    <3>2. Consecutive(Pending, top + 1) /\ top + 1 + Len(Pending) = len
      BY <2>1, <3>1 DEF Tracking, Queued
    <3>3. Pending \in Seq(Nat) /\ top + 1 \in Nat /\ Len(Pending) \in Nat
      BY PendingType, TrackingFacts DEF Steady
    <3> HIDE DEF top, len
    <3>4. Consecutive(Pending', top + 1) /\ Len(Pending') = Len(Pending) + 1
      <4> DEFINE next == top + 1
                 t == Pending \o <<len>>
      <4>1. Consecutive(Pending, next) /\ next + Len(Pending) = len /\ next \in Nat
        BY <3>2, <3>3
      <4>2. Pending' = t
        BY <1>1, <2>1
      <4> HIDE DEF next
      <4>3. Consecutive(t, next) /\ Len(t) = Len(Pending) + 1
        BY <3>3, <4>1, ConsecutiveAppended
      <4> HIDE DEF t
      <4> QED BY <4>2, <4>3 DEF next
    <3>5. ASSUME NEW k \in Nat, top + 1 + k = len PROVE top + 1 + (k + 1) = len + 1
      BY <3>3, <3>5
    <3>6. top + 1 + Len(Pending') = len + 1
      BY <3>2, <3>3, <3>4, <3>5
    <3> QED BY <1>1, <2>1, <3>1, <3>4, <3>6 DEF Queued, Subscribing, top
  <2>2. CASE listeners # 1
    BY <1>1, <2>2 DEF Tracking, Queued
  <2> QED BY <2>1, <2>2
<1> QED BY <1>1, <1>2, DocumentRests DEF Tracking

LEMMA LoseSocketTracks ==
  ASSUME Steady, IInv, Mirror, Tracking, LoseSocket
  PROVE  Tracking'
<1>1. /\ UNCHANGED <<chain, tree, ready, phase>> /\ listeners' = 0
      /\ Handler' = Handler
      /\ Pending' \in Seq(Nat) /\ Pending = Pending' \o wire
      /\ Handler.op \in {"track", "restart"} => Pending' = Pending
  BY LoseSocketLoses DEF Steady
<1>2. wire \in Seq(Nat) /\ LatestLeaf(tree) + 1 \in Nat
  BY PendingType, TrackingFacts DEF Steady
<1>3. ~tree.exists => Pending' = <<>>
  <2>1. SUFFICES ASSUME ~tree.exists PROVE Pending' = <<>>
    OBVIOUS
  <2>2. Handler.queue = <<>> /\ ready = <<>> /\ wire = <<>>
    BY <2>1, PendingEmpty DEF Tracking, Queued, Steady
  <2>3. wire' = <<>>
    BY DEF LoseSocket
  <2> QED BY <1>1, <2>2, <2>3 DEF Pending
<1>4. Consecutive(Pending, LatestLeaf(tree) + 1)
         => Consecutive(Pending', LatestLeaf(tree) + 1)
  BY <1>1, <1>2, ConsecutivePrefix
<1>5. Queued'
  <2>1. CASE Handler.op \in {"track", "restart"}
    <3>1. /\ Pending' = Pending /\ tree' = tree /\ chain' = chain /\ Handler' = Handler
          /\ listeners' = 0 /\ ready' = ready
      BY <1>1, <2>1
    <3> QED BY <3>1 DEF Tracking, Queued
  <2>2. CASE Handler.op \notin {"track", "restart"}
    <3>1. tree' = tree /\ Handler' = Handler /\ listeners' = 0 /\ ready' = ready
      BY <1>1
    <3> QED BY <1>3, <1>4, <2>2, <3>1 DEF Tracking, Queued
  <2> QED BY <2>1, <2>2
<1> QED BY <1>1, <1>5, DocumentRests DEF Tracking

LEMMA CrashTracks ==
  ASSUME Steady, IInv, Mirror, Tracking, Crash
  PROVE  Tracking'
<1>1. /\ UNCHANGED <<chain, tree>>
      /\ phase' = "down" /\ listeners' = 0 /\ wire' = <<>> /\ ready' = <<>>
  BY DEF Crash
<1>2. Handler' = Idle /\ Idle.op = "none" /\ Idle.pc = "idle" /\ Idle.queue = <<>>
  BY OneHandler DEF Crash, Handler, Idle, Steady
<1>3. Pending' = <<>>
  BY <1>1, <1>2 DEF Pending
<1>4. StaysTracked'
  BY <1>1, <1>2 DEF Tracking, StaysTracked
<1>5. Queued'
  <2>1. Consecutive(<<>>, LatestLeaf(tree) + 1)
    BY DEF Consecutive
  <2> QED BY <1>1, <1>2, <1>3, <2>1 DEF Queued
<1>6. LeafBehind'
  BY <1>1 DEF Tracking, LeafBehind
<1>7. InnerSerial(Handler', tree')
  BY <1>1, <1>2 DEF Tracking, InnerSerial
<1> QED BY <1>4, <1>5, <1>6, <1>7 DEF Tracking

LEMMA InitTracking ==
  ASSUME Steady, Init
  PROVE  Tracking
<1>1. /\ chain = <<>> /\ tree = NoTree /\ listeners = 0 /\ wire = <<>> /\ ready = <<>>
      /\ ~tree.exists
  BY DEF Init, NoTree, EmptyTree
<1>2. Handler = Idle /\ Idle.op = "none" /\ Idle.pc = "idle" /\ Idle.queue = <<>>
  BY OneHandler DEF Init, Handler, Idle, Steady
<1>3. Pending = <<>>
  BY <1>1, <1>2 DEF Pending
<1>4. StaysTracked /\ Queued
  BY <1>1, <1>2, <1>3 DEF StaysTracked, Queued
<1>5. LatestLeaf(tree) = -1 /\ Recalculated(tree) = -1 /\ DOMAIN tree.nodes = {}
  BY <1>1 DEF NoTree, EmptyTree, NoLeaf, NoRecalculation, LatestLeaf, Recalculated
<1>6. LeafBehind
  <2>1. Held(tree) = 0
    BY <1>1, NothingHeld
  <2> QED BY <1>5, <2>1 DEF LeafBehind
<1>7. Len(Listed(tree)) = 0 /\ Hashed(tree) = Listed(tree)
  BY <1>5, CommitmentsOf DEF Listed, Hashed
<1>8. InnerReference(TreeHeight, tree.nodes, Listed(tree))
  <2>1. ASSUME NEW l \in 1..TreeHeight, NEW i \in Columns(TreeHeight, l)
        PROVE  ~(i <= RightShift(0 - 1, l))
    <3>1. l \in Nat /\ TwoTo[l] \in Nat \ {0} /\ i \in Nat
      BY HeightAssumption, TwoToIsLarge DEF Columns
    <3>2. -1 = TwoTo[l] * (-1) + (TwoTo[l] - 1)
      BY <3>1
    <3>3. RightShift(-1, l) = -1
      BY <3>1, <3>2, QuotientIs DEF RightShift
    <3> QED BY <3>1, <3>3
  <2> QED BY <1>5, <1>7, <2>1 DEF InnerReference
<1>9. PartReference(TreeHeight, tree.nodes, Hashed(tree), Listed(tree))
  BY <1>7, <1>8, HeightAssumption, ReferenceIsPart
<1>10. InnerSerial(Handler, tree)
  BY <1>2, <1>5, <1>8, <1>9 DEF InnerSerial
<1> QED BY <1>4, <1>6, <1>10 DEF Tracking

LEMMA NextTracking ==
  ASSUME Steady, IInv, Mirror, Tracking, Next
  PROVE  Tracking'
<1>1. ASSUME NEW p \in Procs, StartCallback(p) PROVE Tracking'
  BY <1>1, StartCallbackTracks
<1>2. ASSUME NEW p \in Procs, ClientRequest(p) PROVE Tracking'
  <2>1. ASSUME NEW kind \in {"untrack", "prune"} PROVE ~UntrackFind(p, kind)
    BY DEF UntrackFind, Request, Steady
  <2> QED BY <1>2, <2>1, TrackFindTracks, UpdateTreeFindTracks DEF ClientRequest
<1>3. ASSUME NEW p \in Procs, Restart(p) PROVE Tracking'
  BY <1>3, RestartTracks
<1>4. ASSUME NEW p \in Procs, HandlerStep(p) PROVE Tracking'
  <2>1. ~UntrackWrite(p)
    <3>1. proc[p] = Handler
      BY TheHandler DEF Steady
    <3> QED BY <3>1 DEF UntrackWrite, Mirror, HandlerSerial, Tracking, StaysTracked
  <2> QED BY <1>4, <2>1, FindSegmentTracks, PutSegmentTracks, PutLatestLeafTracks,
        TrackUpsertTracks, CheckChainLogsTracks, LeafRangeTracks, FindTreeTracks,
        FindNodesTracks, PutNodesTracks, PutRecalculationTracks DEF HandlerStep
<1>5. ASSUME NEW p \in Procs, HandlerFails(p) PROVE Tracking'
  BY <1>5 DEF HandlerFails, Serial, Steady
<1>6. CASE Environment
  <2>1. ASSUME NEW n \in 1..MaxLeavesPerBlock, Mine(n) PROVE Tracking'
    <3>1. n = 1
      BY DEF Serial, Steady
    <3> QED BY <2>1, <3>1, MineTracks
  <2> QED BY <1>6, <2>1, LoseSocketTracks, CrashTracks DEF Environment
<1> QED BY <1>1, <1>2, <1>3, <1>4, <1>5, <1>6, DeliverEventTracks DEF Next

LEMMA SteadyInv ==
  ASSUME Steady
  PROVE  Spec => [](IInv /\ Mirror /\ Tracking)
<1>1. Init => IInv /\ Mirror /\ Tracking
  BY InitIInv, InitMirror, InitTracking DEF Steady
<1>2. IInv /\ Mirror /\ Tracking /\ [Next]_vars => (IInv /\ Mirror /\ Tracking)'
  <2> SUFFICES ASSUME IInv, Mirror, Tracking, [Next]_vars
               PROVE  (IInv /\ Mirror /\ Tracking)'
    OBVIOUS
  <2>1. IInv' /\ Mirror'
    BY NextIInv, SerialStep DEF Steady
  <2>2. CASE Next
    BY <2>1, <2>2, NextTracking
  <2>3. CASE UNCHANGED vars
    <3>1. /\ Handler' = Handler /\ Pending' = Pending
          /\ UNCHANGED <<chain, tree, listeners, ready, phase>>
      BY <2>3 DEF vars, Handler, Pending
    <3>2. Queued'
      BY <3>1 DEF Tracking, Queued
    <3>3. Tracking'
      BY <3>1, <3>2, DocumentRests DEF Tracking
    <3> QED BY <2>1, <3>3
  <2> QED BY <2>2, <2>3
<1> QED BY <1>1, <1>2, PTL DEF Spec

\* On the terms of Steady: whenever the service rests and the last recalculation is up to
\* date, the sibling path that baseline_getProof answers leads to its root from its own leaf
\* and from no other, in every tree that is not full, and wherever the service has stopped
\* before: also between two of the writes of a recalculation that a later one repeats.
THEOREM ProofsAlwaysVerify ==
  ASSUME Steady
  PROVE  Spec => []ProofsVerify
<1>1. IInv /\ Mirror /\ Tracking => ProofsVerify
  <2> DEFINE last == tree.latestRecalculation
             n    == last.leafIndex + 1
  <2>1. SUFFICES ASSUME IInv, Mirror, Tracking, Quiescent, tree.active, UpToDate,
                        n < TwoTo[TreeHeight],
                        NEW i \in 0..(n - 1), NEW j \in 0..(n - 1)
                 PROVE  VerifyPath(Commitment(j), SiblingPath(TreeHeight, tree.nodes, i),
                                   last.root) <=> i = j
    BY DEF ProofsVerify
  <2>2. n = Recalculated(tree) + 1 /\ Recalculated(tree) = LatestLeaf(tree)
    BY <2>1, SerialFacts DEF Tracking, InnerSerial, UpToDate, Recalculated, LatestLeaf
  <2>3. n \in Nat /\ n > 0
    BY <2>1, <2>2, TrackingFacts
  <2>4. Held(tree) = n
    <3>1. Handler = Idle /\ phase = "serving"
      BY <2>1, QuietHandler DEF Steady
    <3>2. Held(tree) = LatestLeaf(tree) + 1
      BY <2>1, <3>1 DEF Tracking, LeafBehind, Idle
    <3> QED BY <2>2, <3>2
  <2> DEFINE h == TreeHeight
             nodes == tree.nodes
             values == Commitments(n)
  <2>5. /\ LeavesStored(h, nodes, n) /\ InnerReference(h, nodes, values)
        /\ last.root = ReferenceRoot(h, values)
    <3>1. LeavesStored(h, nodes, Held(tree)) /\ RecalculationOf(last, Recalculated(tree) + 1)
      BY <2>1 DEF Mirror, TreeSerial
    <3>2. values = Listed(tree) /\ n # 0
      BY <2>2, <2>3 DEF Listed
    <3>3. InnerReference(h, nodes, Listed(tree))
      BY <2>1, <2>2 DEF Tracking, InnerSerial
    <3> HIDE DEF n, values
    <3>4. last.root = ReferenceRoot(h, Commitments(n))
      BY <2>2, <3>1, <3>2 DEF RecalculationOf
    <3> QED BY <2>4, <3>1, <3>2, <3>3, <3>4 DEF values
  <2>6. CommittedLeaves(values, n) /\ h \in Nat /\ h > 0 /\ n < TwoTo[h]
    BY <2>1, <2>3, CommitmentsOf, HeightAssumption DEF CommittedLeaves
  <2>7. i \in 0..(n - 1) /\ j \in 0..(n - 1)
    BY <2>1
  <2> HIDE DEF n, h, nodes, values, last
  <2>8. VerifyPath(Commitment(j), SiblingPath(h, nodes, i), ReferenceRoot(h, values)) <=> i = j
    BY <2>3, <2>5, <2>6, <2>7, ProofOfLeaf
  <2> QED BY <2>5, <2>8 DEF h, nodes
<1> QED BY <1>1, SteadyInv, PTL

=============================================================================
