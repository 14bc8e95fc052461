----------------------------- MODULE CommitMgr -----------------------------
(***************************************************************************)
(* The commitment manager (examples/bri-2/commit-mgr): a Node.js service   *)
(* that mirrors the commitment tree of one Shield contract into a MongoDB  *)
(* document and serves roots and proofs from it.                           *)
(*                                                                         *)
(* Node runs one handler at a time, but a handler gives way at every       *)
(* await, so any number of them interleave between their database calls.   *)
(* A process of this module is one running handler; an action is one       *)
(* database or chain call together with the synchronous code that follows  *)
(* it up to the next await.  A findOne whose result is only used to learn  *)
(* the height of the tree, and which is followed at once by another        *)
(* findOne, is merged with it: both fail alike when the document is gone.  *)
(*                                                                         *)
(* The environment mines blocks, loses the websocket, and stops the        *)
(* service.  Only requests that change something are steps: a request      *)
(* answered from what one read returns (getCommit, getProof, getTracked,   *)
(* an up-to-date getRoot, a refused track) leaves the state as it is.      *)
(***************************************************************************)
EXTENDS MerkleTreeUtils

CONSTANTS
    Procs,              \* handlers that can be in flight at the same time
    Requests,           \* kinds of JSON-RPC requests clients send
    TreeHeight,         \* of the contract
    BucketSize,         \* config.BUCKET_SIZE: nodes per document
    MaxLeaves,          \* bound on the leaves pushed to the contract
    MaxLeavesPerBlock,  \* bound on the leaves of one block
    MaxCrashes,         \* bound on the stops of the service
    MaxSocketLosses,    \* bound on the losses of the websocket
    QuietTracking,      \* TRUE: no leaf is mined while a handler that has read the
                        \* logs of the contract has not yet subscribed to it
    CallsFail           \* TRUE: calls of the database, the node or the websocket may fail

ASSUME HeightAssumption   == TreeHeight \in Nat \ {0}
ASSUME LeavesAssumption   == MaxLeaves \in 0..(TwoTo[TreeHeight])
ASSUME BoundsAssumption   == /\ MaxLeavesPerBlock \in Nat \ {0}
                             /\ MaxCrashes \in Nat
                             /\ MaxSocketLosses \in Nat
                             /\ BucketSize \in Nat \ {0}
                             /\ QuietTracking \in BOOLEAN
                             /\ CallsFail \in BOOLEAN
ASSUME RequestsAssumption == Requests \subseteq {"track", "untrack", "prune", "getRoot"}

VARIABLES
    chain,      \* chain[i + 1]: number of the block that holds leaf i
    tree,       \* the `<address>_0` document
    listeners,  \* NewLeaf listeners registered on the current websocket provider
    wire,       \* leaves the node has notified and the provider has not yet emitted
    ready,      \* callbacks the provider has scheduled, by the leaf they are for
    proc,       \* the handlers
    phase,      \* "down", "starting" (restartSubscriptions) or "serving"
    crashes,
    socketLosses

vars == <<chain, tree, listeners, wire, ready, proc, phase, crashes, socketLosses>>

---------------------------------------------------------------------------
(* The document *)

NoLeaf          == [blockNumber |-> 0, leafIndex |-> -1]
NoRecalculation == [blockNumber |-> 0, leafIndex |-> -1, root |-> Undefined,
                    frontier |-> <<>>]

\* What mongoose reads from fields that are not there: the schema's defaults.
DefaultTreeHeight == 4
EmptyTree == [exists |-> TRUE, active |-> FALSE, treeHeight |-> DefaultTreeHeight,
              nodes |-> <<>>, latestLeaf |-> NoLeaf,
              latestRecalculation |-> NoRecalculation]
NoTree    == [EmptyTree EXCEPT !.exists = FALSE]

\* Only the document of bucket 0 is ever created: a findOne for the segment of any
\* other node yields null, and so does any findOne once the tree is deleted.
SegmentFound(nodeIndex) ==
    tree.exists /\ CalculateBucket(nodeIndex, BucketSize) = 0

\* The log entry of leaf i, as a latestLeaf record.
LeafLog(i) == [blockNumber |-> chain[i + 1], leafIndex |-> i]

ChainRoot(n)  == ReferenceRoot(TreeHeight, Commitments(n))

---------------------------------------------------------------------------
(* Handlers *)

\* A handler that is not running.  queue: leaves still to insert; snap: the nodes
\* array it read; from: first block or leaf wanted, to: last leaf wanted, leaves:
\* leaves found so far (updateTree); latest: latestLeaf as updateNodes read it;
\* plan: the recalculation under way.
Idle == [op |-> "none", pc |-> "idle", queue |-> <<>>, snap |-> <<>>,
         from |-> 0, cursor |-> 0, to |-> 0, leaves |-> <<>>, frontier |-> <<>>,
         latest |-> NoLeaf,
         plan |-> [frontier |-> <<>>, root |-> Undefined, writes |-> <<>>, ok |-> TRUE]]

IdleProcs == {p \in Procs : proc[p] = Idle}

\* The handler ends, or dies of an exception.
End(p) == proc' = [proc EXCEPT ![p] = Idle]

\* A call that the handler awaits is rejected, or answers with an error: the handler
\* gives up where it is, and nobody undoes or repeats what it has done.
HandlerFails(p) ==
    /\ CallsFail
    /\ proc[p] # Idle
    /\ End(p)
    /\ UNCHANGED <<chain, tree, listeners, wire, ready, phase, crashes, socketLosses>>

\* Mutant: the listener is not registered.
SubscribeNothing(p) ==
    /\ phase' = "serving"
    /\ End(p)
    /\ UNCHANGED listeners

\* subscribeMerkleEvents, the last statement of track and of restartSubscriptions;
\* after the latter the server starts to listen.  Without a provider the assignment
\* to an undeclared variable throws, and the handler ends there.
Subscribe(p) ==
    /\ \/ listeners' = listeners + 1 /\ phase' = "serving"
       \/ CallsFail /\ UNCHANGED <<listeners, phase>>
    /\ End(p)

\* After the leaf loop of an event callback or of checkChainLogs.
LoopDone(p) ==
    IF proc[p].op \in {"track", "restart"}
    THEN Subscribe(p)
    ELSE End(p) /\ UNCHANGED <<listeners, phase>>

\* The rest of the leaves to insert, one at a time.
InsertRest(p, rest) ==
    IF rest = <<>>
    THEN LoopDone(p)
    ELSE /\ proc' = [proc EXCEPT ![p] = [Idle EXCEPT !.op = proc[p].op, !.pc = "findSegment",
                                                     !.queue = rest]]
         /\ UNCHANGED <<listeners, phase>>

---------------------------------------------------------------------------
(* insertLeaf of leaves.js, for the first leaf of the queue *)

\* Both findOne calls.
FindSegment(p) ==
    LET nodeIndex == LeafIndexToNodeIndex(tree.treeHeight, Head(proc[p].queue)) IN
    /\ proc[p].pc = "findSegment"
    /\ IF SegmentFound(nodeIndex)
       THEN proc' = [proc EXCEPT ![p].pc = "putSegment",
                                 ![p].snap = SetNode(tree.nodes, nodeIndex,
                                                     LeafNode(Head(proc[p].queue)))]
       ELSE End(p)
    /\ UNCHANGED <<chain, tree, listeners, wire, ready, phase, crashes, socketLosses>>

\* updateOne({nodes}): the whole array goes back.  updateOne of a deleted document
\* does nothing.
PutSegment(p) ==
    /\ proc[p].pc = "putSegment"
    /\ tree' = IF tree.exists THEN [tree EXCEPT !.nodes = proc[p].snap] ELSE tree
    /\ proc' = [proc EXCEPT ![p].pc = "putLatestLeaf", ![p].snap = <<>>]
    /\ UNCHANGED <<chain, listeners, wire, ready, phase, crashes, socketLosses>>

\* Mutant: the loop stops after its first leaf.
PutLatestLeafOnce(p) ==
    /\ proc[p].pc = "putLatestLeaf"
    /\ tree' = IF tree.exists
               THEN [tree EXCEPT !.latestLeaf = LeafLog(Head(proc[p].queue))]
               ELSE tree
    /\ LoopDone(p)
    /\ UNCHANGED <<chain, wire, ready, crashes, socketLosses>>

\* updateOne({latestLeaf}), then the next leaf of the loop.
PutLatestLeaf(p) ==
    /\ proc[p].pc = "putLatestLeaf"
    /\ tree' = IF tree.exists
               THEN [tree EXCEPT !.latestLeaf = LeafLog(Head(proc[p].queue))]
               ELSE tree
    /\ InsertRest(p, Tail(proc[p].queue))
    /\ UNCHANGED <<chain, wire, ready, crashes, socketLosses>>

---------------------------------------------------------------------------
(* Events: the callback of subscribeMerkleEvents *)

\* The provider emits the oldest notification: it schedules one callback for each
\* listener, which removing the listener no longer stops.
DeliverEvent ==
    /\ wire # <<>>
    /\ wire' = Tail(wire)
    /\ ready' = ready \o [k \in 1..listeners |-> Head(wire)]
    /\ UNCHANGED <<chain, tree, listeners, proc, phase, crashes, socketLosses>>

\* The next scheduled callback starts.
StartCallback(p) ==
    /\ ready # <<>>
    /\ proc[p] = Idle
    /\ ready' = Tail(ready)
    /\ proc' = [proc EXCEPT ![p] = [Idle EXCEPT !.op = "event", !.pc = "findSegment",
                                                !.queue = <<Head(ready)>>]]
    /\ UNCHANGED <<chain, tree, listeners, wire, phase, crashes, socketLosses>>

---------------------------------------------------------------------------
(* baseline_track *)

Request(p, kind) == phase = "serving" /\ proc[p] = Idle /\ kind \in Requests

\* The document is not there, or not active: the height is asked from the chain.
TrackFind(p) ==
    /\ Request(p, "track")
    /\ ~(tree.exists /\ tree.active)
    /\ proc' = [proc EXCEPT ![p] = [Idle EXCEPT !.op = "track", !.pc = "trackUpsert"]]
    /\ UNCHANGED <<chain, tree, listeners, wire, ready, phase, crashes, socketLosses>>

\* Mutant: the document is replaced, not updated.
TrackUpsertReplaces(p) ==
    /\ proc[p].pc = "trackUpsert"
    /\ tree' = [EmptyTree EXCEPT !.treeHeight = TreeHeight, !.active = TRUE]
    /\ proc' = [proc EXCEPT ![p].pc = "checkChainLogs"]
    /\ UNCHANGED <<chain, listeners, wire, ready, phase, crashes, socketLosses>>

\* Mutant: the number of leaves is taken for the height.
TrackUpsertWidth(p) ==
    /\ proc[p].pc = "trackUpsert"
    /\ tree' = [(IF tree.exists THEN tree ELSE EmptyTree)
                   EXCEPT !.treeHeight = TwoTo[TreeHeight], !.active = TRUE]
    /\ proc' = [proc EXCEPT ![p].pc = "checkChainLogs"]
    /\ UNCHANGED <<chain, listeners, wire, ready, phase, crashes, socketLosses>>

\* The height arrived; findOneAndUpdate with upsert.
TrackUpsert(p) ==
    /\ proc[p].pc = "trackUpsert"
    /\ tree' = [(IF tree.exists THEN tree ELSE EmptyTree)
                   EXCEPT !.treeHeight = TreeHeight, !.active = TRUE]
    /\ proc' = [proc EXCEPT ![p].pc = "checkChainLogs"]
    /\ UNCHANGED <<chain, listeners, wire, ready, phase, crashes, socketLosses>>

\* checkChainLogs: eth_getLogs from the block after `from`, then insert what it
\* returned.  Block numbers never decrease, so that is all but the first `skip` leaves.
CheckChainLogs(p) ==
    LET fromBlock == IF proc[p].from = 0 THEN 0 ELSE proc[p].from + 1 IN
    /\ proc[p].pc = "checkChainLogs"
    /\ \E skip \in 0..Len(chain) :
         /\ \A i \in 0..(Len(chain) - 1) : i < skip <=> chain[i + 1] < fromBlock
         /\ InsertRest(p, [k \in 1..(Len(chain) - skip) |-> skip + k - 1])
    /\ UNCHANGED <<chain, tree, wire, ready, crashes, socketLosses>>

---------------------------------------------------------------------------
(* baseline_untrack, without and with prune *)

\* Mutant: the listeners stay.
UntrackFindKeepsListening(p, kind) ==
    /\ kind \in {"untrack", "prune"}
    /\ Request(p, kind)
    /\ tree.exists
    /\ proc' = [proc EXCEPT ![p] = [Idle EXCEPT !.op = kind, !.pc = "untrackWrite"]]
    /\ UNCHANGED <<chain, tree, listeners, wire, ready, phase, crashes, socketLosses>>

\* The document is found; unsubscribeMerkleEvents drops every listener at once.
UntrackFind(p, kind) ==
    /\ kind \in {"untrack", "prune"}
    /\ Request(p, kind)
    /\ tree.exists
    /\ listeners' = 0
    /\ wire' = <<>>
    /\ proc' = [proc EXCEPT ![p] = [Idle EXCEPT !.op = kind, !.pc = "untrackWrite"]]
    /\ UNCHANGED <<chain, tree, ready, phase, crashes, socketLosses>>

\* deleteMany, or updateOne({active: false}) with upsert.
UntrackWrite(p) ==
    /\ proc[p].pc = "untrackWrite"
    /\ tree' = IF proc[p].op = "prune" THEN NoTree
               ELSE [(IF tree.exists THEN tree ELSE EmptyTree) EXCEPT !.active = FALSE]
    /\ End(p)
    /\ UNCHANGED <<chain, listeners, wire, ready, phase, crashes, socketLosses>>

---------------------------------------------------------------------------
(* updateTree of index.js, run by baseline_getRoot and by baseline_verify *)

HasLeaves   == tree.latestLeaf.blockNumber # 0
UpToDate    == tree.latestRecalculation.leafIndex >= tree.latestLeaf.leafIndex
FromLeaf    == tree.latestRecalculation.leafIndex + 1

\* There are leaves to hash: decide which, from one read of the document.
UpdateTreeFind(p) ==
    /\ Request(p, "getRoot")
    /\ tree.exists /\ HasLeaves /\ ~UpToDate
    /\ proc' = [proc EXCEPT ![p] = [Idle EXCEPT
                  !.op = "getRoot", !.pc = "leafRange",
                  !.from = FromLeaf, !.cursor = FromLeaf, !.to = tree.latestLeaf.leafIndex,
                  !.frontier = tree.latestRecalculation.frontier]]
    /\ UNCHANGED <<chain, tree, listeners, wire, ready, phase, crashes, socketLosses>>

\* One turn of getLeavesByLeafIndexRange's loop.
LeafRange(p) ==
    LET nodeIndex == LeafIndexToNodeIndex(tree.treeHeight, proc[p].cursor)
        found     == LeavesOfSegment(tree.nodes, proc[p].cursor, proc[p].to)
        next      == NextCursor(proc[p].cursor, found)
    IN
    /\ proc[p].pc = "leafRange"
    /\ IF SegmentFound(nodeIndex)
       THEN proc' = [proc EXCEPT ![p].leaves = @ \o found, ![p].cursor = next,
                                 ![p].pc = IF next > proc[p].to THEN "findTree"
                                                                ELSE "leafRange"]
       ELSE End(p)
    /\ UNCHANGED <<chain, tree, listeners, wire, ready, phase, crashes, socketLosses>>

NextPc(plan) == IF plan.writes # <<>> THEN "findNodes"
                ELSE IF plan.ok THEN "putRecalculation" ELSE "failed"

\* updateNodes reads the document again, for latestLeaf; the hashes follow from what
\* the handler already holds.
FindTree(p) ==
    LET values == [k \in DOMAIN proc[p].leaves |-> proc[p].leaves[k].hash]
        result == PlanUpdate(tree.treeHeight, proc[p].frontier, values, proc[p].from)
        plan   == [frontier |-> result.frontier, root |-> result.value,
                   writes |-> result.writes, ok |-> result.ok]
    IN
    /\ proc[p].pc = "findTree"
    /\ IF tree.exists /\ NextPc(plan) # "failed"
       THEN proc' = [proc EXCEPT ![p] = [Idle EXCEPT !.op = "getRoot", !.pc = NextPc(plan),
                                                     !.latest = tree.latestLeaf,
                                                     !.plan = plan]]
       ELSE End(p)
    /\ UNCHANGED <<chain, tree, listeners, wire, ready, phase, crashes, socketLosses>>

\* The next inner node: read the segment ...
FindNodes(p) ==
    LET write == Head(proc[p].plan.writes) IN
    /\ proc[p].pc = "findNodes"
    /\ IF SegmentFound(write.index)
       THEN proc' = [proc EXCEPT ![p].pc = "putNodes",
                                 ![p].snap = SetNode(tree.nodes, write.index,
                                                     InnerNode(write.hash))]
       ELSE End(p)
    /\ UNCHANGED <<chain, tree, listeners, wire, ready, phase, crashes, socketLosses>>

\* ... and put the whole array back.  Hashing on may then hit an unfilled frontier slot.
PutNodes(p) ==
    LET rest == [proc[p].plan EXCEPT !.writes = Tail(@)] IN
    /\ proc[p].pc = "putNodes"
    /\ tree' = IF tree.exists THEN [tree EXCEPT !.nodes = proc[p].snap] ELSE tree
    /\ IF NextPc(rest) = "failed"
       THEN End(p)
       ELSE proc' = [proc EXCEPT ![p].plan = rest, ![p].pc = NextPc(rest), ![p].snap = <<>>]
    /\ UNCHANGED <<chain, listeners, wire, ready, phase, crashes, socketLosses>>

\* Mutant: the block number of the label is read again when it is written.
PutRecalculationRereads(p) ==
    LET plan == proc[p].plan
        recalculation == [blockNumber |-> tree.latestLeaf.blockNumber,
                          leafIndex |-> proc[p].latest.leafIndex,
                          root |-> plan.root, frontier |-> plan.frontier]
    IN
    /\ proc[p].pc = "putRecalculation"
    /\ tree' = IF tree.exists THEN [tree EXCEPT !.latestRecalculation = recalculation]
               ELSE tree
    /\ End(p)
    /\ UNCHANGED <<chain, listeners, wire, ready, phase, crashes, socketLosses>>

\* updateOne({latestRecalculation}), labelled with the latestLeaf read by FindTree;
\* the root is returned.
PutRecalculation(p) ==
    LET plan == proc[p].plan
        recalculation == [blockNumber |-> proc[p].latest.blockNumber,
                          leafIndex |-> proc[p].latest.leafIndex,
                          root |-> plan.root, frontier |-> plan.frontier]
    IN
    /\ proc[p].pc = "putRecalculation"
    /\ tree' = IF tree.exists THEN [tree EXCEPT !.latestRecalculation = recalculation]
               ELSE tree
    /\ End(p)
    /\ UNCHANGED <<chain, listeners, wire, ready, phase, crashes, socketLosses>>

---------------------------------------------------------------------------
(* Start of the service: restartSubscriptions, for the one tree *)

Restart(p) ==
    /\ phase = "down"
    /\ proc[p] = Idle
    /\ IF tree.exists /\ tree.active
       THEN /\ phase' = "starting"
            /\ proc' = [proc EXCEPT ![p] = [Idle EXCEPT !.op = "restart",
                                              !.pc = "checkChainLogs",
                                              !.from = tree.latestLeaf.blockNumber]]
       ELSE phase' = "serving" /\ UNCHANGED proc
    /\ UNCHANGED <<chain, tree, listeners, wire, ready, crashes, socketLosses>>

---------------------------------------------------------------------------
(* Environment *)

\* Handlers that have read the logs and will subscribe when they have inserted them.
CatchingUp(p) == /\ proc[p].op \in {"track", "restart"}
                 /\ proc[p].pc \notin {"trackUpsert", "checkChainLogs"}

\* A block with n new leaves is mined; the node notifies a subscriber.
Mine(n) ==
    LET block  == IF chain = <<>> THEN 1 ELSE chain[Len(chain)] + 1
        leaves == [k \in 1..n |-> Len(chain) + k - 1]
    IN
    /\ Len(chain) + n <= MaxLeaves
    /\ QuietTracking => \A p \in Procs : ~CatchingUp(p)
    /\ chain' = chain \o [k \in 1..n |-> block]
    /\ wire' = IF listeners > 0 THEN wire \o leaves ELSE wire
    /\ UNCHANGED <<tree, listeners, ready, proc, phase, crashes, socketLosses>>

\* "error" or "close" of the websocket: the provider is forgotten, with its listeners.
LoseSocket ==
    /\ phase # "down"
    /\ socketLosses < MaxSocketLosses
    /\ socketLosses' = socketLosses + 1
    /\ listeners' = 0
    /\ wire' = <<>>
    /\ UNCHANGED <<chain, tree, ready, proc, phase, crashes>>

\* The service stops between two calls; only the database survives.
Crash ==
    /\ phase # "down"
    /\ crashes < MaxCrashes
    /\ crashes' = crashes + 1
    /\ phase' = "down"
    /\ listeners' = 0
    /\ wire' = <<>>
    /\ ready' = <<>>
    /\ proc' = [p \in Procs |-> Idle]
    /\ UNCHANGED <<chain, tree, socketLosses>>

---------------------------------------------------------------------------

Init ==
    /\ chain = <<>>
    /\ tree = NoTree
    /\ listeners = 0
    /\ wire = <<>>
    /\ ready = <<>>
    /\ proc = [p \in Procs |-> Idle]
    /\ phase = "serving"
    /\ crashes = 0
    /\ socketLosses = 0

\* What a handler does next, once it has started.
HandlerStep(p) ==
    \/ FindSegment(p) \/ PutSegment(p) \/ PutLatestLeaf(p)
    \/ TrackUpsert(p) \/ CheckChainLogs(p)
    \/ UntrackWrite(p)
    \/ LeafRange(p) \/ FindTree(p) \/ FindNodes(p) \/ PutNodes(p) \/ PutRecalculation(p)

\* A client's request reaches the service.
ClientRequest(p) ==
    \/ TrackFind(p)
    \/ \E kind \in {"untrack", "prune"} : UntrackFind(p, kind)
    \/ UpdateTreeFind(p)

Environment == \/ \E n \in 1..MaxLeavesPerBlock : Mine(n)
               \/ LoseSocket
               \/ Crash

Next ==
    \/ \E p \in Procs : \/ StartCallback(p) \/ ClientRequest(p) \/ Restart(p)
                        \/ HandlerStep(p) \/ HandlerFails(p)
    \/ DeliverEvent
    \/ Environment

Spec == Init /\ [][Next]_vars

\* The event loop runs every handler that can go on (a handler that is not idle always
\* can, so the first conjunct is the weak fairness of HandlerStep), delivers what the
\* node has notified, and an operator restarts a stopped service.
Fairness ==
    /\ \A p \in Procs : []<>(proc[p] = Idle) \/ []<><<HandlerStep(p)>>_vars
    /\ \A p \in Procs : WF_vars(StartCallback(p)) /\ WF_vars(Restart(p))
    /\ WF_vars(DeliverEvent)

FairSpec == Spec /\ Fairness

---------------------------------------------------------------------------
(* Properties.  The first two hold whatever interleaves and fails; the     *)
(* others are promises of the mirror that hold under the assumptions the   *)
(* runs name.                                                              *)

Stored(i) ==
    LET n == LeafIndexToNodeIndex(TreeHeight, i) IN
    n \in DOMAIN tree.nodes /\ tree.nodes[n] = LeafNode(i)

\* No handler is running and requests are served.
Quiescent == phase = "serving" /\ wire = <<>> /\ ready = <<>> /\ IdleProcs = Procs

Leaves == 0..(Len(chain) - 1)

\* A latestLeaf record names a leaf together with the block that holds it.
IsLog(r)    == r.leafIndex \in Leaves /\ r.blockNumber = chain[r.leafIndex + 1]
IsLatest(r) == r = NoLeaf \/ IsLog(r)

\* Every leaf of a nodes array is the commitment the contract has at its index.
Authentic(nodes) ==
    \A n \in DOMAIN nodes :
        nodes[n].leafIndex # NotALeaf =>
            nodes[n].leafIndex \in Leaves /\ nodes[n].hash = Commitment(nodes[n].leafIndex)

Ops == {"none", "event", "track", "restart", "untrack", "prune", "getRoot"}
Pcs == {"idle", "findSegment", "putSegment", "putLatestLeaf", "trackUpsert",
        "checkChainLogs", "untrackWrite", "leafRange", "findTree", "findNodes",
        "putNodes", "putRecalculation"}

\* Type invariant: of the document, of the handlers' control state and of the counters.
TypeOK ==
    /\ chain \in Seq(Nat) /\ Len(chain) <= MaxLeaves
    /\ DOMAIN tree = DOMAIN NoTree
    /\ tree.exists \in BOOLEAN /\ tree.active \in BOOLEAN
    /\ tree.treeHeight \in {TreeHeight, DefaultTreeHeight}
    /\ listeners \in Nat
    /\ wire \in Seq(Nat) /\ ready \in Seq(Nat)
    /\ DOMAIN proc = Procs
    /\ \A p \in Procs : /\ DOMAIN proc[p] = DOMAIN Idle
                        /\ proc[p].op \in Ops /\ proc[p].pc \in Pcs
    /\ phase \in {"down", "starting", "serving"}
    /\ crashes \in 0..MaxCrashes
    /\ socketLosses \in 0..MaxSocketLosses

\* Whatever handlers interleave, die or restart, the mirror holds nothing the contract
\* did not emit: every stored leaf is the commitment of its index, and both latestLeaf
\* and latestRecalculation name a leaf together with the block that really holds it
\* (checkChainLogs after a restart starts from that block).
MirrorFollowsChain ==
    /\ Authentic(tree.nodes)
    /\ IsLatest(tree.latestLeaf)
    /\ tree.latestRecalculation.leafIndex = -1 \/ IsLog(tree.latestRecalculation)

\* Nor is anything else on its way to the document: every notification, scheduled
\* callback, queued leaf and array that a handler will write back is of the contract.
HandlersFollowChain ==
    /\ wire \in Seq(Leaves) /\ ready \in Seq(Leaves)
    /\ \A p \in Procs :
         /\ proc[p].queue \in Seq(Leaves)
         /\ proc[p].pc \in {"findSegment", "putSegment", "putLatestLeaf"}
                => proc[p].queue # <<>>
         /\ Authentic(proc[p].snap)
         /\ IsLatest(proc[p].latest)

\* The root kept with the last recalculation is the root the contract had after the
\* leaf it is labelled with, also after a stop in the middle of a recalculation.
RecalculationMatchesChain ==
    LET last == tree.latestRecalculation IN
    last.leafIndex # -1 => last.root = ChainRoot(last.leafIndex + 1)

\* Once recalculated, baseline_verify accepts what baseline_getProof hands out for a
\* leaf, and only for that leaf.  The full tree is left out: its last leaf writes the
\* root into the nodes truncated, and no proof verifies any more.
ProofsVerify ==
    LET last == tree.latestRecalculation
        n    == last.leafIndex + 1
        proof(i) == SiblingPath(TreeHeight, tree.nodes, i)
    IN
    (Quiescent /\ tree.active /\ HasLeaves /\ UpToDate /\ n < TwoTo[TreeHeight]) =>
        \A i, j \in 0..(n - 1) :
            VerifyPath(Commitment(j), proof(i), last.root) <=> i = j

\* At rest, an active tree holds every leaf of the contract.
TreeIsFull ==
    (Quiescent /\ tree.exists /\ tree.active) =>
        \A i \in 0..(Len(chain) - 1) : Stored(i)

\* At rest, the service listens, once, to the contracts it reports as tracked.
TrackedIsListenedTo ==
    Quiescent => listeners = IF tree.exists /\ tree.active THEN 1 ELSE 0

\* No step loses a stored leaf or goes back to an older recalculation, unless the tree
\* is pruned.
MirrorOnlyGrows ==
    [][tree'.exists =>
         /\ \A i \in 0..(MaxLeaves - 1) : Stored(i) => Stored(i)'
         /\ tree.latestRecalculation.leafIndex <= tree'.latestRecalculation.leafIndex]_tree

\* A leaf pushed to a tracked contract reaches the mirror, unless tracking ends.
EveryLeafIsMirrored ==
    \A i \in 0..(MaxLeaves - 1) :
        (i < Len(chain) /\ tree.active) ~> (Stored(i) \/ ~tree.active)

=============================================================================
