# A verification project for the Baseline Protocol repository

The repository holds a set of libraries (`core/`), two reference implementations (`examples/bri-1`, `examples/bri-2`)
and Ethereum contracts for "baselining": companies synchronise records with each other, and anchor commitments to these
records in a Merkle tree kept by a *Shield* contract. This project models the parts with state, concurrency and failure
of their own: `examples/bri-2/commit-mgr`, a Node.js service that pushes commitments, mirrors the contract's tree into
MongoDB and serves roots and membership proofs; the contracts; and the participant stack of `examples/bri-1`, with the
records and encodings its messages rest on. All paths below are under `src/`; `commit-mgr/` stands for
`examples/bri-2/commit-mgr/src/`, `base-example/` for `examples/bri-1/base-example/src/`.

## Inventory

| Component | State it keeps | Operations | Hard behaviour | What makes it correct |
| --- | --- | --- | --- | --- |
| **Shield / MerkleTreeSHA256** (`examples/bri-2/contracts/contracts/privacy`, same source in `core/contracts`) | `leafCount`, `latestRoot`, `frontier[33]` | `verifyAndPush` → `insertLeaf`; `insertLeaves` (internal) | index arithmetic of the frontier, the last leaf, truncation to 27 bytes | the root is the root of the whole tree over everything pushed |
| **Merkle algorithms** (`commit-mgr/merkle-tree/utils.js`, `hash.js`) | none | index conversions, `updateNodes`, `getNumberOfHashes`, sibling paths | the same arithmetic, in instalments | agrees with the contract, proofs verify |
| **Mirror** (`commit-mgr/merkle-tree`, `commit-mgr/blockchain`, `rpc-server.ts`, `index.ts`) | one document per tree: `nodes`, `latestLeaf`, `latestRecalculation`, `active`; event listeners and the websocket provider in memory | `baseline_track`, `_untrack` (with prune), `_getRoot`, `_verify`, `_getProof`, `_getCommit(s)`, the `NewLeaf` callback, the start of the service | every handler gives way at every `await`; whole arrays are read, changed and written back; stops between two writes; lost websocket; events against log queries | nothing false is stored; nothing is lost; roots and proofs are the contract's |
| **Transaction manager** (`commit-mgr/tx-manager`) | none; the node's nonce | `insertLeaf` → `signTx` → send | two pushes in flight read the same transaction count; errors in the answer are not looked at | every push answered without error is in the node's pool once |
| **JSON-RPC front end and relay** (`commit-mgr/rpc-server.ts`) | none between requests | validation, routing, forwarding | exceptions outside of every `try` block | every request ends, answers are true |
| **db connection, `Ident`, logger** (`commit-mgr`) | – | – | – | – |
| **OrgRegistry, Registrar, ERC1820Registry** (`core/contracts/contracts/registry`) | organizations, interfaces, managers, implementers | register, update, set interface | who may change what; parallel arrays | an entry is changed only by its owner; lists and maps agree |
| **bri-1 participant stack** (`examples/bri-1/base-example/src/index.ts`, `mods/`) | workgroup, contracts, keys, counterparties, received records | invitations, protocol messages over NATS, deployment of circuit and contracts, commitments | unawaited calls, polling without bound, messages in any order, `=` for `===` at line 506 | both participants end with the same workgroup and records |
| **core/messaging** | connection, subscriptions | connect, publish, subscribe | messages for who is not subscribed, closing after publish | each subscriber sees each message of its subject |
| **core/types** | none | marshalling of protocol messages | fields longer or shorter than their width | each field comes back as its own |
| **core/privacy** | none | conversions of numbers and texts, limbs | carries, leading zeros, borders of bytes | what comes out stands for what went in |
| **core/api, core/persistence** | none | thin clients, stubs that throw | – | – |
| circuits, Go and C# connectors, docs | – | – | – | – |

How they interact: a client pushes a commitment through `baseline_verifyAndPush`, the transaction manager signs and
sends it to the node, the contract inserts it and emits `NewLeaf`; the node notifies the service's websocket provider,
whose callback stores the leaf in MongoDB. `baseline_getRoot` and `baseline_verify` hash what is new into the
document; `baseline_getProof` reads it. When the service starts, and when a tree is tracked, it catches up from the
node's logs and then subscribes. Clients are the libraries of `core/api` and the participant stack of `bri-1`.

## Modules

| Module | Models |
| --- | --- |
| `MerkleTreeUtils` | the pure operators: index arithmetic, hashing, the recalculation plan, sibling paths, and the reference tree the others are compared with |
| `MerkleTreeUtilsProofs` | the theorems about these operators, for every height |
| `MerkleTreeSHA256` | the contract; one action per external effect (`VerifyAndPush`, `InsertLeaves`) |
| `OffchainTree` | `insertLeaf` and `updateTree` of the service as two sequential operations, for taller trees |
| `MerkleTreeProofs` | the theorems about the contract and about `OffchainTree` |
| `CommitMgr` | the mirror, one action per `await` |
| `CommitMgrProofs` | what holds of the mirror however its handlers interleave, and what holds of it as long as they do not |
| `CommitLog` | what the service promises whoever pushes: an append-only log without repetitions, bounded by the tree |
| `RpcServer` | the JSON-RPC front end and the transaction manager, with the node's pool and the relay; implements `CommitLog` |
| `RpcServerProofs` | the theorems about `RpcServer` |
| `ERC1820Registry` | the interface registry, as operators on its mappings |
| `OrgRegistry` | the organization registry and `Registrar` over `ERC1820Registry`; one action per external function |
| `OrgDirectory` | what the two contracts promise, without their storage |
| `OrgRegistryProofs` | the theorems about `OrgRegistry`, its refinement of `OrgDirectory` among them |
| `ParticipantStack` | the stacks of an initiator and its invitees, from `init` to JOIN |
| `Workstep` | commitments, requests, answers and signed notices, on top of `ParticipantStack` |
| `WorkstepProofs` | the theorems about `ParticipantStack` and `Workstep` |
| `Records` | jobs, availabilities and the selection of suppliers |
| `RecordsProofs` | the theorems about `Records` |
| `Conversions`, `ProtocolMessage` | the conversions and the wire format, as operators |
| `Encoding` | calls of the two on bounded inputs, with the definitions of what they promise |
| `EncodingProofs` | the theorems about `Encoding` |
| `MCMerkleTreeSHA256`, `MCCommitMgr`, `MCRecords`, `MCEncoding` | the instances TLC checks |

### Hashes

A hash is a term, so two hashes are equal only if the same was hashed. A value is `[term, full]`; `full` tells the 32
bytes of a commitment or root from the 27 bytes a node is truncated to. Truncating again changes nothing, comparing a
full value with a truncated one fails, and that is all the code's truncation can do. Collisions, and collisions of the
truncated hashes, are out of scope.

### The contract

`leafCount`, `latestRoot` and `frontier` are the contract's variables; `pushed` (all commitments) and `event` (the last
event) are histories for the properties. `verifyAndPush` is modelled for proofs that verify: the others revert without
effect. `insertLeaves` runs the same plan as the service's `updateNodes`, which is a port of it; the frontier of the
contract starts as zeros and that of the service as empty slots.

### The mirror

A process of `CommitMgr` is one running handler. Its record holds the handler's local variables: `queue` is the list of
leaves a loop still has to insert, `snap` the nodes array it read and will write back, `leaves`, `from`, `cursor`, `to`
and `frontier` the locals of `updateTree`, `latest` and `plan` those of `updateNodes`. Since none of the values
`updateNodes` writes depends on what it reads between its writes, `FindTree` computes the whole plan and the following
steps read and write the document, node by node.

| Code | Actions |
| --- | --- |
| `insertLeaf` (leaves.js) | `FindSegment`, `PutSegment`, `PutLatestLeaf` |
| event callback (events.js) | `DeliverEvent` (the provider schedules one callback for each listener), `StartCallback`, then `insertLeaf` |
| `baseline_track` | `TrackFind`, `TrackUpsert`, `CheckChainLogs`, `insertLeaf` for every log, then `Subscribe` |
| `baseline_untrack` | `UntrackFind` (drops the listeners), `UntrackWrite` |
| `baseline_getRoot`, and the write part of `baseline_verify` | `UpdateTreeFind`, `LeafRange`, `FindTree`, (`FindNodes`, `PutNodes`)*, `PutRecalculation` |
| start of the service | `Restart`, `CheckChainLogs`, `insertLeaf` for every log, `Subscribe` |
| environment | `Mine`, `LoseSocket`, `Crash`, `HandlerFails` (a rejected call ends the handler where it is); with calls that fail, `Subscribe` may also end without a listener, as it does without a provider |

The whole `nodes` array travels in one read and one write, as in the code: that is where leaves are lost. A document
that was pruned makes every later `findOne` yield null (the handler dies) and every later `updateOne` do nothing. The
model has one contract; the code keeps trees of different contracts apart by document. Requests that only read are not
steps. The chain does not reorganise. Websocket notifications arrive in order, each once.

### Requests and transactions

A request of `RpcServer` goes through the awaits of its handler; `req[r]` holds the handler's locals.

| Code | Actions |
| --- | --- |
| `validateParams`, routing, the reading methods, `relayRequest` | `RejectParams`, `Receive`, `Read`, `Relay` |
| `baseline_verifyAndPush` up to the factory | `FindRecord` |
| `EthClient.signTx`, `sendTransaction`; `InfuraGas.insertLeaf` | `GetNonce`, `GetGasPrice`, `EstimateGas`, `Send`, `Respond` |
| environment | `Mine` |

`Send` is where the node takes or refuses the transaction, `Respond` where the service reads the answer; between the
two the answer may be lost. The node either mines what it is sent at once, as ganache does, or keeps a pool in which a
dearer transaction replaces one of the same nonce. The code ignores `res.error`, so a refused push is answered as a
success without a hash ("no hash"). An exception outside of every `try` block leaves the request "hung".

### The registries

Each action of `OrgRegistry` is one transaction; those that fail a `require` are no step. `msgSender` remembers the
sender of the last one and `log` the events, for the properties. The cache of ERC165 answers shares the implementers'
mapping in the contract and is kept apart here; only entries the code can reach in each are touched. `OrgDirectory` has
entries, controllers and implementers; the refinement maps a manager of zero to the address itself.

### The participant stack

A stack's `init` and `acceptWorkgroupInvite` are two processes (`init`, `pc`) that may overlap, because the application
does not wait for `init`. It does wait for one `acceptWorkgroupInvite` of a stack before it makes another, as the
end-to-end test does, and that is the application's doing: the code tests only `workgroup` (`index.ts:647`), which it sets
after an await, so overlapping calls would both pass, count the inviter twice and send two JOINs. The model says nothing of
such calls, and no property claims that nobody is counted twice. The calls of Ident, Vault, the node and NATS are external: the step that awaits one completes,
or, when its name is in `Failing`, rejects and the call with it. The run lets every step of a call fail, but not the
look-up (`dispatch`) with which the handler of a JOIN resolves its sender. Look-ups wait for the registry contract.

| Code | Actions |
| --- | --- |
| `init`, `startProtocolSubscriptions` | `StartInit`, `ResetContracts`, `StartProtocolSubscriptions`, `ContractSetup` |
| `createWorkgroup`, `setWorkgroup`, tokens, organization, keys, registration | `CreateWorkgroup`, `SetWorkgroup`, `CreateWorkgroupToken`, `CreateOrganization`, `CreateKeys`, `RegisterOrganization`, `RegisterWorkgroupOrganization` |
| `deployBaselineCircuit` | `StartDeploy`, `DeployShield`, `FinishDeploy` |
| `inviteWorkgroupParticipant` | `StartInvite`, `FinishInvite` |
| `acceptWorkgroupInvite` | `StartAccept`, `ResolveInviter`, `TrackShield`, `RequireOrganization`, `RequireRejects`, `SendJoin` |
| `dispatchProtocolMessage` | `Receive`, `HandleJoin`, `HandleRequest`, `AnswerRequest`, `HandleResponse`, `HandleNotice`, `HandleReturn` |
| `createCommitment`, `requestMgr` | `Commit`, `Push` |
| `sendProtocolMessage` | `SendJoin`, `SendRequest`, `SendNotice`, and the broadcasts of the handlers |

A hash stands for what is hashed. JavaScript's `==` between objects, the assignment of line 506 and the promise that is
hashed at line 518 are modelled as what they do (`StateEquals`, `IsRequest`, `PromiseHash`). `Intention` is not defined
in the repository, so its values are a parameter of the initial state.

### Records and encodings

`Records` keeps the arithmetic of `suitabilityFinder` (both bounds excluded), of `dayReducer` and of the odometer that
combines arrays, `case "11" || "22"` included. `Encoding` applies each conversion to all short inputs around the borders
of digits, limbs and fields; widths are scaled down (fields of 2 bytes instead of 42, limbs of 3 bits, buffers of 2
bytes instead of 16), which keeps every border the code distinguishes. `inferType` decides by the prefix `0x` and the
digits; what is neither a number nor hexadecimal is text, of which `Utf8ToHex` is the conversion. `NumbersAreKept` compares
with what the caller meant, which is defined without `inferType`. `hexToAscii`, which clears the high bit of each byte, is
not modelled. Of a message, the payload comes back whole if the message is text, or binary without bytes from 128 up: the
others `protocol.ts:42-43` counts before it writes them by way of a string, in which such a byte takes two; the model does
the same and the property leaves them out.

## Runs

| Run | Question | Bounds |
| --- | --- | --- |
| `OnchainTree` | Does the frontier algorithm compute the root of the whole tree, and does the event tell of it? `RootIsReference`, `FrontierHoldsLeftSiblings`; does the service's port agree in any two instalments? `OffchainRecalculationAgrees` | height 3, all 8 leaves, two distinct values, batches up to 3: every frontier slot, a full tree, batches across subtree borders |
| `OffchainTree` | The service's recalculation alone: `NodesAreReference` (root and inner nodes), `ProofsVerify` (a proof leads its own leaf, and no other, to the root), `HashCountIsExact` | heights 1 to 4, every way to split up to 16 leaves |
| `MirrorSerial` | Is the stored root the contract's, and do proofs verify, when the service stops anywhere and the websocket is lost? `RecalculationMatchesChain`, `ProofsVerify` | one handler, height 2, 4 leaves (the full tree), 2 stops, 1 lost websocket |
| `MirrorRetrack` | Does tracking, untracking, pruning and restarting in any order keep everything? `TreeIsFull`, `TrackedIsListenedTo`, `MirrorOnlyGrows`; and `EveryLeafIsMirrored`, under fairness | one handler, height 2, 4 leaves, 2 stops |
| `Concurrent` | With handlers interleaving, failing, cut off: is everything stored, and everything in flight, of the contract? `TypeOK`, `MirrorFollowsChain`, `HandlersFollowChain` | two handlers, height 1, 2 leaves in one block or two, 1 stop, 1 lost websocket, any call may fail, symmetry of handlers |
| `RpcServer` | Do concurrent pushes with the same nonce lose, repeat or misreport a commitment? `OnePushUnderway`, `AnswersTellTheNode`, `ImplementsLog` (refinement of `CommitLog`); `EveryRequestEnds`, `AcceptedIsSettled` under fairness | three requests, so that a push can be replaced by one and overtaken by another; two leaves, so that the third finds the tree full; both kinds of node, three client types (one unknown to the factory), two gas prices |
| `OrgRegistry` | Who may change what, and do maps, list, events and cache agree? `EntriesAreKeyed`, `CachedYesIsTrue`, `OrgEventsTellOrgs`, `RegistryEventsTellRegistry`, `ImplementsDirectory` (refinement of `OrgDirectory`) | two accounts and the contract's address, four transactions: deploy, hand over, be refused, register twice, update |
| `ParticipantStack` | Do the stacks agree on members, shield and commitments while any step of a call fails and messages are lost? `MembershipIsMutual`, `WorkflowMatchesShield`, `ReturnsAreDoubleSigned`, `GenesisIsRebuilt`; `AcceptEnds`, `JoinIsLearnt` under fairness | an initiator and a supplier, two deployments (one may run while the invitation is written), two leaves, two calls (a request and a notice), states 0 and 1 |
| `Records` | Are the days, the choice and the teams right? `OfferedDaysAreWorkable`, `EarliestSharedDay`, `SetsAreThePossibleTeams` | 5 days, four suppliers, two in each of two categories, tasks of one and of three days, answers in any order |
| `Encoding` | Does what comes out stand for what went in? `NumbersAreKept`, `TextComesBack`, `MessageComesBack` | four digits of four values, three bytes, four limbs of three bits, fields of two bytes and strings of nought to five |
| `LostInsert` | finding: two callbacks overlap, `TreeIsFull` fails | two handlers, one block of 2 leaves |
| `UnansweredRequest` | finding: the supplier compares the first leaf with the hash of a promise and drops the request, `CommittedRequestIsAnswered` fails | one job, one leaf, one request |

Why the bounds are enough. Two handlers show every pairwise race, and no step waits for a third. Four leaves of a
height-2 tree visit every frontier slot and both the odd and the even case of every level. Two leaves are enough for
an older and a newer one, in one block and in two. Two stops reach a stop during the recovery from a stop. The
organizations, members and commitments of the other runs are few because each rule in the code relates two of them: two
accounts for a right and its violation, one initiator and one supplier for every message, three pushes for a
replacement.

What breaks when an assumption of the passing runs is given up. TLC finds each of these with clients that only track, height 2 and
two leaves, one in a block; `LostInsert.cfg` with `Procs <- OneHandler` and `MaxLeavesPerBlock = 1` is the start, and the first
column says what else to change.

| Change | Property violated | What happens |
| --- | --- | --- |
| `MaxLeavesPerBlock = 2`, `MaxCrashes = 1` | `TreeIsFull` | a stop between two leaves of one block; the start begins with the block after it (`blockchain/utils.js:61`) |
| `QuietTracking = FALSE` | `TreeIsFull` | a leaf mined between the log query of `baseline_track` and its subscription (`rpc-server.ts:277`) |
| `MaxSocketLosses = 1` | `TreeIsFull` | the websocket is closed, and its listeners are not registered again (`blockchain/utils.js:26`) |
| `BucketSize = 3` | `TreeIsFull` | leaves (nodes 3 to 6) lie in a second document, which nothing creates (`leaves.js:20`) |
| two handlers | `TrackedIsListenedTo` | two requests to track one contract both find it inactive (`rpc-server.ts:233`, `267`) |
| two handlers that also ask for roots | `RecalculationMatchesChain` | whole arrays that were read before are written back, or a recalculation is labelled with a leaf that came later (`utils.js:104`) |

Beside these, the last leaf of a tree writes the root into `nodes` truncated, so that no proof of a full tree verifies
(`utils.js:163`). Every such place is a hazard in `PROJECT.json`; one that no property covers has a note saying so.

Each passing run says what it assumes. `MirrorSerial` and `MirrorRetrack` have one handler at a time, one leaf per
block, no failing calls, and no leaf mined between a log query and the registration of the listener
(`QuietTracking`): outside these assumptions `LostInsert`, or a case of the table, breaks them.
`MirrorSerial` leaves untracking out because a callback that was scheduled before the untracking can run after the
next tracking and set `latestLeaf` back; the proofs then fail until the next leaf. `ProofsVerify` leaves out the full
tree, where the truncated root makes every proof fail.

Deadlock is checked in `MirrorRetrack`. Elsewhere the system may stop: a full contract, a tree that is up to date, or a
service whose start failed.

Fairness. `MirrorRetrack`: the event loop runs a handler that can go on (a handler that is not idle always can, which
is why `Fairness` speaks of `Idle`), scheduled callbacks start, notifications are delivered, and a stopped service is
started again. Nothing is assumed of clients, of mining or of stops. `RpcServer`: every await returns or throws, and the
node mines what it can; requests need not come. `ParticipantStack`: calls that were made go on, messages are delivered
and registrations are mined; the application need not make another call, a poll of `requireOrganization` need not fail,
and a published message may be lost.

## Theorems

Nothing is assumed but the `ASSUME`s on the constants, which TLC evaluates in the runs, and a theorem's own hypotheses
(only those about handlers that run one at a time, in `CommitMgrProofs`, and the lemmas about operators have any).

`MerkleTreeUtilsProofs` proves the operators right, for every height and every number of leaves. The two results the
components use are `PlanUpdateIsReference` (on a right frontier, `PlanUpdate` computes the root of the whole tree, nodes
that are the tree's, a right frontier again, and as many hashes as `getNumberOfHashes` says) and `ProofOfLeaf` (the
sibling path of a leaf folds to the root from that leaf's value and from no other). The argument: the ancestor of a leaf
on level `l` is in column `RightShift(leaf, l)`; the loop of `getFrontierSlot` finds the first level on which this column
is even (`FrontierSlot`); and `FrontierOf` says which node each slot has to hold after `m` leaves, so that adding a
leaf (`AddLeafStep`) and climbing to the root (`LastClimb`) read the left siblings they need. `ProofOfLeaf` rests on hash
terms being equal only if what was hashed is equal, and on distinct places having distinct heap indices
(`PlaceDistinct`). The loops of the code are recursive functions of the model. That such a function exists and meets its
equation is proved for each (the `...Exist` lemmas) by induction over a set of natural numbers (`InductionOver`).

`MerkleTreeProofs` proves of the contract, for any height and any sequence of single and batch insertions: `RootAlwaysReference`
(`RootIsReference`), `FrontierAlwaysHoldsLeftSiblings` (`FrontierHoldsLeftSiblings`) and `RecalculationAlwaysAgrees`
(`OffchainRecalculationAgrees`). The root alone is not inductive: the invariant adds that the frontier is `FrontierOf`
what was pushed.

It proves of `OffchainTree`, for any set of heights and any way to split the leaves: `HashCountAlwaysExact`
(`HashCountIsExact`), `NodesAlwaysReference` (`NodesAreReference`) and `ProofsAlwaysVerify` (`ProofsVerify`). The
invariant says that the first leaves are stored at their indices (`LeavesStored`), that the inner nodes over the hashed
ones are the reference tree's (`InnerReference`), and that the frontier and the root go with these.

`CommitMgrProofs` proves, for every number of handlers, height, bucket size and every value of the bounds:

* `TypeCorrect`: `Spec => []TypeOK`.
* `MirrorIsAuthentic`: `Spec => []MirrorFollowsChain`. However handlers interleave, fail or are cut off, the document
  never holds a leaf under a wrong index or a `latestLeaf` or recalculation label with a wrong block. Leaves may be
  missing (the findings show how), never false.
* `HandlersAreAuthentic`: `Spec => []HandlersFollowChain`.

The argument is one inductive invariant, `IInv`. `MirrorFollowsChain` alone is not inductive, because a handler writes
back an array it read earlier and a callback inserts a leaf that was notified earlier; `HandlersFollowChain` says that
all of that is of the contract too. `IInv` groups the two with the types, part by part (document, handlers, events,
counters), and there is one lemma for each action. Two facts carry it: the chain only grows, so what was a leaf stays
that leaf (`ChainGrows`), and inner nodes carry no `leafIndex`, so recalculations cannot forge a leaf
(`InnerNodeAuthentic`). What a recalculation computes is irrelevant to this invariant.

The second part of the module proves what concurrent handlers break, on the terms of `Serial`: one handler at a time, whose
calls do not fail; one leaf in each block; none mined between a log query and the registration of the listener; and a
tree whose nodes fit into the first bucket (no document is ever created for another). `MirrorSerial` and
`MirrorRetrack` are instances of `Serial`; the theorems hold for any height within the bucket, any length of the
contract's log and any number of stops and lost sockets:

* `RecalculationAlwaysMatches` (`RecalculationMatchesChain`): a root the service answers is the contract's after the
  leaf it names.
* `TrackedIsAlwaysListenedTo` (`TrackedIsListenedTo`) and `TreeIsAlwaysFull` (`TreeIsFull`), where the socket is never
  lost (`MaxSocketLosses = 0`, as in `MirrorRetrack`): no leaf is forgotten, whatever is untracked, pruned or stopped.
* `MirrorAlwaysGrows` (`MirrorOnlyGrows`): the writes of whole arrays take nothing back.
* `ProofsAlwaysVerify` (`ProofsVerify`), where clients only track and ask for roots (`Steady`, as in `MirrorSerial`).

The invariant of the first four is `Mirror`, inductive together with `IInv`: the i-th leaf is in block i
(`ChainSerial`); the document holds the first `Held` leaves and a right recalculation of some of them (`TreeSerial`);
there is one listener or none, and when (`ListenersSerial`); what the handler read is still so when it writes
(`HandlerSerial`); and what is on its way is in order and complete (`Pipeline`: each leaf notified, scheduled or queued
has its predecessor stored or ahead of it, and a document that is listened for misses only leaves that are on their
way). `ProofsVerify` needs more, `Tracking`: the leaves on their way are exactly those after `latestLeaf` (`Queued`);
`latestLeaf` is at most one behind the leaves stored, as after a stop between the two writes of `insertLeaf`
(`LeafBehind`); and the inner nodes are those of the recalculated leaves, save where a recalculation that was cut off
has already stored newer ones, so that repeating it completes the tree (`InnerSerial`, `PartReference`). With untracking
this invariant is false, for the reason given under "Runs".

`RpcServerProofs` proves, for any number of requests, leaves and gas prices: `TypeCorrect`; `WalletHasOnePush`
(`OnePushUnderway`); `AnswersAreTrue` (`AnswersTellTheNode`); and `ServiceImplementsLog`, the refinement of `CommitLog`.
The invariant says where a push can be: a handler has sent nothing until it waits for the answer (`HandlersConsistent`);
a sent push is in the pool, once, or has a receipt, and not both (`PoolConsistent`, `ReceiptsConsistent`); a leaf has the
receipt "mined" (`ChainConsistent`). A nonce read from the mined transactions never exceeds their count, and the node
takes none below it, so what the wallet has waiting carries exactly that count, and a second one replaces the first.

`OrgRegistryProofs` proves, for any accounts, labels, details and number of transactions: `TypeCorrect`; `EntriesKeyed`;
`CacheNeverLies` (`CachedYesIsTrue`); and `ContractsImplementDirectory`, the refinement of `OrgDirectory`. The invariant
adds to the types that only registered addresses have entries, which is what `updateOrg`'s check relies on. The
refinement goes through the cases of the external functions: each maps to the directory's step of the same meaning, or
to `Call`, which changes nothing. `OrgEventsAlwaysTellOrgs` (`OrgEventsTellOrgs`) and
`RegistryEventsAlwaysTellRegistry` (`RegistryEventsTellRegistry`) have an invariant of their own, `EventsInv`: for each
address and interface, the last event of its kind in the log tells the current manager, implementer or details, and the
registration events list the organizations in the order of their entries.

`WorkstepProofs` proves, for any organizations, jobs, states and bounds, and whichever steps may fail: `TypeCorrect`;
`MembersKnowEachOther` (`MembershipIsMutual`), on the terms named above, one acceptance of a stack after the other; `OneDeploymentEach` (`WorkflowMatchesShield`); `ReturnsAreSigned`
(`ReturnsAreDoubleSigned`); and `GenesisRebuilt` (`GenesisIsRebuilt`). The run has one supplier; the theorems hold for
any number of them. The invariant ties what an invitee holds to its invitation (`InviteeConsistent`): from the token on
its only counterparty is the initiator, and its shield is the invitation's unless its `init` came in between; an
invitation does not change once it is sent. A stack that is ready stays so, and the JOIN leaves when it becomes ready,
so the sender of a JOIN is ready (`MessagesConsistent`). `Allowed` says what the record
of one stack may become, so that each action's lemma is about one record. The commitments have an invariant of their
own (`LeavesAreCommitted`). `NoneAssumption` (no organization is the marker for "no token") is the only assumption
beside the initiator's being an organization and the number of deployments a natural number.

`RecordsProofs` proves, for any length of the calendar, any suppliers and calendars, every schedule and every order of
the answers: `OfferedDaysAlwaysWorkable` (`OfferedDaysAreWorkable`), `SelectedDayIsEarliest` (`EarliestSharedDay`) and
`SetsAlwaysTeams` (`SetsAreThePossibleTeams`). It assumes of a schedule what its formatting gives: codes that `MJcodes`
knows and windows of two integers (`SchedulesAssumption`). The invariant keeps what the selection rests on: nobody has
answered twice, so that no supplier is twice in an array, and a job that was started has answers of known types only.
The three arguments:

* Days: the longest free run `Max` finds is as long as the task exactly if every day of the task is free.
* The earliest day: `dayReducer` compares two counts. The loops that push what passes a test keep the places of what
  they keep (`AmongPlaces`), so the first count is that of the categories with somebody free; these are among the
  categories that answered, and sets of which one holds the other are equal when they are equally large
  (`ReducedAreShared`). The order of the answers does not enter.
* The teams: settings of the odometer are ordered by the first digit in which they differ. An increment leads to the
  next setting in that order (`IncrementIsNext`), so it leaves one setting less to come (`IncrementLeavesFewer`). That
  measure shows that the loop ends and lists each setting once (`CombineArraysLists`). Settings and teams correspond one to
  one, since the arrays hold each supplier once and types differ between arrays (`SettingsAreTeams`).

`EncodingProofs` proves `NumbersAlwaysKept` (`NumbersAreKept`), `TextAlwaysComesBack` (`TextComesBack`) and
`MessageAlwaysComesBack` (`MessageComesBack`): for numbers, texts and payloads of any length (of binary payloads, those without bytes from 128 up), any bases, any digits up to
15, any bytes, and limbs, buffers and fields of any size. What it assumes is what the callers send: digits of hexadecimal
strings (`DigitsAssumption`); bases from 2 on; at least one bit for each limb; fields of at least one byte, one for the
type; and of messages (`ContentAssumption`) that an opcode fits its field and holds no NUL, that a recipient and an
identifier have the width of theirs, and that a sender or shield in front of one, if too long, ends there. Without the
latter the property is false: an address that is too long would leave its end in a shorter neighbour. The signature
may have any length. The invariant (`Answered`) says that what was returned is what the function answers for its
argument; the rest are facts about the functions:

* Loops: each is a recursive function. That it exists and meets its equation follows from one lemma about a start and a
  step (`RunExists`); what it computes is proved by induction over a set of natural numbers (`InductionOver`).
* Numbers: the value of an array of digits is described by what the digits above each place stand for (`Aboves`), so
  that adding, doubling and converting are proved place by place and no power of the base is needed (`ConvertIs`). The
  powers enter with the sizes: a number is below the power of its length (`ValueBelow`), and not below that of one digit
  less if it has no leading zero (`ValueAbove`).
* Limbs and buffers: chunks of `n` bits are digits in base 2^n (`SplitIs`), and removing limbs from the front takes the
  rest of a division (`LowLimbs`).
* Messages: the fields are written in order, so that a byte holds what the last field reaching it wrote; no field is long
  enough to reach one that is too short (`Settled`), so each is covered by its own.

Model-checked only: liveness (`EveryLeafIsMirrored`, `EveryRequestEnds`, `AcceptedIsSettled`, `AcceptEnds`,
`JoinIsLearnt`), which rests on fairness and so on ENABLED, out of the prover's reach, and what the findings refute.
Every safety invariant and action property of the passing runs is a theorem. One limit of
the model's integers: as the contract's they do not overflow, while JavaScript's shifts have 32 bits, so that the loop of
`getFrontierSlot` in the service would not end for leaf 2^31 - 1, the last one of a tree of height 31.

## Not modelled

Listed with reasons in `PROJECT.json`. In the mirror: several contracts, chain reorganisations, `HASH_TYPE=mimc`
(configuration selects 32-byte nodes but the hash stays SHA-256), `getPathByLeafIndex` (no caller). `insertLeaves` is
internal and `Shield` does not call it; its comment says the service listens to `NewLeaves`, which the service does not,
so a contract derived from it would not be mirrored. What the reading requests answer is not composed with the
transaction manager: the mirror sees pushes as `Mine`.

In the participant stack: compiling circuits and generating proofs, which external tools do; the collections of users
and records in the Ident database; getters. In `core/privacy`: the wrappers of the modelled conversions for other types,
`hexToBytes` (which answers zeros, and which nothing uses) and the calls of the proving systems. In the record modules:
reading files, random calendars, and the text of documents.

`core/messaging` passes every call on to the NATS library; its delivery is part of `ParticipantStack`. `core/api` sends
one request for each method. `core/persistence` is stubs that throw. The database connection, `Ident` and the logger
keep no state the service uses. Circuits are data for an external compiler, and the connectors in Go and C# are
pass-through HTTP services.
