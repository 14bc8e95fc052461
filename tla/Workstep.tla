------------------------------ MODULE Workstep ------------------------------
(***************************************************************************)
(* The workstep of the bri-1 example on top of ParticipantStack: the       *)
(* initiator commits to a job and pushes the commitment's hash, asks the   *)
(* suppliers for their availability, and notifies the ones selected, who   *)
(* sign and answer (createCommitment, requestMgr, sendProtocolMessage and  *)
(* the Availability branches of dispatchProtocolMessage).                  *)
(*                                                                         *)
(* A hash stands for what is hashed.  The leaves are the shield's as a     *)
(* commitment manager answers them; CommitMgr models how it keeps them.    *)
(***************************************************************************)
EXTENDS ParticipantStack

CONSTANTS
    Jobs,
    States,         \* states of the workflow the application commits to
    MaxLeaves,
    MaxCalls,       \* messages the application sends
    Intentions      \* what Intention may be: it is not defined in the repository

ASSUME StatesAssumption == States \subseteq 0..5
ASSUME IntentionsAssumption ==
    Intentions \subseteq {"words", "request is 0", "response is 0"}

VARIABLES
    intention,  \* the values of Intention
    drafts,     \* the commitment the initiator is about to push, if any
    leaves,     \* hashes in the shield's tree
    calls,
    available   \* availabilityData: the suppliers whose answer the initiator has

workstep == <<intention, drafts, leaves, calls, available>>
allVars == <<vars, workstep>>
core == <<config, stack, workflowState, chain>>

WorkstepInit ==
    /\ Init
    /\ intention \in Intentions
    /\ drafts = {}
    /\ leaves = <<>>
    /\ calls = 0
    /\ available = {}

-----------------------------------------------------------------------------
(* Commitments                                                             *)

\* state == bigInt(k): an object is the same as no other object, except that
\* zero is compared by its value; the string of a parsed message is converted.
StateEquals(state, k) == state.value = k /\ (k = 0 \/ state.parsed)

StateIn(state, set) == \E k \in set : StateEquals(state, k)

NoSupplier == [supplier |-> 0, documents |-> 0, contracts |-> 0]

\* Mutant: the last leaf is always committed to.
CreateCommitmentOnLast(job, state, container, lastLeaf) ==
    [job |-> job, state |-> state.value, container |-> container,
     nc |-> [job |-> job, state |-> state.value, last |-> lastLeaf,
             supplier |-> container.supplier, documents |-> container.documents,
             contracts |-> 0]]

\* createCommitment: the container is replaced by the state in states 1, 2
\* and 5, and hashed in the others, its contracts in states 3 and 4 only.
CreateCommitment(job, state, container, lastLeaf) ==
    LET v == state.value
        marked == StateIn(state, {1, 2, 5})
        last == IF StateEquals(state, 0) THEN 0 ELSE lastLeaf
        hashed == [job |-> job, state |-> v, last |-> last,
                   supplier |-> IF marked THEN 0 ELSE container.supplier,
                   documents |-> IF marked THEN 0 ELSE container.documents,
                   contracts |-> IF StateIn(state, {3, 4}) THEN container.contracts ELSE 0]
    IN  [job |-> job, state |-> v, last |-> last, nc |-> hashed,
         container |-> IF marked THEN [supplier |-> v, documents |-> v, contracts |-> v]
                                 ELSE container]

\* What the JSON text of a promise shows of it: nothing.
PromiseHash == [text |-> "{}"]

Object(n) == [value |-> n, parsed |-> FALSE]
Parsed(n) == [value |-> n, parsed |-> TRUE]

\* A state other than 0 needs a leaf to commit to; without one the call rejects.
\* The application starts the workstep when there is a member, as the test does.
Commit ==
    /\ stack[Initiator].counterparties # <<>> /\ drafts = {} /\ Len(leaves) < MaxLeaves
    /\ \E job \in Jobs, n \in States :
          /\ n = 0 \/ leaves # <<>>
          /\ drafts' = {CreateCommitment(job, Object(n), NoSupplier, Len(leaves))}
    /\ UNCHANGED <<core, messages, intention, leaves, calls, available>>

\* requestMgr with baseline_verifyAndPush, which waits for the transaction.  The
\* hash is of the commitment, or of the promise if the application did not
\* wait for it.
Push ==
    /\ drafts # {}
    /\ \/ \E leaf \in drafts \cup {PromiseHash} : leaves' = Append(leaves, leaf)
       \/ "push" \in Failing /\ UNCHANGED leaves
    /\ drafts' = {}
    /\ UNCHANGED <<core, messages, intention, calls, available>>

-----------------------------------------------------------------------------
(* Messages                                                                *)

Sent(m) == CanSend(m.from, m.to) /\ Publish(m)

\* The application's calls of sendProtocolMessage, to a member.
Call(m) ==
    /\ calls < MaxCalls /\ calls' = calls + 1
    /\ Sent(m)
    /\ UNCHANGED <<core, handling, intention, drafts, leaves, available>>

RequestMessage(q, job, n) ==
    [kind |-> "request", from |-> Initiator, to |-> q, job |-> job, state |-> n]
ResponseMessage(q, p) == [kind |-> "response", from |-> q, to |-> p]
NoticeMessage(q) == [kind |-> "NS", from |-> Initiator, to |-> q, signatures |-> <<Initiator>>]
ReturnMessage(m, p) ==
    [kind |-> "RN", from |-> m.to, to |-> p, signatures |-> Append(m.signatures, m.to)]

SendRequest ==
    \E q \in ToSet(stack[Initiator].counterparties), job \in Jobs, n \in States :
        Call(RequestMessage(q, job, n))

SendNotice == \E q \in ToSet(stack[Initiator].counterparties) : Call(NoticeMessage(q))

\* To every counterparty, not waiting for any: each send may fail.
Broadcast(from, ms) ==
    \E delivered \in SUBSET {m \in ms : CanSend(from, m.to) /\ stack[m.to].subscribed} :
        net' = net \cup delivered

Drop(m) == handling' = handling \ {m} /\ UNCHANGED net

\* MJ.intention = Intention.Request is an assignment: whatever is no response
\* is a request if Request is truthy.
IsRequest(m) == m.kind = "request" /\ intention # "request is 0"
IsResponse(m) == m.kind = "response" /\ intention = "words"

\* The commitment is not awaited, so its hash is the promise's.  An empty tree
\* has no first leaf to take the hash of.
HandleRequest(m) ==
    LET rebuilt == PromiseHash
        matches == leaves # <<>> /\ Head(leaves) = rebuilt
    IN
    /\ m.kind = "request"
    /\ \/ /\ IsRequest(m) /\ matches
          /\ handling' = (handling \ {m}) \cup {[m EXCEPT !.kind = "availability"]}
          /\ UNCHANGED net
       \/ ~(IsRequest(m) /\ matches) /\ Drop(m)
    /\ UNCHANGED <<core, workstep>>

\* requestAvailability, then the answer.
AnswerRequest(m) ==
    /\ m.kind = "availability"
    /\ handling' = handling \ {m}
    /\ Broadcast(m.to, {ResponseMessage(m.to, p) : p \in ToSet(stack[m.to].counterparties)})
    /\ UNCHANGED <<core, workstep>>

\* A response that is taken for a request has no job: that throws.
HandleResponse(m) ==
    /\ m.kind = "response"
    /\ available' = IF IsResponse(m) THEN available \cup {m.from} ELSE available
    /\ Drop(m)
    /\ UNCHANGED <<core, intention, drafts, leaves, calls>>

\* Mutant: the notice is sent on as it came.
HandleNoticeUnsigned(m) ==
    /\ m.kind = "NS"
    /\ handling' = handling \ {m}
    /\ Broadcast(m.to, {[ReturnMessage(m, p) EXCEPT !.signatures = m.signatures] :
                           p \in ToSet(stack[m.to].counterparties)})
    /\ UNCHANGED <<core, workstep>>

\* The supplier adds its signature and sends both back.
HandleNotice(m) ==
    /\ m.kind = "NS"
    /\ handling' = handling \ {m}
    /\ Broadcast(m.to, {ReturnMessage(m, p) : p \in ToSet(stack[m.to].counterparties)})
    /\ UNCHANGED <<core, workstep>>

\* The signed document is hashed and logged.
HandleReturn(m) ==
    /\ m.kind = "RN"
    /\ Drop(m)
    /\ UNCHANGED <<core, workstep>>

Dispatch ==
    \E m \in handling :
        \/ HandleRequest(m) \/ AnswerRequest(m) \/ HandleResponse(m)
        \/ HandleNotice(m) \/ HandleReturn(m)

-----------------------------------------------------------------------------
WorkstepNext ==
    \/ Next /\ UNCHANGED workstep
    \/ Commit \/ Push \/ SendRequest \/ SendNotice \/ Dispatch

WorkstepSpec == WorkstepInit /\ [][WorkstepNext]_allVars /\ Fairness /\ WF_allVars(Dispatch)

-----------------------------------------------------------------------------
\* Properties

\* What comes back from a supplier carries the operator's signature and then
\* that supplier's own.
ReturnsAreDoubleSigned ==
    \A m \in net \cup handling : m.kind = "RN" => m.signatures = <<m.to, m.from>>

\* A supplier that reads the job from its message rebuilds the genesis
\* commitment, whatever has been pushed since.
GenesisIsRebuilt ==
    \A k \in DOMAIN leaves :
        leaves[k] # PromiseHash /\ leaves[k].state = 0 =>
            leaves[k] = CreateCommitment(leaves[k].job, Parsed(0), NoSupplier, Len(leaves))

\* A supplier asked about the job whose commitment is the first leaf looks its
\* availability up.
CommittedRequestIsAnswered ==
    [][\A m \in handling :
          /\ IsRequest(m) /\ m \notin handling'
          /\ leaves # <<>>
          /\ Head(leaves) = CreateCommitment(m.job, Parsed(m.state), NoSupplier, 0)
          => [m EXCEPT !.kind = "availability"] \in handling']_allVars
=============================================================================
