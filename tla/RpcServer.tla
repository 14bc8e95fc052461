----------------------------- MODULE RpcServer -----------------------------
(***************************************************************************)
(* The commitment manager's JSON-RPC front end (rpc-server.ts) and its     *)
(* transaction manager (tx-manager/), from a request to its answer, with   *)
(* the Ethereum node's transaction pool and the relay as the environment.  *)
(*                                                                         *)
(* Requests interleave at every await.  Each push carries a commitment of  *)
(* its own, so the request stands for it.  What the read methods answer is *)
(* CommitMgr's subject: here a reading is a value or a failure.            *)
(***************************************************************************)
EXTENDS Naturals, Sequences, FiniteSets

CONSTANTS
    Requests,
    ClientTypes,    \* values ETH_CLIENT_TYPE may have
    GasPrices,      \* prices the node may quote, already multiplied
    Width,          \* leaves of the shield contract's tree
    CallsFail       \* whether calls of the node and the database may fail

ASSUME GasPricesAssumption == GasPrices \subseteq Nat /\ GasPrices # {}
ASSUME WidthAssumption == Width \in Nat
ASSUME CallsFailAssumption == CallsFail \in BOOLEAN

VARIABLES
    clientType, \* ETH_CLIENT_TYPE
    autoMine,   \* whether the node mines at once what it is sent, as ganache does
    req,        \* every request's handler
    pool,       \* transactions the node or the relay has yet to mine
    count,      \* transactions mined of each sender: its next nonce
    receipt,    \* what became of each push: "none", "mined", "reverted", "replaced"
    chain       \* the contract's leaves

env == <<clientType, autoMine>>
vars == <<clientType, autoMine, req, pool, count, receipt, chain>>
node == <<pool, count, receipt, chain>>

Reads == {"getCommit"}      \* so are getCommits and getTracked: no try block
CaughtReads == {"getRoot"}  \* and getProof
Methods == Reads \cup CaughtReads \cup {"verifyAndPush", "relay"}

Senders == {"wallet", "relayer"}
NoAnswer == "no answer yet"
Answers == {NoAnswer, "error", "value", "hash", "no hash"}
Pcs == {"new", "read", "relay", "find", "nonce", "gasPrice", "estimate", "send",
        "response", "done", "hung"}

NewRequest == [method |-> "relay", pc |-> "new", nonce |-> 0, gasPrice |-> 0,
               accepted |-> FALSE, answer |-> NoAnswer]

Init ==
    /\ clientType \in ClientTypes
    /\ autoMine \in BOOLEAN
    /\ req = [r \in Requests |-> NewRequest]
    /\ pool = {}
    /\ count = [s \in Senders |-> 0]
    /\ receipt = [r \in Requests |-> "none"]
    /\ chain = <<>>

At(r, pc) == req[r].pc = pc
Goto(r, pc) == req' = [req EXCEPT ![r].pc = pc]
Answer(r, answer) == req' = [req EXCEPT ![r].pc = "done", ![r].answer = answer]

\* An exception outside of every try block: done is never called.
Hang(r) == Goto(r, "hung")

-----------------------------------------------------------------------------
(* The front end.                                                          *)

\* validateParams, for any method: a missing or undefined parameter.  count
\* of getCommits is validated as well.
RejectParams(r) ==
    /\ At(r, "new")
    /\ \E m \in Methods \ {"relay"} :
          req' = [req EXCEPT ![r].method = m, ![r].pc = "done", ![r].answer = "error"]
    /\ UNCHANGED <<env, node>>

\* The router: methods the server does not define are relayed.
FirstAwait(m) == CASE m = "verifyAndPush" -> "find"
                   [] m = "relay" -> "relay"
                   [] OTHER -> "read"

Receive(r) ==
    /\ At(r, "new")
    /\ \E m \in Methods : req' = [req EXCEPT ![r].method = m, ![r].pc = FirstAwait(m)]
    /\ UNCHANGED <<env, node>>

Read(r) ==
    /\ At(r, "read")
    /\ \/ Answer(r, "value")
       \/ CallsFail /\ req[r].method \in Reads /\ Hang(r)
       \/ req[r].method \in CaughtReads /\ Answer(r, "error")
    /\ UNCHANGED <<env, node>>

\* relayRequest passes the node's answer or its error on.
Relay(r) ==
    /\ At(r, "relay")
    /\ \/ \E answer \in {"value", "error"} : Answer(r, answer)
       \/ CallsFail /\ Hang(r)
    /\ UNCHANGED <<env, node>>

\* txManagerServiceFactory throws on any other type.
KnownClient == clientType \in {"infura-gas", "infura", "besu", "ganache"}

\* baseline_verifyAndPush up to the transaction manager; it answers an error
\* when the database has no document of the contract.
FindRecord(r) ==
    /\ At(r, "find")
    /\ \/ KnownClient /\ Goto(r, "nonce")
       \/ Answer(r, "error")
       \/ (CallsFail \/ ~KnownClient) /\ Hang(r)
    /\ UNCHANGED <<env, node>>

-----------------------------------------------------------------------------
(* The transaction manager.  insertLeaf catches whatever fails from here.  *)

UsesRelay == clientType = "infura-gas"

Fails(r) == CallsFail /\ Answer(r, "error")

\* Mutant: the nonce of the last transaction is used again.
GetNonceOfLast(r) ==
    /\ At(r, "nonce")
    /\ \/ req' = [req EXCEPT ![r].nonce = count["wallet"] - 1,
                             ![r].pc = IF UsesRelay THEN "estimate" ELSE "gasPrice"]
       \/ Fails(r)
    /\ UNCHANGED <<env, node>>

\* Mutant: the count includes what waits in the pool.
GetNonceOfPool(r) ==
    /\ At(r, "nonce")
    /\ \/ req' = [req EXCEPT ![r].nonce = count["wallet"] + Cardinality(pool),
                             ![r].pc = IF UsesRelay THEN "estimate" ELSE "gasPrice"]
       \/ Fails(r)
    /\ UNCHANGED <<env, node>>

\* Mutant: the nonce is kept in memory, and counts pushes that came to nothing.
GetNonceKept(r) ==
    /\ At(r, "nonce")
    /\ \/ req' = [req EXCEPT ![r].nonce = Cardinality({x \in Requests \ {r} :
                                 req[x].method = "verifyAndPush" /\ ~At(x, "nonce")}),
                             ![r].pc = IF UsesRelay THEN "estimate" ELSE "gasPrice"]
       \/ Fails(r)
    /\ UNCHANGED <<env, node>>

\* getTransactionCount: the transactions mined, not those in the pool.
GetNonce(r) ==
    /\ At(r, "nonce")
    /\ \/ req' = [req EXCEPT ![r].nonce = count["wallet"],
                             ![r].pc = IF UsesRelay THEN "estimate" ELSE "gasPrice"]
       \/ Fails(r)
    /\ UNCHANGED <<env, node>>

GetGasPrice(r) ==
    /\ At(r, "gasPrice")
    /\ \/ \E price \in GasPrices :
             req' = [req EXCEPT ![r].gasPrice = price, ![r].pc = "estimate"]
       \/ Fails(r)
    /\ UNCHANGED <<env, node>>

TreeFull == Len(chain) >= Width

\* Mutant: an estimate that reverts is tried again.
EstimateGasWaits(r) ==
    /\ At(r, "estimate")
    /\ ~TreeFull /\ Goto(r, "send")
    /\ UNCHANGED <<env, node>>

\* The estimate runs the transaction: it reverts when the tree is full, and
\* when the contract's verifier refuses the proof.
EstimateGas(r) ==
    /\ At(r, "estimate")
    /\ \/ ~TreeFull /\ Goto(r, "send")
       \/ Answer(r, "error")
    /\ UNCHANGED <<env, node>>

Tx(r, sender, nonce) ==
    [request |-> r, sender |-> sender, nonce |-> nonce, gasPrice |-> req[r].gasPrice]

\* A mined transaction uses its nonce up even when the contract reverts it.
Execute(tx) ==
    /\ count' = [count EXCEPT ![tx.sender] = @ + 1]
    /\ chain' = IF TreeFull THEN chain ELSE Append(chain, tx.request)

SameNonce(tx) == {t \in pool : t.sender = tx.sender /\ t.nonce = tx.nonce}

\* What the node takes: the next transaction if it mines at once; else one
\* that is not too old, and dearer than the one of its nonce that waits.
Acceptable(tx) ==
    IF autoMine THEN tx.nonce = count[tx.sender]
                ELSE /\ tx.nonce >= count[tx.sender]
                     /\ \A t \in SameNonce(tx) : t.gasPrice < tx.gasPrice

Fate == IF TreeFull THEN "reverted" ELSE "mined"

Submit(tx) ==
    IF autoMine
    THEN /\ Execute(tx)
         /\ receipt' = [receipt EXCEPT ![tx.request] = Fate]
         /\ UNCHANGED pool
    ELSE /\ pool' = (pool \ SameNonce(tx)) \cup {tx}
         /\ receipt' = [x \in Requests |-> IF \E t \in SameNonce(tx) : t.request = x
                                           THEN "replaced" ELSE receipt[x]]
         /\ UNCHANGED <<count, chain>>

\* The relay signs a transaction of its own, in the order of the requests.
RelayNonce == count["relayer"] + Cardinality(pool)

SubmittedTx(r) == IF UsesRelay THEN Tx(r, "relayer", RelayNonce)
                               ELSE Tx(r, "wallet", req[r].nonce)

Send(r) ==
    LET tx == SubmittedTx(r) IN
    /\ At(r, "send")
    /\ \/ /\ Acceptable(tx)
          /\ Submit(tx)
          /\ req' = [req EXCEPT ![r].pc = "response", ![r].accepted = TRUE]
       \/ /\ Acceptable(tx) => CallsFail
          /\ req' = [req EXCEPT ![r].pc = "response"]
          /\ UNCHANGED node
    /\ UNCHANGED env

\* Mutant: a push whose answer is lost is sent again.
RespondRetries(r) ==
    /\ At(r, "response")
    /\ \/ Answer(r, IF req[r].accepted THEN "hash" ELSE "no hash")
       \/ CallsFail /\ Goto(r, "nonce")
    /\ UNCHANGED <<env, node>>

\* Mutant: the hash is computed and answered whatever the node said.
RespondOwnHash(r) ==
    /\ At(r, "response")
    /\ Answer(r, "hash") \/ Fails(r)
    /\ UNCHANGED <<env, node>>

\* res.result is answered; res.error is not looked at.  A call that fails may
\* have reached the node.
Respond(r) ==
    /\ At(r, "response")
    /\ \/ Answer(r, IF req[r].accepted THEN "hash" ELSE "no hash")
       \/ Fails(r)
    /\ UNCHANGED <<env, node>>

-----------------------------------------------------------------------------
(* The environment.                                                        *)

Mine ==
    /\ \E tx \in pool :
          /\ tx.nonce = count[tx.sender]
          /\ Execute(tx)
          /\ pool' = pool \ {tx}
          /\ receipt' = [receipt EXCEPT ![tx.request] = Fate]
    /\ UNCHANGED <<env, req>>

Handle(r) ==
    \/ Read(r) \/ Relay(r) \/ FindRecord(r) \/ GetNonce(r) \/ GetGasPrice(r)
    \/ EstimateGas(r) \/ Send(r) \/ Respond(r)

Next == Mine \/ \E r \in Requests : RejectParams(r) \/ Receive(r) \/ Handle(r)

\* Every await returns or throws, and the node goes on mining what it can.
Fairness == WF_vars(Mine) /\ \A r \in Requests : WF_vars(Handle(r))

Spec == Init /\ [][Next]_vars /\ Fairness

-----------------------------------------------------------------------------
\* Properties

Transactions == [request : Requests, sender : Senders, nonce : Nat, gasPrice : Nat]

\* Every request's handler, the pool and the receipts have their types.
TypeOK ==
    /\ clientType \in ClientTypes
    /\ autoMine \in BOOLEAN
    /\ req \in [Requests -> [method : Methods, pc : Pcs, nonce : Nat, gasPrice : Nat,
                             accepted : BOOLEAN, answer : Answers]]
    /\ pool \subseteq Transactions
    /\ count \in [Senders -> Nat]
    /\ receipt \in [Requests -> {"none", "mined", "reverted", "replaced"}]
    /\ chain \in Seq(Requests)

\* Signing with the count of mined transactions lets the wallet have at most
\* one commitment underway.
OnePushUnderway ==
    \A tx, other \in pool : tx.sender = "wallet" /\ other.sender = "wallet" => tx = other

\* A hash is answered only for a transaction the node took, and a push that is
\* answered without one has left no trace.
AnswersTellTheNode ==
    \A r \in Requests :
        LET known == receipt[r] # "none" \/ \E tx \in pool : tx.request = r IN
        /\ req[r].answer = "hash" => known
        /\ req[r].answer = "no hash" => ~known

Log == INSTANCE CommitLog WITH Pushes <- Requests, pushed <- chain

\* The contract's leaves are the log the service promises.
ImplementsLog == Log!LogSpec

\* Every request is answered, or its handler died of an exception no try
\* block catches.
EveryRequestEnds ==
    \A r \in Requests : ~At(r, "new") ~> (At(r, "done") \/ At(r, "hung"))

\* What the node has accepted is mined, reverted or replaced, and never waits
\* for a nonce that does not come.
AcceptedIsSettled == \A r \in Requests : req[r].accepted ~> receipt[r] # "none"
=============================================================================
