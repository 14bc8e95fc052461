-------------------------- MODULE RpcServerProofs --------------------------
(***************************************************************************)
(* Theorems about RpcServer, for any number of requests, client types,     *)
(* gas prices and leaves, whether or not calls fail.                       *)
(***************************************************************************)
EXTENDS RpcServer, FiniteSetTheorems, TLAPS

HandlerType == [method : Methods, pc : Pcs, nonce : Nat, gasPrice : Nat,
                accepted : BOOLEAN, answer : Answers]

-----------------------------------------------------------------------------
(* The inductive invariant.                                                *)

\* A handler has sent its transaction only once it waits for the answer, and
\* answers what it was told.
HandlerConsistent(h) ==
    /\ h.nonce <= count["wallet"]
    /\ h.accepted => h.pc \in {"response", "done"}
    /\ h.answer # NoAnswer => h.pc = "done"
    /\ h.answer = "hash" => h.accepted
    /\ h.answer = "no hash" => ~h.accepted

HandlersConsistent == \A r \in Requests : HandlerConsistent(req[r])

\* A transaction waits, or has become a receipt, and not both.
Waiting(r) == \E tx \in pool : tx.request = r

PoolConsistent ==
    /\ IsFiniteSet(pool)
    /\ autoMine => pool = {}
    /\ \A tx \in pool : req[tx.request].accepted /\ receipt[tx.request] = "none"
    /\ \A tx, other \in pool : tx.request = other.request => tx = other
    /\ \A tx \in pool : tx.sender = "wallet" => tx.nonce = count["wallet"]
    /\ OnePushUnderway

ReceiptsConsistent ==
    \A r \in Requests : req[r].accepted <=> Waiting(r) \/ receipt[r] # "none"

\* The leaves are pushes that were mined, none of them twice.
ChainConsistent ==
    /\ \A k \in DOMAIN chain : receipt[chain[k]] = "mined"
    /\ \A j, k \in DOMAIN chain : chain[j] = chain[k] => j = k

IInv ==
    /\ TypeOK
    /\ HandlersConsistent
    /\ PoolConsistent
    /\ ReceiptsConsistent
    /\ ChainConsistent

LEMMA InitIInv == Init => IInv
<1> SUFFICES ASSUME Init PROVE IInv
    OBVIOUS
<1>1. NewRequest \in HandlerType
    BY DEF NewRequest, HandlerType, Methods, Reads, CaughtReads, Pcs, Answers, NoAnswer
<1>2. TypeOK
    BY <1>1 DEF Init, TypeOK, HandlerType, Senders
<1>3. HandlersConsistent
  <2>1. count["wallet"] = 0
      BY DEF Init, Senders
  <2>2. HandlerConsistent(NewRequest)
      BY <2>1 DEF HandlerConsistent, NewRequest, NoAnswer
  <2> QED BY <2>2 DEF Init, HandlersConsistent
<1>4. PoolConsistent
    BY FS_EmptySet DEF Init, PoolConsistent, OnePushUnderway
<1>5. ReceiptsConsistent
    BY DEF Init, ReceiptsConsistent, NewRequest, Waiting
<1>6. ChainConsistent
    BY DEF Init, ChainConsistent
<1> QED BY <1>2, <1>3, <1>4, <1>5, <1>6 DEF IInv

-----------------------------------------------------------------------------
(* Steps that leave the node alone.                                        *)

\* A handler goes on without the node having taken anything.
OneStep(r) ==
    /\ req' \in [Requests -> HandlerType]
    /\ \A x \in Requests : x # r => req'[x] = req[x]
    /\ UNCHANGED <<env, node>>

LEMMA HandlerStep ==
    ASSUME IInv, NEW r \in Requests, OneStep(r),
           req'[r].accepted = req[r].accepted, HandlerConsistent(req'[r])
    PROVE  IInv'
<1> USE DEF IInv, env, node, OneStep
<1>1. TypeOK'
    BY DEF TypeOK, HandlerType
<1>2. HandlersConsistent'
    BY DEF HandlersConsistent, HandlerConsistent
<1>3. \A x \in Requests : req'[x].accepted = req[x].accepted
    OBVIOUS
<1>4. PoolConsistent'
    BY <1>3 DEF PoolConsistent, OnePushUnderway, TypeOK, Transactions
<1>5. ReceiptsConsistent'
    BY <1>3 DEF ReceiptsConsistent, Waiting
<1>6. ChainConsistent'
    BY DEF ChainConsistent
<1> QED BY <1>1, <1>2, <1>4, <1>5, <1>6

\* What a step before the sending makes of a handler.
MovedOn(h, g) ==
    /\ g.accepted = h.accepted
    /\ g.nonce <= count["wallet"]
    /\ g.answer \in {NoAnswer, "value", "error"}
    /\ g.answer # NoAnswer => g.pc = "done"

\* Every step of a handler before its transaction is sent.
LEMMA QuietStep ==
    ASSUME IInv, NEW r \in Requests,
           \/ RejectParams(r) \/ Receive(r) \/ Read(r) \/ Relay(r) \/ FindRecord(r)
           \/ GetNonce(r) \/ GetGasPrice(r) \/ EstimateGas(r)
    PROVE  IInv'
<1>1. /\ req[r] \in HandlerType /\ req \in [Requests -> HandlerType]
      /\ HandlerConsistent(req[r]) /\ count["wallet"] \in Nat
    BY DEF IInv, TypeOK, HandlerType, HandlersConsistent, Senders
<1>2. ~At(r, "response") /\ ~At(r, "done")
    BY DEF RejectParams, Receive, Read, Relay, FindRecord, GetNonce, GetGasPrice,
           EstimateGas, At
<1>3. req[r].answer = NoAnswer /\ req[r].nonce <= count["wallet"]
    BY <1>1, <1>2 DEF HandlerConsistent, At
<1>4. UNCHANGED <<env, node>>
    BY DEF RejectParams, Receive, Read, Relay, FindRecord, GetNonce, GetGasPrice, EstimateGas
<1>5. OneStep(r) /\ MovedOn(req[r], req'[r])
  <2> USE <1>1, <1>3, <1>4
  <2>1. {"done", "nonce", "gasPrice", "estimate", "send", "hung", "find", "relay", "read"} \subseteq Pcs
      BY DEF Pcs
  <2>2. {"error", "value"} \subseteq Answers
      BY DEF Answers
  <2>3. ASSUME NEW pc \in Pcs, Goto(r, pc)
        PROVE  OneStep(r) /\ MovedOn(req[r], req'[r])
      BY <2>3 DEF Goto, OneStep, MovedOn, HandlerType
  <2>4. ASSUME NEW answer \in {"value", "error"}, Answer(r, answer)
        PROVE  OneStep(r) /\ MovedOn(req[r], req'[r])
    <3>1. "done" \in Pcs /\ answer \in Answers
        BY <2>1, <2>2
    <3>2. req' = [req EXCEPT ![r].pc = "done", ![r].answer = answer]
        BY <2>4 DEF Answer
    <3>3. OneStep(r)
        BY <3>1, <3>2 DEF OneStep, HandlerType
    <3>4. MovedOn(req[r], req'[r])
        BY <3>1, <3>2 DEF MovedOn, HandlerType
    <3> QED BY <3>3, <3>4
  <2>5. CASE RejectParams(r)
    <3>1. PICK m \in Methods : req' = [req EXCEPT ![r].method = m, ![r].pc = "done",
                                                 ![r].answer = "error"]
        BY <2>5 DEF RejectParams
    <3>2. "done" \in Pcs /\ "error" \in Answers
        BY <2>1, <2>2
    <3>3. OneStep(r)
        BY <3>1, <3>2 DEF OneStep, HandlerType
    <3>4. MovedOn(req[r], req'[r])
        BY <3>1 DEF MovedOn, HandlerType
    <3> QED BY <3>3, <3>4
  <2>6. CASE Receive(r)
    <3>1. PICK m \in Methods : req' = [req EXCEPT ![r].method = m, ![r].pc = FirstAwait(m)]
        BY <2>6 DEF Receive
    <3>2. FirstAwait(m) \in Pcs
        BY <2>1 DEF FirstAwait
    <3> HIDE DEF FirstAwait
    <3> QED BY <3>1, <3>2 DEF OneStep, MovedOn, HandlerType
  <2>7. CASE GetNonce(r)
    <3> DEFINE next == IF UsesRelay THEN "estimate" ELSE "gasPrice"
    <3>1. \/ req' = [req EXCEPT ![r].nonce = count["wallet"], ![r].pc = next]
          \/ \E answer \in {"value", "error"} : Answer(r, answer)
        BY <2>7 DEF GetNonce, Fails
    <3>2. next \in Pcs
        BY <2>1
    <3> HIDE DEF next
    <3>3. ASSUME NEW n \in Nat, NEW pc \in Pcs, n <= count["wallet"],
                 req' = [req EXCEPT ![r].nonce = n, ![r].pc = pc]
          PROVE  OneStep(r) /\ MovedOn(req[r], req'[r])
      <4>1. OneStep(r)
          BY <3>3 DEF OneStep, HandlerType
      <4>2. req'[r].nonce = n /\ req'[r].accepted = req[r].accepted
            /\ req'[r].answer = req[r].answer
          BY <3>3 DEF HandlerType
      <4> QED BY <3>3, <4>1, <4>2 DEF MovedOn
    <3>4. count["wallet"] \in Nat /\ count["wallet"] <= count["wallet"]
        OBVIOUS
    <3> QED BY <2>4, <3>1, <3>2, <3>3, <3>4
  <2>8. CASE GetGasPrice(r)
    <3>1. ASSUME NEW price \in GasPrices,
                 req' = [req EXCEPT ![r].gasPrice = price, ![r].pc = "estimate"]
          PROVE  OneStep(r) /\ MovedOn(req[r], req'[r])
        BY <2>1, <3>1, GasPricesAssumption DEF OneStep, MovedOn, HandlerType
    <3> QED BY <2>4, <2>8, <3>1 DEF GetGasPrice, Fails
  <2>9. CASE Read(r) \/ Relay(r) \/ FindRecord(r) \/ EstimateGas(r)
      BY <2>1, <2>3, <2>4, <2>9 DEF Read, Relay, FindRecord, EstimateGas, Hang
  <2> QED BY <2>5, <2>6, <2>7, <2>8, <2>9
<1>6. HandlerConsistent(req'[r])
    BY <1>1, <1>2, <1>5 DEF HandlerConsistent, MovedOn, NoAnswer, At
<1> QED BY <1>5, <1>6, HandlerStep DEF MovedOn

\* The answer to a push.
LEMMA RespondStep == ASSUME IInv, NEW r \in Requests, Respond(r) PROVE IInv'
<1>1. /\ req[r] \in HandlerType /\ req \in [Requests -> HandlerType]
      /\ HandlerConsistent(req[r])
    BY DEF IInv, TypeOK, HandlerType, HandlersConsistent
<1>2. PICK answer \in {"hash", "no hash", "error"} :
          /\ req' = [req EXCEPT ![r].pc = "done", ![r].answer = answer]
          /\ answer = "hash" => req[r].accepted
          /\ answer = "no hash" => ~req[r].accepted
  <2>1. CASE Fails(r)
      BY <2>1 DEF Fails, Answer
  <2>2. CASE Answer(r, IF req[r].accepted THEN "hash" ELSE "no hash")
      BY <1>1, <2>2 DEF Answer, HandlerType
  <2> QED BY <2>1, <2>2 DEF Respond
<1>3. "done" \in Pcs /\ answer \in Answers
    BY DEF Pcs, Answers
<1>4. OneStep(r)
    BY <1>1, <1>2, <1>3 DEF OneStep, HandlerType, Respond
<1>5. /\ req'[r].accepted = req[r].accepted /\ req'[r].nonce = req[r].nonce
      /\ req'[r].pc = "done" /\ req'[r].answer = answer
    BY <1>1, <1>2 DEF HandlerType
<1>6. HandlerConsistent(req'[r])
    BY <1>1, <1>2, <1>5 DEF HandlerConsistent
<1> QED BY <1>4, <1>5, <1>6, HandlerStep

-----------------------------------------------------------------------------
(* Steps of the node.                                                      *)

\* A transaction that is mined adds its push to the leaves, or reverts.
LEMMA ExecuteStep ==
    ASSUME IInv, NEW tx \in Transactions, receipt[tx.request] = "none", Execute(tx),
           receipt' = [receipt EXCEPT ![tx.request] = Fate]
    PROVE  /\ ChainConsistent'
           /\ chain' \in Seq(Requests)
           /\ receipt' \in [Requests -> {"none", "mined", "reverted", "replaced"}]
           /\ \A x \in Requests : x # tx.request => receipt'[x] = receipt[x]
           /\ receipt'[tx.request] # "none"
           /\ count' \in [Senders -> Nat]
           /\ \A s \in Senders : s # tx.sender => count'[s] = count[s]
           /\ count["wallet"] <= count'["wallet"]
<1> DEFINE r == tx.request
<1>1. /\ r \in Requests /\ tx.sender \in Senders
      /\ chain \in Seq(Requests) /\ count \in [Senders -> Nat]
      /\ receipt \in [Requests -> {"none", "mined", "reverted", "replaced"}]
      /\ ChainConsistent
    BY DEF IInv, TypeOK, Transactions
<1>2. Fate \in {"mined", "reverted"} /\ (TreeFull <=> Fate = "reverted")
    BY DEF Fate
<1>3. /\ receipt' \in [Requests -> {"none", "mined", "reverted", "replaced"}]
      /\ receipt'[r] = Fate
      /\ \A x \in Requests : x # r => receipt'[x] = receipt[x]
    BY <1>1, <1>2
<1>4. /\ count' \in [Senders -> Nat]
      /\ \A s \in Senders : s # tx.sender => count'[s] = count[s]
      /\ count["wallet"] <= count'["wallet"]
    BY <1>1 DEF Execute, Senders
<1>5. chain' = IF TreeFull THEN chain ELSE Append(chain, r)
    BY DEF Execute
<1>6. \A k \in DOMAIN chain : chain[k] \in Requests /\ chain[k] # r
    BY <1>1 DEF ChainConsistent
<1>7. CASE TreeFull
    BY <1>1, <1>2, <1>3, <1>4, <1>5, <1>6, <1>7 DEF ChainConsistent
<1>8. CASE ~TreeFull
  <2>1. chain' = Append(chain, r) /\ receipt'[r] = "mined"
      BY <1>2, <1>3, <1>5, <1>8
  <2>2. /\ chain' \in Seq(Requests)
        /\ \A k \in DOMAIN chain' : \/ (k \in DOMAIN chain /\ chain'[k] = chain[k])
                                   \/ (k = Len(chain) + 1 /\ chain'[k] = r)
      BY <1>1, <2>1
  <2>3. ChainConsistent'
    <3>1. \A k \in DOMAIN chain' : receipt'[chain'[k]] = "mined"
        BY <1>1, <1>3, <1>6, <2>1, <2>2 DEF ChainConsistent
    <3>2. \A j, k \in DOMAIN chain' : chain'[j] = chain'[k] => j = k
        BY <1>1, <1>6, <2>2 DEF ChainConsistent
    <3> QED BY <3>1, <3>2 DEF ChainConsistent
  <2> QED BY <1>2, <1>3, <1>4, <2>2, <2>3
<1> QED BY <1>7, <1>8

LEMMA MineStep == ASSUME IInv, Mine PROVE IInv'
<1> USE DEF IInv
<1>1. PICK tx \in pool : /\ tx.nonce = count[tx.sender]
                         /\ Execute(tx)
                         /\ pool' = pool \ {tx}
                         /\ receipt' = [receipt EXCEPT ![tx.request] = Fate]
    BY DEF Mine
<1>2. /\ tx \in Transactions /\ tx.request \in Requests /\ tx.sender \in Senders
      /\ pool \subseteq Transactions /\ req \in [Requests -> HandlerType]
    BY DEF TypeOK, Transactions, HandlerType
<1>3. receipt[tx.request] = "none" /\ req[tx.request].accepted
    BY DEF PoolConsistent
<1>4. UNCHANGED <<clientType, autoMine, req>>
    BY DEF Mine, env
<1>5. /\ ChainConsistent'
      /\ chain' \in Seq(Requests)
      /\ receipt' \in [Requests -> {"none", "mined", "reverted", "replaced"}]
      /\ \A x \in Requests : x # tx.request => receipt'[x] = receipt[x]
      /\ receipt'[tx.request] # "none"
      /\ count' \in [Senders -> Nat]
      /\ \A s \in Senders : s # tx.sender => count'[s] = count[s]
      /\ count["wallet"] <= count'["wallet"]
    BY <1>1, <1>2, <1>3, ExecuteStep
<1>6. TypeOK'
    BY <1>1, <1>2, <1>4, <1>5 DEF TypeOK
<1>7. HandlersConsistent'
  <2>1. \A r \in Requests : req[r].nonce \in Nat
      BY <1>2 DEF HandlerType
  <2>2. count["wallet"] \in Nat /\ count'["wallet"] \in Nat
      BY <1>5 DEF TypeOK, Senders
  <2>3. \A r \in Requests : req[r].nonce <= count["wallet"]
      BY DEF HandlersConsistent, HandlerConsistent
  <2>4. \A n, c, d \in Nat : n <= c /\ c <= d => n <= d
      OBVIOUS
  <2>5. \A r \in Requests : req[r].nonce <= count'["wallet"]
      BY <1>5, <2>1, <2>2, <2>3, <2>4
  <2> QED BY <1>4, <2>5 DEF HandlersConsistent, HandlerConsistent
<1>8. \A other \in pool' : other \in pool /\ other.request \in Requests
                             /\ other.request # tx.request
    BY <1>1, <1>2 DEF PoolConsistent, Transactions
<1>9. PoolConsistent'
  <2>1. IsFiniteSet(pool')
      BY <1>1, FS_RemoveElement DEF PoolConsistent
  <2>2. \A other \in pool' : other.sender = "wallet" => other.nonce = count'["wallet"]
    <3> SUFFICES ASSUME NEW other \in pool', other.sender = "wallet"
                 PROVE  other.nonce = count'["wallet"]
        OBVIOUS
    <3>1. tx.sender # "wallet"
        BY <1>1, <1>8 DEF PoolConsistent, OnePushUnderway
    <3>2. "wallet" \in Senders
        BY DEF Senders
    <3> QED BY <1>5, <1>8, <3>1, <3>2 DEF PoolConsistent
  <2> QED BY <1>1, <1>4, <1>5, <1>8, <2>1, <2>2 DEF PoolConsistent, OnePushUnderway
<1>10. ReceiptsConsistent'
  <2> SUFFICES ASSUME NEW r \in Requests
               PROVE  req'[r].accepted <=> Waiting(r)' \/ receipt'[r] # "none"
      BY DEF ReceiptsConsistent
  <2>1. CASE r = tx.request
      BY <1>3, <1>4, <1>5, <2>1
  <2>2. CASE r # tx.request
      BY <1>1, <1>4, <1>5, <2>2 DEF ReceiptsConsistent, Waiting
  <2> QED BY <2>1, <2>2
<1> QED BY <1>5, <1>6, <1>7, <1>9, <1>10

\* What is about to be sent is a transaction nobody has seen yet, and its nonce
\* is not above the count of the wallet.
LEMMA SubmittedTxType ==
    ASSUME IInv, NEW r \in Requests, Send(r)
    PROVE  /\ ~req[r].accepted /\ req[r].answer = NoAnswer
           /\ receipt[r] = "none" /\ \A t \in pool : t.request # r
           /\ SubmittedTx(r) \in Transactions /\ SubmittedTx(r).request = r
           /\ SubmittedTx(r).sender = "wallet" => SubmittedTx(r).nonce <= count["wallet"]
<1> USE DEF IInv
<1>1. req[r] \in HandlerType /\ HandlerConsistent(req[r]) /\ count \in [Senders -> Nat]
    BY DEF TypeOK, HandlerType, HandlersConsistent
<1>2. /\ ~req[r].accepted /\ req[r].answer = NoAnswer
      /\ receipt[r] = "none" /\ \A t \in pool : t.request # r
    BY <1>1 DEF Send, At, HandlerConsistent, ReceiptsConsistent, Waiting
<1>3. Cardinality(pool) \in Nat
    BY FS_CardinalityType DEF PoolConsistent
<1>4. /\ req[r].nonce \in Nat /\ req[r].gasPrice \in Nat
      /\ req[r].nonce <= count["wallet"] /\ count["relayer"] \in Nat
    BY <1>1 DEF HandlerType, HandlerConsistent, Senders
<1> QED BY <1>2, <1>3, <1>4 DEF SubmittedTx, Tx, RelayNonce, Transactions, Senders

\* The node takes the transaction of r, or it does not.
LEMMA SendStep == ASSUME IInv, NEW r \in Requests, Send(r) PROVE IInv'
<1> USE DEF IInv
<1> DEFINE tx == SubmittedTx(r)
<1>1. /\ req[r] \in HandlerType /\ req \in [Requests -> HandlerType]
      /\ HandlerConsistent(req[r])
      /\ count \in [Senders -> Nat] /\ pool \subseteq Transactions
      /\ receipt \in [Requests -> {"none", "mined", "reverted", "replaced"}]
    BY DEF TypeOK, HandlerType, HandlersConsistent
<1>2. /\ ~req[r].accepted /\ req[r].answer = NoAnswer
      /\ receipt[r] = "none" /\ \A t \in pool : t.request # r
    BY SubmittedTxType
<1>3. /\ tx \in Transactions /\ tx.request = r
      /\ tx.sender = "wallet" => tx.nonce <= count["wallet"]
    BY SubmittedTxType
<1> HIDE DEF tx
<1>4. UNCHANGED <<clientType, autoMine>>
    BY DEF Send, env
<1>5. "response" \in Pcs
    BY DEF Pcs
<1>6. CASE req' = [req EXCEPT ![r].pc = "response"] /\ UNCHANGED node
  <2>1. OneStep(r)
      BY <1>1, <1>4, <1>5, <1>6 DEF OneStep, HandlerType, env
  <2>2. /\ req'[r].accepted = req[r].accepted /\ req'[r].answer = NoAnswer
        /\ req'[r].nonce = req[r].nonce
      BY <1>1, <1>2, <1>6 DEF HandlerType
  <2>3. HandlerConsistent(req'[r])
      BY <1>1, <1>2, <2>2 DEF HandlerConsistent, NoAnswer
  <2> QED BY <2>1, <2>2, <2>3, HandlerStep
<1>7. CASE /\ Acceptable(tx) /\ Submit(tx)
           /\ req' = [req EXCEPT ![r].pc = "response", ![r].accepted = TRUE]
  <2>1. /\ req' \in [Requests -> HandlerType]
        /\ \A x \in Requests : x # r => req'[x] = req[x]
        /\ req'[r].accepted /\ req'[r].answer = NoAnswer
        /\ req'[r].pc = "response" /\ req'[r].nonce = req[r].nonce
      BY <1>1, <1>2, <1>5, <1>7 DEF HandlerType
  <2>2. ASSUME count["wallet"] <= count'["wallet"], count' \in [Senders -> Nat]
        PROVE  HandlersConsistent'
    <3>1. \A x \in Requests : req'[x].nonce \in Nat /\ req'[x].nonce <= count["wallet"]
        BY <1>1, <2>1 DEF HandlerType, HandlersConsistent, HandlerConsistent
    <3>2. count["wallet"] \in Nat /\ count'["wallet"] \in Nat
        BY <1>1, <2>2 DEF Senders
    <3>3. \A n, c, d \in Nat : n <= c /\ c <= d => n <= d
        OBVIOUS
    <3>4. \A x \in Requests : req'[x].nonce <= count'["wallet"]
        BY <2>2, <3>1, <3>2, <3>3
    <3>5. HandlerConsistent(req[r]) /\ \A x \in Requests : HandlerConsistent(req[x])
        BY <1>1 DEF HandlersConsistent
    <3> QED BY <2>1, <3>4, <3>5 DEF HandlersConsistent, HandlerConsistent, NoAnswer
  <2>3. CASE autoMine
    <3>1. /\ Execute(tx) /\ pool' = pool /\ pool = {}
          /\ receipt' = [receipt EXCEPT ![tx.request] = Fate]
        BY <1>7, <2>3 DEF Submit, PoolConsistent
    <3>2. /\ ChainConsistent'
          /\ chain' \in Seq(Requests)
          /\ receipt' \in [Requests -> {"none", "mined", "reverted", "replaced"}]
          /\ \A x \in Requests : x # r => receipt'[x] = receipt[x]
          /\ receipt'[r] # "none"
          /\ count' \in [Senders -> Nat]
          /\ count["wallet"] <= count'["wallet"]
        BY <1>2, <1>3, <3>1, ExecuteStep
    <3>3. TypeOK'
        BY <1>4, <2>1, <3>1, <3>2 DEF TypeOK, HandlerType
    <3>4. PoolConsistent'
        BY <3>1, FS_EmptySet DEF PoolConsistent, OnePushUnderway
    <3>5. ReceiptsConsistent'
        BY <1>1, <2>1, <3>1, <3>2 DEF ReceiptsConsistent, Waiting
    <3> QED BY <2>2, <3>2, <3>3, <3>4, <3>5
  <2>4. CASE ~autoMine
    <3> DEFINE same == SameNonce(tx)
    <3>1. /\ pool' = (pool \ same) \cup {tx}
          /\ receipt' = [x \in Requests |-> IF \E t \in same : t.request = x
                                            THEN "replaced" ELSE receipt[x]]
          /\ UNCHANGED <<count, chain>>
        BY <1>7, <2>4 DEF Submit
    <3>2. same \subseteq pool /\ \A t \in same : t.request \in Requests
        BY <1>1 DEF SameNonce, Transactions
    <3>3. /\ receipt' \in [Requests -> {"none", "mined", "reverted", "replaced"}]
          /\ \A t \in same : receipt'[t.request] = "replaced"
          /\ \A x \in Requests : (\A t \in same : t.request # x) => receipt'[x] = receipt[x]
        BY <1>1, <3>1, <3>2
    <3>4. receipt'[r] = "none"
        BY <1>2, <3>2, <3>3
    <3>5. TypeOK'
        BY <1>1, <1>3, <1>4, <2>1, <3>1, <3>3 DEF TypeOK, HandlerType
    <3>6. HandlersConsistent'
        BY <1>1, <2>2, <3>1 DEF Senders
    <3>7. \A t \in pool' : \/ t = tx
                           \/ /\ t \in pool /\ t \notin same /\ t.request # r
                              /\ t.request \in Requests
                              /\ \A u \in same : u.request # t.request
        BY <1>1, <1>2, <3>1, <3>2 DEF PoolConsistent, Transactions
    <3>8. tx.sender = "wallet" =>
              /\ tx.nonce = count["wallet"]
              /\ \A t \in pool' : t.sender = "wallet" => t = tx
      <4> SUFFICES ASSUME tx.sender = "wallet"
                   PROVE  /\ tx.nonce = count["wallet"]
                          /\ \A t \in pool' : t.sender = "wallet" => t = tx
          OBVIOUS
      <4>1. tx.nonce >= count["wallet"] /\ tx.nonce <= count["wallet"]
          BY <1>3, <1>7, <2>4 DEF Acceptable
      <4>2. tx.nonce = count["wallet"]
          BY <1>1, <1>3, <4>1 DEF Transactions, Senders
      <4>3. \A t \in pool : t.sender = "wallet" => t \in same
          BY <4>2 DEF PoolConsistent, SameNonce
      <4> QED BY <3>7, <4>2, <4>3
    <3>9. PoolConsistent'
      <4>1. IsFiniteSet(pool')
          BY <3>1, FS_Difference, FS_AddElement DEF PoolConsistent
      <4>2. \A t \in pool' : req'[t.request].accepted /\ receipt'[t.request] = "none"
          BY <1>3, <2>1, <3>3, <3>4, <3>7 DEF PoolConsistent
      <4>3. \A t, u \in pool' : t.request = u.request => t = u
          BY <1>3, <3>7 DEF PoolConsistent
      <4>4. \A t \in pool' : t.sender = "wallet" => t.nonce = count'["wallet"]
          BY <3>1, <3>7, <3>8 DEF PoolConsistent
      <4>5. OnePushUnderway'
          BY <3>7, <3>8 DEF PoolConsistent, OnePushUnderway
      <4> QED BY <1>4, <2>4, <4>1, <4>2, <4>3, <4>4, <4>5 DEF PoolConsistent
    <3>10. ReceiptsConsistent'
      <4> SUFFICES ASSUME NEW x \in Requests
                   PROVE  req'[x].accepted <=> Waiting(x)' \/ receipt'[x] # "none"
          BY DEF ReceiptsConsistent
      <4>1. CASE x = r
          BY <1>3, <2>1, <3>1, <4>1 DEF Waiting
      <4>2. CASE x # r /\ \E t \in same : t.request = x
          BY <2>1, <3>2, <3>3, <4>2 DEF PoolConsistent
      <4>3. CASE x # r /\ \A t \in same : t.request # x
        <5>1. receipt'[x] = receipt[x] /\ req'[x] = req[x]
            BY <2>1, <3>3, <4>3
        <5>2. Waiting(x)' <=> Waiting(x)
            BY <1>3, <3>1, <4>3 DEF Waiting
        <5> QED BY <5>1, <5>2 DEF ReceiptsConsistent
      <4> QED BY <4>1, <4>2, <4>3
    <3>11. ChainConsistent'
      <4>1. \A k \in DOMAIN chain : /\ chain[k] \in Requests
                                    /\ \A t \in same : t.request # chain[k]
          BY <3>2 DEF TypeOK, ChainConsistent, PoolConsistent
      <4> QED BY <3>1, <3>3, <4>1 DEF ChainConsistent
    <3> QED BY <3>5, <3>6, <3>9, <3>10, <3>11
  <2> QED BY <2>3, <2>4
<1> QED BY <1>6, <1>7 DEF Send, tx

-----------------------------------------------------------------------------
(* The theorems.                                                           *)

LEMMA NextIInv == IInv /\ [Next]_vars => IInv'
<1> SUFFICES ASSUME IInv, [Next]_vars PROVE IInv'
    OBVIOUS
<1>1. CASE UNCHANGED vars
    BY <1>1 DEF vars, IInv, TypeOK, HandlersConsistent, HandlerConsistent, PoolConsistent,
           OnePushUnderway, ReceiptsConsistent, Waiting, ChainConsistent
<1>2. CASE Mine
    BY <1>2, MineStep
<1>3. ASSUME NEW r \in Requests, RejectParams(r) \/ Receive(r) \/ Handle(r)
      PROVE  IInv'
    BY <1>3, QuietStep, SendStep, RespondStep DEF Handle
<1> QED BY <1>1, <1>2, <1>3 DEF Next

LEMMA InvariantHolds == Spec => []IInv
<1> QED BY InitIInv, NextIInv, PTL DEF Spec

\* Handlers, pool, receipts and leaves have their types in every reachable
\* state of the front end and the transaction manager.
THEOREM TypeCorrect == Spec => []TypeOK
<1>1. IInv => TypeOK
    BY DEF IInv
<1> QED BY <1>1, InvariantHolds, PTL

\* eth-client.ts signs with the count of mined transactions: however many
\* pushes are in flight, the wallet has one transaction at most in the pool.
THEOREM WalletHasOnePush == Spec => []OnePushUnderway
<1>1. IInv => OnePushUnderway
    BY DEF IInv, PoolConsistent
<1> QED BY <1>1, InvariantHolds, PTL

\* A hash is answered only for a push the node took; one answered without a
\* hash has left no trace.
THEOREM AnswersAreTrue == Spec => []AnswersTellTheNode
<1>1. IInv => AnswersTellTheNode
    BY DEF IInv, AnswersTellTheNode, HandlersConsistent, HandlerConsistent,
           ReceiptsConsistent, Waiting
<1> QED BY <1>1, InvariantHolds, PTL

-----------------------------------------------------------------------------
(* The refinement: what the node mines is a step of the log.               *)

\* No commitment reaches the tree twice, and none reaches a full tree.
THEOREM ServiceImplementsLog == Spec => ImplementsLog
<1> USE DEF Log!LogSpec, Log!LogInit, Log!Push
<1>1. Init => chain = <<>>
    BY DEF Init
<1>2. ASSUME IInv, NEW tx \in Transactions, receipt[tx.request] = "none", Execute(tx)
      PROVE  [\E p \in Requests : Log!Push(p)]_chain
  <2>1. tx.request \in Requests /\ Len(chain) \in Nat
      BY <1>2 DEF Transactions, IInv, TypeOK
  <2>2. \A k \in DOMAIN chain : chain[k] # tx.request
      BY <1>2 DEF IInv, ChainConsistent
  <2>3. CASE TreeFull
      BY <1>2, <2>3 DEF Execute
  <2>4. CASE ~TreeFull
      BY <1>2, <2>1, <2>2, <2>4, WidthAssumption DEF Execute, TreeFull
  <2> QED BY <2>3, <2>4
<1>3. IInv /\ [Next]_vars => [\E p \in Requests : Log!Push(p)]_chain
  <2> SUFFICES ASSUME IInv, [Next]_vars
               PROVE  [\E p \in Requests : Log!Push(p)]_chain
      OBVIOUS
  <2>1. CASE Mine
      BY <1>2, <2>1 DEF Mine, IInv, TypeOK, PoolConsistent
  <2>2. ASSUME NEW r \in Requests, Send(r)
        PROVE  [\E p \in Requests : Log!Push(p)]_chain
    <3>1. CASE UNCHANGED chain
        BY <3>1
    <3>2. CASE Execute(SubmittedTx(r))
      <4>1. /\ SubmittedTx(r) \in Transactions /\ SubmittedTx(r).request = r
            /\ receipt[r] = "none"
          BY <2>2, SubmittedTxType
      <4> QED BY <1>2, <3>2, <4>1
    <3> QED BY <2>2, <3>1, <3>2 DEF Send, Submit, node
  <2>3. CASE UNCHANGED chain
      BY <2>3
  <2> QED BY <2>1, <2>2, <2>3
      DEF Next, Handle, RejectParams, Receive, Read, Relay, FindRecord, GetNonce,
          GetGasPrice, EstimateGas, Respond, node, vars
<1> QED BY <1>1, <1>3, InvariantHolds, PTL DEF Spec, ImplementsLog
=============================================================================
