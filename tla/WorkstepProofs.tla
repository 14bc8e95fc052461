--------------------------- MODULE WorkstepProofs ---------------------------
(***************************************************************************)
(* Theorems about ParticipantStack and Workstep, for any organizations,    *)
(* jobs and states, and whatever steps may fail.                           *)
(***************************************************************************)
EXTENDS Workstep, TLAPS

-----------------------------------------------------------------------------
(* The inductive invariant.                                                *)

\* Where acceptWorkgroupInvite is once the token is there, and once the
\* inviter has been resolved.
Resolved == {"track", "organization", "keys", "register", "join workgroup",
             "require", "join", "ready"}
Accepted == Resolved \cup {"resolve"}

\* An invitee's stack s, whose invitation is i: what it took over is still the
\* invitation's, unless init came in between.
InviteeConsistent(s, i) ==
    /\ s.pc \in {"idle", "workgroup", "token"} => ~s.token
    /\ s.pc \in Accepted => s.token
    /\ s.pc # "idle" => i.pc = "sent"
    /\ s.pc \notin {"idle", "failed"} \/ s.token => s.early \/ s.init = "done"
    /\ s.counterparties = IF s.token THEN <<Initiator>> ELSE <<>>
    /\ s.workflow # 0 => s.token /\ s.workflow = i.workflow
    /\ s.token => s.early \/ s.shield = i.shield
    /\ s.pc \in Resolved => s.bearer[Initiator] # None

InviteesConsistent ==
    \A q \in Invitees :
        /\ InviteeConsistent(stack[q], invite[q])
        /\ invite[q].shield = invite[q].workflow

\* The initiator's own stack: init comes before everything else.
InitiatorConsistent(s) ==
    /\ s.shield = s.workflow
    /\ s.init # "done" => s.pc = "idle" /\ ~s.workgroup /\ s.workflow = 0

DeploymentConsistent ==
    /\ InitiatorConsistent(stack[Initiator])
    /\ deploying = "verifier" => deploys < MaxDeploys
    /\ deploying # "idle" => stack[Initiator].workgroup

\* The members are invitees that finished.
MembersConsistent ==
    \A q \in ToSet(stack[Initiator].counterparties) :
        /\ q \in Invitees
        /\ stack[q].pc = "ready"
        /\ stack[Initiator].bearer[q] # None

Messages ==
         [kind : {"JOIN", "response"}, from : Invitees, to : {Initiator}]
    \cup [kind : {"request", "availability"}, from : {Initiator}, to : Invitees,
          job : Jobs, state : States]
    \cup [kind : {"NS"}, from : {Initiator}, to : Invitees, signatures : {<<Initiator>>}]
    \cup {[kind |-> "RN", from |-> q, to |-> Initiator, signatures |-> <<Initiator, q>>] :
              q \in Invitees}

\* A JOIN is of an invitee that finished.
MessagesConsistent ==
    /\ net \subseteq Messages /\ handling \subseteq Messages
    /\ \A m \in Joins : stack[m.from].pc = "ready"

IInv == /\ TypeOK /\ InviteesConsistent /\ DeploymentConsistent
        /\ MembersConsistent /\ MessagesConsistent

-----------------------------------------------------------------------------
LEMMA AppendElements ==
    ASSUME NEW S, NEW s \in Seq(S), NEW e \in S
    PROVE  /\ Append(s, e) \in Seq(S)
           /\ Len(Append(s, e)) = Len(s) + 1
           /\ \A k \in 1 .. Len(s) + 1 : Append(s, e)[k] = IF k = Len(s) + 1 THEN e ELSE s[k]
<1>1. Append(s, e) \in Seq(S)
  OBVIOUS
<1>2. Len(Append(s, e)) = Len(s) + 1
  OBVIOUS
<1>3. \A k \in 1 .. Len(s) + 1 : Append(s, e)[k] = IF k = Len(s) + 1 THEN e ELSE s[k]
  OBVIOUS
<1> QED BY <1>1, <1>2, <1>3

LEMMA AppendToOne ==
    ASSUME NEW S, NEW a \in S, NEW b \in S
    PROVE  Append(<<a>>, b) = <<a, b>>
<1>1. /\ Append(<<a>>, b) \in Seq(S) /\ Len(Append(<<a>>, b)) = 2
      /\ Append(<<a>>, b)[1] = a /\ Append(<<a>>, b)[2] = b
  <2> DEFINE s == <<a>>
             t == Append(s, b)
  <2>1. s \in Seq(S) /\ Len(s) = 1 /\ s[1] = a
    OBVIOUS
  <2> HIDE DEF s
  <2>2. /\ t \in Seq(S) /\ Len(t) = Len(s) + 1
        /\ \A k \in 1 .. Len(s) + 1 : t[k] = IF k = Len(s) + 1 THEN b ELSE s[k]
    BY <2>1, AppendElements, Zenon
  <2> HIDE DEF t
  <2>3. t \in Seq(S) /\ Len(t) = 2 /\ t[1] = a /\ t[2] = b
    BY <2>1, <2>2
  <2> QED BY <2>3 DEF t, s
<1> DEFINE t == Append(<<a>>, b)
<1> HIDE DEF t
<1>2. t = <<a, b>>
  <2>1. t \in Seq(S) /\ Len(t) = 2 /\ t[1] = a /\ t[2] = b
    BY <1>1 DEF t
  <2> QED BY <2>1
<1> QED BY <1>2 DEF t

LEMMA MemberAppended ==
    ASSUME NEW S, NEW s \in Seq(S), NEW e \in S
    PROVE  ToSet(Append(s, e)) = ToSet(s) \cup {e}
<1>1. DOMAIN Append(s, e) = 1 .. Len(s) + 1 /\ DOMAIN s = 1 .. Len(s) /\ Len(s) \in Nat
  OBVIOUS
<1>2. \A k \in 1 .. Len(s) + 1 : Append(s, e)[k] = IF k = Len(s) + 1 THEN e ELSE s[k]
  BY AppendElements
<1> QED BY <1>1, <1>2 DEF ToSet

LEMMA ShortSequences ==
    ASSUME NEW e
    PROVE  ToSet(<<>>) = {} /\ ToSet(<<e>>) = {e}
BY DEF ToSet

\* What a message may be, kind by kind.
LEMMA MessageKinds ==
    ASSUME NEW m \in Messages
    PROVE  /\ m.from \in Organizations /\ m.to \in Organizations
           /\ m.kind = "JOIN" => m.from \in Invitees /\ m.to = Initiator
           /\ m.kind \in {"request", "availability", "NS"} => m.to \in Invitees
           /\ m.kind = "NS" => m.signatures = <<Initiator>>
           /\ m.kind = "RN" => m.signatures = <<m.to, m.from>>
BY InitiatorAssumption DEF Messages, Invitees

-----------------------------------------------------------------------------
(* Steps of one stack.                                                     *)

LEMMA InviteeStep ==
    ASSUME IInv, NEW q \in Invitees, NEW s \in StackType,
           stack' = [stack EXCEPT ![q] = s],
           InviteeConsistent(s, invite[q]),
           stack[q].pc = "ready" => s.pc = "ready",
           UNCHANGED <<deploying, deploys, invite, net, handling>>,
           submitted' \subseteq Organizations, registered' \subseteq Organizations
    PROVE  IInv'
<1>1. /\ q \in Organizations /\ q # Initiator
      /\ stack' \in [Organizations -> StackType]
      /\ stack'[q] = s
      /\ \A p \in Organizations \ {q} : stack'[p] = stack[p]
  BY DEF IInv, TypeOK, Invitees
<1>2. TypeOK'
  BY <1>1 DEF IInv, TypeOK
<1>3. InviteesConsistent'
  BY <1>1 DEF IInv, InviteesConsistent, Invitees
<1>4. DeploymentConsistent'
  BY <1>1, InitiatorAssumption DEF IInv, DeploymentConsistent
<1>5. \A p \in Organizations : stack[p].pc = "ready" => stack'[p].pc = "ready"
  BY <1>1
<1>6. MembersConsistent'
  BY <1>1, <1>5, InitiatorAssumption DEF IInv, MembersConsistent, Invitees
<1>7. MessagesConsistent'
  BY <1>1, <1>5, InitiatorAssumption, MessageKinds DEF IInv, MessagesConsistent, Joins
<1> QED BY <1>2, <1>3, <1>4, <1>6, <1>7 DEF IInv

LEMMA InitiatorStep ==
    ASSUME IInv, NEW s \in StackType,
           stack' = [stack EXCEPT ![Initiator] = s],
           InitiatorConsistent(s),
           s.counterparties = stack[Initiator].counterparties,
           \A q \in Invitees : s.bearer[q] = stack[Initiator].bearer[q],
           stack[Initiator].workgroup => s.workgroup,
           deploying' \in {deploying, "idle"},
           UNCHANGED <<deploys, invite, net, handling>>,
           submitted' \subseteq Organizations, registered' \subseteq Organizations
    PROVE  IInv'
<1>1. /\ stack' \in [Organizations -> StackType]
      /\ stack'[Initiator] = s
      /\ \A p \in Organizations \ {Initiator} : stack'[p] = stack[p]
  BY InitiatorAssumption DEF IInv, TypeOK
<1>2. TypeOK'
  BY <1>1 DEF IInv, TypeOK
<1>3. InviteesConsistent'
  BY <1>1 DEF IInv, InviteesConsistent, Invitees
<1>4. DeploymentConsistent'
  BY <1>1 DEF IInv, DeploymentConsistent
<1>5. MembersConsistent'
  BY <1>1 DEF IInv, MembersConsistent, Invitees
<1>6. MessagesConsistent'
  BY <1>1, MessageKinds DEF IInv, MessagesConsistent, Joins, Invitees
<1> QED BY <1>2, <1>3, <1>4, <1>5, <1>6 DEF IInv

\* Messages other than JOIN come and go.
LEMMA MessageStep ==
    ASSUME IInv, UNCHANGED <<stack, deploying, deploys, invite, submitted, registered>>,
           net' \subseteq Messages, handling' \subseteq Messages,
           \A m \in net' : m.kind = "JOIN" => m \in net,
           \A m \in handling' : m.kind = "JOIN" => m \in handling
    PROVE  IInv'
<1>1. TypeOK'
  BY MessageKinds DEF IInv, TypeOK
<1>2. MessagesConsistent'
  BY DEF IInv, MessagesConsistent, Joins
<1> QED BY <1>1, <1>2 DEF IInv, InviteesConsistent, DeploymentConsistent, MembersConsistent
-----------------------------------------------------------------------------
(* Steps of either kind of stack.                                          *)

\* p's stack may become s.
Allowed(p, s) ==
    /\ s \in StackType
    /\ p = Initiator =>
          /\ InitiatorConsistent(s)
          /\ s.counterparties = stack[p].counterparties
          /\ \A q \in Invitees : s.bearer[q] = stack[p].bearer[q]
          /\ stack[p].workgroup => s.workgroup
    /\ p # Initiator =>
          /\ InviteeConsistent(s, invite[p])
          /\ stack[p].pc = "ready" => s.pc = "ready"

\* What is known of a stack before its step.
LEMMA StackKnown ==
    ASSUME IInv, NEW p \in Organizations
    PROVE  /\ stack[p] \in StackType
           /\ p = Initiator => InitiatorConsistent(stack[p])
           /\ p # Initiator => /\ p \in Invitees
                               /\ InviteeConsistent(stack[p], invite[p])
                               /\ invite[p].shield \in Shields
                               /\ invite[p].workflow = invite[p].shield
           /\ submitted \subseteq Organizations /\ registered \subseteq Organizations
BY DEF IInv, TypeOK, InviteesConsistent, DeploymentConsistent, Invitees

LEMMA StackStep ==
    ASSUME IInv, NEW p \in Organizations, NEW fields,
           Update(p, fields), Allowed(p, With(stack[p], fields)),
           UNCHANGED <<workflowState, messages>>,
           submitted' \subseteq Organizations, registered' \subseteq Organizations
    PROVE  IInv'
<1> DEFINE s == With(stack[p], fields)
<1>1. stack' = [stack EXCEPT ![p] = s] /\ Allowed(p, s)
  BY DEF Update, IInv, TypeOK
<1>2. UNCHANGED <<deploying, deploys, invite, net, handling>>
  BY DEF workflowState, messages
<1> HIDE DEF s
<1>3. CASE p = Initiator
  BY <1>1, <1>2, <1>3, InitiatorStep DEF Allowed
<1>4. CASE p # Initiator
  BY <1>1, <1>2, <1>4, InviteeStep, StackKnown DEF Allowed
<1> QED BY <1>3, <1>4

\* s differs from r at most in its place and in what the invariant leaves open.
SameBut(s, r) ==
    /\ s.init = r.init /\ s.early = r.early /\ s.token = r.token
    /\ s.workgroup = r.workgroup /\ s.shield = r.shield /\ s.workflow = r.workflow
    /\ s.counterparties = r.counterparties /\ s.bearer = r.bearer

\* A call goes on, or rejects.
LEMMA PlaceAllowed ==
    ASSUME IInv, NEW p \in Organizations, NEW s \in StackType, SameBut(s, stack[p]),
           stack[p].pc \notin {"idle", "ready"},
           p # Initiator => s.pc = "failed" \/ (stack[p].pc \in Resolved /\ s.pc \in Resolved)
    PROVE  Allowed(p, s)
<1>1. CASE p = Initiator
  <2>1. InitiatorConsistent(stack[p])
    BY <1>1, StackKnown
  <2>2. InitiatorConsistent(s)
    BY <2>1 DEF SameBut, InitiatorConsistent
  <2> QED BY <1>1, <2>2 DEF Allowed, SameBut
<1>2. CASE p # Initiator
  <2>1. InviteeConsistent(stack[p], invite[p])
    BY <1>2, StackKnown
  <2>2. InviteeConsistent(s, invite[p])
    BY <1>2, <2>1 DEF SameBut, InviteeConsistent, Accepted, Resolved
  <2> QED BY <1>2, <2>2 DEF Allowed
<1> QED BY <1>1, <1>2

LEMMA FailureAllowed ==
    ASSUME IInv, NEW p \in Organizations, stack[p].pc \notin {"idle", "ready"}
    PROVE  Allowed(p, With(stack[p], [pc |-> "failed"]))
<1> DEFINE s == With(stack[p], [pc |-> "failed"])
<1>1. s \in StackType /\ s.pc = "failed" /\ SameBut(s, stack[p])
  BY ZenonT(30), StackKnown DEF With, StackType, Pcs, SameBut
<1> QED BY <1>1, PlaceAllowed

LEMMA StepStep ==
    ASSUME IInv, NEW p \in Organizations, NEW pc, NEW fields,
           pc \notin {"idle", "ready"}, Step(p, pc, fields),
           stack[p].pc = pc => Allowed(p, With(stack[p], fields)),
           UNCHANGED <<workflowState, messages>>,
           submitted' \subseteq Organizations, registered' \subseteq Organizations
    PROVE  IInv'
BY StackStep, FailureAllowed DEF Step

-----------------------------------------------------------------------------
(* init, the workgroup, the organization and its registration.             *)

-----------------------------------------------------------------------------
(* init, the workgroup, the organization and its registration.             *)

LEMMA StartInitStep ==
    ASSUME IInv, NEW p \in Organizations, StartInit(p)
    PROVE  IInv'
<1> DEFINE s == With(stack[p], [init |-> "services"])
<1>1. /\ s \in StackType /\ s.pc = stack[p].pc
      /\ SameBut([s EXCEPT !.init = "new"], stack[p])
  BY StackKnown DEF With, StackType, InitPcs, SameBut, StartInit
<1>2. Allowed(p, s)
  <2> HIDE DEF s
  <2>1. CASE p = Initiator
    <3>1. InitiatorConsistent(stack[p])
      BY <2>1, StackKnown
    <3> QED BY <1>1, <2>1, <3>1 DEF StartInit, Allowed, InitiatorConsistent, SameBut, StackType
  <2>2. CASE p # Initiator
    <3>1. InviteeConsistent(stack[p], invite[p])
      BY <2>2, StackKnown
    <3> QED BY <1>1, <2>2, <3>1 DEF StartInit, Allowed, InviteeConsistent, SameBut, StackType
  <2> QED BY <2>1, <2>2
<1> QED BY <1>2, StackKnown, StackStep DEF StartInit, chain

LEMMA ResetContractsStep ==
    ASSUME IInv, NEW p \in Organizations, ResetContracts(p)
    PROVE  IInv'
<1> DEFINE s == With(stack[p],
                 [init |-> "done", registry |-> FALSE, shield |-> 0,
                  bearer |-> [stack[p].bearer EXCEPT ![p] = p],
                  pc |-> IF p = Initiator THEN "setup" ELSE stack[p].pc])
<1>1. stack[p] \in StackType /\ 0 \in Shields
  BY StackKnown, MaxDeploysAssumption DEF Shields
<1>2. s \in StackType
  BY ZenonT(30), <1>1 DEF With, StackType, InitPcs, Pcs
<1>3. s.bearer = [stack[p].bearer EXCEPT ![p] = p]
  BY <1>1 DEF With, StackType
<1>4. /\ s \in StackType
      /\ s.init = "done" /\ s.shield = 0
      /\ s.pc = IF p = Initiator THEN "setup" ELSE stack[p].pc
      /\ s.early = stack[p].early /\ s.token = stack[p].token
      /\ s.workgroup = stack[p].workgroup /\ s.workflow = stack[p].workflow
      /\ s.counterparties = stack[p].counterparties
  BY <1>1, <1>2 DEF With, StackType
<1>5. \A q \in Organizations \ {p} : s.bearer[q] = stack[p].bearer[q]
  BY <1>1, <1>3 DEF StackType
<1>6. stack[p].init = "services"
  BY DEF ResetContracts
<1>7. Allowed(p, s)
  <2> HIDE DEF s
  <2>1. CASE p = Initiator
    <3>1. InitiatorConsistent(stack[p])
      BY <2>1, StackKnown
    <3> QED BY <1>4, <1>5, <1>6, <2>1, <3>1 DEF Allowed, InitiatorConsistent, Invitees
  <2>2. CASE p # Initiator
    <3>1. InviteeConsistent(stack[p], invite[p])
      BY <2>2, StackKnown
    <3> QED BY <1>4, <1>5, <1>6, <2>2, <3>1, InitiatorAssumption
        DEF Allowed, InviteeConsistent, Accepted, Resolved
  <2> QED BY <2>1, <2>2
<1> QED BY <1>7, StackKnown, StackStep DEF ResetContracts, chain

LEMMA StartProtocolSubscriptionsStep ==
    ASSUME IInv, NEW p \in Organizations, StartProtocolSubscriptions(p)
    PROVE  IInv'
<1> DEFINE s == With(stack[p], [subscribed |-> TRUE])
<1>1. s \in StackType /\ s.pc = stack[p].pc /\ SameBut(s, stack[p])
  BY StackKnown DEF With, StackType, SameBut
<1>2. Allowed(p, s)
  <2> HIDE DEF s
  <2>1. CASE p = Initiator
    BY <1>1, <2>1, StackKnown DEF Allowed, InitiatorConsistent, SameBut
  <2>2. CASE p # Initiator
    BY <1>1, <2>2, StackKnown DEF Allowed, InviteeConsistent, SameBut
  <2> QED BY <2>1, <2>2
<1> QED BY <1>2, StackKnown, StackStep DEF StartProtocolSubscriptions, chain

LEMMA ContractSetupStep ==
    ASSUME IInv, ContractSetup(Initiator)
    PROVE  IInv'
<1> DEFINE fields == [registry |-> TRUE, pc |-> "workgroup"]
           s == With(stack[Initiator], fields)
<1>1. ASSUME stack[Initiator].pc = "setup" PROVE Allowed(Initiator, s)
  <2>1. s \in StackType /\ SameBut(s, stack[Initiator]) /\ s.pc = "workgroup"
    BY ZenonT(30), InitiatorAssumption, StackKnown DEF With, StackType, Pcs, SameBut
  <2> QED BY <1>1, <2>1, InitiatorAssumption, PlaceAllowed DEF Resolved
<1>2. /\ Step(Initiator, "setup", fields)
      /\ UNCHANGED <<workflowState, messages>>
      /\ submitted' \subseteq Organizations /\ registered' \subseteq Organizations
  BY InitiatorAssumption, StackKnown DEF ContractSetup, chain
<1> HIDE DEF fields
<1> QED BY <1>1, <1>2, InitiatorAssumption, StepStep

LEMMA CreateWorkgroupStep ==
    ASSUME IInv, NEW p \in Organizations, CreateWorkgroup(p)
    PROVE  IInv'
<1> DEFINE s == With(stack[p], [workgroup |-> TRUE, pc |-> "token"])
<1>1. ASSUME stack[p].pc = "workgroup" PROVE Allowed(p, s)
  <2>1. /\ s \in StackType /\ s.pc = "token" /\ s.workgroup
        /\ s.init = stack[p].init /\ s.early = stack[p].early /\ s.token = stack[p].token
        /\ s.shield = stack[p].shield /\ s.workflow = stack[p].workflow
        /\ s.counterparties = stack[p].counterparties /\ s.bearer = stack[p].bearer
    BY ZenonT(30), StackKnown DEF With, StackType, Pcs
  <2> HIDE DEF s
  <2>2. CASE p = Initiator
    BY <1>1, <2>1, <2>2, StackKnown DEF Allowed, InitiatorConsistent
  <2>3. CASE p # Initiator
    BY <1>1, <2>1, <2>3, StackKnown DEF Allowed, InviteeConsistent, Accepted, Resolved
  <2> QED BY <2>2, <2>3
<1> QED BY <1>1, StackKnown, StepStep DEF CreateWorkgroup, chain

LEMMA SetWorkgroupStep ==
    ASSUME IInv, NEW p \in Organizations, SetWorkgroup(p)
    PROVE  IInv'
BY FailureAllowed, StackKnown, StackStep DEF SetWorkgroup, chain

LEMMA CreateWorkgroupTokenStep ==
    ASSUME IInv, NEW p \in Organizations, CreateWorkgroupToken(p)
    PROVE  IInv'
<1>1. CASE p = Initiator
  <2> DEFINE s == With(stack[p], [token |-> TRUE, pc |-> "organization"])
  <2>1. ASSUME stack[p].pc = "token" PROVE Allowed(p, s)
    <3>1. /\ s \in StackType /\ s.init = stack[p].init /\ s.workgroup = stack[p].workgroup
          /\ s.shield = stack[p].shield /\ s.workflow = stack[p].workflow
          /\ s.counterparties = stack[p].counterparties /\ s.bearer = stack[p].bearer
      BY ZenonT(30), StackKnown DEF With, StackType, Pcs
    <3> HIDE DEF s
    <3> QED BY <1>1, <2>1, <3>1, StackKnown DEF Allowed, InitiatorConsistent
  <2> QED BY <1>1, <2>1, StackKnown, StepStep DEF CreateWorkgroupToken, chain
<1>2. CASE p # Initiator
  <2> DEFINE s == With(stack[p], AcceptInvitation(p))
  <2>1. ASSUME stack[p].pc = "token" PROVE Allowed(p, s)
    <3>1. InviteeConsistent(stack[p], invite[p]) /\ stack[p].counterparties = <<>>
      BY <1>2, <2>1, StackKnown DEF InviteeConsistent
    <3>2. Append(<<>>, Initiator) = <<Initiator>> /\ <<Initiator>> \in Seq(Organizations)
      BY InitiatorAssumption
    <3>3. /\ s \in StackType /\ s.pc = "resolve" /\ s.token
          /\ s.init = stack[p].init /\ s.early = stack[p].early
          /\ s.shield = invite[p].shield /\ s.workflow = stack[p].workflow
          /\ s.counterparties = <<Initiator>>
      BY ZenonT(30), <1>2, <3>1, <3>2, StackKnown DEF With, StackType, Pcs, AcceptInvitation
    <3> HIDE DEF s
    <3> QED BY <1>2, <2>1, <3>1, <3>3 DEF Allowed, InviteeConsistent, Resolved
  <2> QED BY <1>2, <2>1, StackKnown, StepStep DEF CreateWorkgroupToken, chain
<1> QED BY <1>1, <1>2

LEMMA CreateOrganizationStep ==
    ASSUME IInv, NEW p \in Organizations, CreateOrganization(p)
    PROVE  IInv'
<1> DEFINE fields == [org |-> TRUE, pc |-> "keys"]
           s == With(stack[p], fields)
<1>1. ASSUME stack[p].pc = "organization" PROVE Allowed(p, s)
  <2>1. s \in StackType /\ SameBut(s, stack[p]) /\ s.pc = "keys"
    BY ZenonT(30), StackKnown DEF With, StackType, Pcs, SameBut
  <2> QED BY <1>1, <2>1, PlaceAllowed DEF Resolved
<1>2. /\ Step(p, "organization", fields)
      /\ UNCHANGED <<workflowState, messages>>
      /\ submitted' \subseteq Organizations /\ registered' \subseteq Organizations
  BY StackKnown DEF CreateOrganization, chain
<1> HIDE DEF fields
<1> QED BY <1>1, <1>2, StepStep

LEMMA CreateKeysStep ==
    ASSUME IInv, NEW p \in Organizations, CreateKeys(p)
    PROVE  IInv'
<1> DEFINE fields == [keys |-> TRUE, pc |-> "register"]
           s == With(stack[p], fields)
<1>1. ASSUME stack[p].pc = "keys" PROVE Allowed(p, s)
  <2>1. s \in StackType /\ SameBut(s, stack[p]) /\ s.pc = "register"
    BY ZenonT(30), StackKnown DEF With, StackType, Pcs, SameBut
  <2> QED BY <1>1, <2>1, PlaceAllowed DEF Resolved
<1>2. /\ Step(p, "keys", fields)
      /\ UNCHANGED <<workflowState, messages>>
      /\ submitted' \subseteq Organizations /\ registered' \subseteq Organizations
  BY StackKnown DEF CreateKeys, chain
<1> HIDE DEF fields
<1> QED BY <1>1, <1>2, StepStep

LEMMA RegisterOrganizationStep ==
    ASSUME IInv, NEW p \in Organizations, RegisterOrganization(p)
    PROVE  IInv'
<1> DEFINE fields == [pc |-> "join workgroup"]
           s == With(stack[p], fields)
<1>1. ASSUME stack[p].pc = "register" PROVE Allowed(p, s)
  <2>1. s \in StackType /\ SameBut(s, stack[p]) /\ s.pc = "join workgroup"
    BY StackKnown DEF With, StackType, Pcs, SameBut
  <2> QED BY <1>1, <2>1, PlaceAllowed DEF Resolved
<1>2. /\ Step(p, "register", fields)
      /\ UNCHANGED <<workflowState, messages>>
      /\ submitted' \subseteq Organizations /\ registered' \subseteq Organizations
  BY StackKnown DEF RegisterOrganization
<1> HIDE DEF fields
<1> QED BY <1>1, <1>2, StepStep

LEMMA RegisterWorkgroupOrganizationStep ==
    ASSUME IInv, NEW p \in Organizations, RegisterWorkgroupOrganization(p)
    PROVE  IInv'
<1> DEFINE fields == [pc |-> IF p = Initiator THEN "ready" ELSE "require"]
           s == With(stack[p], fields)
<1>1. ASSUME stack[p].pc = "join workgroup" PROVE Allowed(p, s)
  <2>1. s \in StackType /\ SameBut(s, stack[p]) /\ s.pc \in {"ready", "require"}
    BY StackKnown DEF With, StackType, Pcs, SameBut
  <2> QED BY <1>1, <2>1, PlaceAllowed DEF Resolved
<1>2. /\ Step(p, "join workgroup", fields)
      /\ UNCHANGED <<workflowState, messages>>
      /\ submitted' \subseteq Organizations /\ registered' \subseteq Organizations
  BY StackKnown DEF RegisterWorkgroupOrganization, chain
<1> HIDE DEF fields
<1> QED BY <1>1, <1>2, StepStep

LEMMA MineStep ==
    ASSUME IInv, Mine
    PROVE  IInv'
BY DEF Mine, workflowState, messages, IInv, TypeOK, InviteesConsistent,
       DeploymentConsistent, MembersConsistent, MessagesConsistent, Joins

-----------------------------------------------------------------------------
(* Deployments and invitations.                                            *)

LEMMA StartDeployStep ==
    ASSUME IInv, StartDeploy
    PROVE  IInv'
BY DEF StartDeploy, chain, messages, IInv, TypeOK, InviteesConsistent,
       DeploymentConsistent, MembersConsistent, MessagesConsistent, Joins

LEMMA DeployShieldStep ==
    ASSUME IInv, DeployShield
    PROVE  IInv'
<1>1. deploys' \in Shields
  BY MaxDeploysAssumption DEF DeployShield, IInv, TypeOK, DeploymentConsistent, Shields
<1> QED BY <1>1
        DEF DeployShield, chain, messages, IInv, TypeOK, InviteesConsistent,
            DeploymentConsistent, MembersConsistent, MessagesConsistent, Joins

LEMMA FinishDeployStep ==
    ASSUME IInv, FinishDeploy
    PROVE  IInv'
<1> DEFINE r == stack[Initiator]
           s == With(r, [shield |-> deploys, workflow |-> deploys])
<1>1. r \in StackType /\ InitiatorConsistent(r) /\ r.workgroup /\ deploys \in Shields
  BY InitiatorAssumption DEF FinishDeploy, IInv, TypeOK, DeploymentConsistent
<1>2. /\ s \in StackType /\ s.shield = deploys /\ s.workflow = deploys
      /\ s.init = r.init /\ s.workgroup = r.workgroup
      /\ s.counterparties = r.counterparties /\ s.bearer = r.bearer
  BY <1>1 DEF With, StackType
<1>3. stack' = [stack EXCEPT ![Initiator] = s]
  BY InitiatorAssumption DEF FinishDeploy, Update, IInv, TypeOK
<1>4. InitiatorConsistent(s)
  <2> HIDE DEF s
  <2> QED BY <1>1, <1>2 DEF InitiatorConsistent
<1>5. /\ deploying' = "idle"
      /\ UNCHANGED <<deploys, invite, net, handling>>
      /\ submitted' \subseteq Organizations /\ registered' \subseteq Organizations
  BY DEF FinishDeploy, chain, messages, IInv, TypeOK
<1> HIDE DEF s
<1> QED BY <1>1, <1>2, <1>3, <1>4, <1>5, InitiatorStep

LEMMA InviteStep ==
    ASSUME IInv, NEW q \in Invitees, StartInvite(q) \/ FinishInvite(q)
    PROVE  IInv'
<1>1. q \in Organizations /\ stack[Initiator] \in StackType
      /\ stack[Initiator].shield = stack[Initiator].workflow
  BY InitiatorAssumption
     DEF IInv, TypeOK, DeploymentConsistent, InitiatorConsistent, Invitees
<1>2. stack[Initiator].shield \in Shields
  BY <1>1 DEF StackType
<1>3. UNCHANGED <<stack, deploying, deploys, submitted, registered, net, handling>>
  BY DEF StartInvite, FinishInvite, chain, messages
<1>4. /\ invite' \in [Invitees -> [pc : {"none", "vending", "sent"},
                                   shield : Shields, workflow : Shields]]
      /\ invite[q].pc # "sent"
      /\ \A p \in Invitees : /\ p # q => invite'[p] = invite[p]
                             /\ invite'[p].shield = invite'[p].workflow
  <2>1. CASE StartInvite(q)
    BY <2>1 DEF StartInvite, IInv, TypeOK, InviteesConsistent
  <2>2. CASE FinishInvite(q)
    BY <2>2, <1>1, <1>2 DEF FinishInvite, IInv, TypeOK, InviteesConsistent
  <2> QED BY <2>1, <2>2
<1>5. InviteeConsistent(stack[q], invite[q]) => InviteeConsistent(stack[q], invite'[q])
  BY <1>4, <1>1 DEF InviteeConsistent, IInv, TypeOK, StackType, Accepted
<1>6. InviteesConsistent'
  BY <1>3, <1>4, <1>5 DEF IInv, InviteesConsistent
<1>7. TypeOK'
  BY <1>3, <1>4 DEF IInv, TypeOK
<1> QED BY <1>3, <1>6, <1>7
        DEF IInv, DeploymentConsistent, MembersConsistent, MessagesConsistent, Joins

-----------------------------------------------------------------------------
(* acceptWorkgroupInvite.                                                  *)

LEMMA StartAcceptStep ==
    ASSUME IInv, NEW q \in Invitees, StartAccept(q)
    PROVE  IInv'
<1> DEFINE r == stack[q]
           s == With(r, [pc |-> "workgroup", early |-> r.init # "done"])
<1>1. /\ q \in Organizations /\ q # Initiator
      /\ r \in StackType /\ InviteeConsistent(r, invite[q])
      /\ r.pc \in {"idle", "failed"} /\ ~r.token /\ invite[q].pc = "sent"
  BY StackKnown DEF StartAccept, Invitees
<1>2. /\ s \in StackType /\ s.pc = "workgroup"
      /\ s.early = (r.init # "done") /\ s.init = r.init /\ s.token = r.token
      /\ s.workflow = r.workflow /\ s.counterparties = r.counterparties
  BY <1>1 DEF With, StackType, Pcs
<1>3. Allowed(q, s)
  <2> HIDE DEF s
  <2> QED BY <1>1, <1>2 DEF Allowed, InviteeConsistent, Accepted, Resolved
<1> QED BY <1>1, <1>3, StackKnown, StackStep DEF StartAccept, chain

LEMMA ResolveInviterStep ==
    ASSUME IInv, NEW q \in Invitees, ResolveInviter(q)
    PROVE  IInv'
<1> DEFINE r == stack[q]
           found == [workflow |-> invite[q].workflow, pc |-> "track",
                     bearer |-> [r.bearer EXCEPT ![Initiator] = Initiator]]
           s == With(r, found)
<1>1. /\ q \in Organizations /\ q # Initiator
      /\ r \in StackType /\ InviteeConsistent(r, invite[q])
      /\ invite[q].workflow \in Shields
      /\ r.pc = "resolve"
  BY StackKnown DEF ResolveInviter, Step, Invitees
<1>2. s \in StackType
  BY <1>1, InitiatorAssumption DEF With, StackType, Pcs
<1>3. /\ s.pc = "track" /\ s.workflow = invite[q].workflow
      /\ s.init = r.init /\ s.token = r.token /\ s.early = r.early
      /\ s.shield = r.shield /\ s.counterparties = r.counterparties
  BY <1>1 DEF With, StackType
<1>4. s.bearer[Initiator] = Initiator
  BY <1>1, InitiatorAssumption DEF With, StackType
<1>5. Allowed(q, s)
  <2> HIDE DEF s
  <2> QED BY <1>1, <1>2, <1>3, <1>4, InitiatorAssumption, NoneAssumption
          DEF Allowed, InviteeConsistent, Accepted, Resolved
<1>6. /\ Update(q, found) \/ Update(q, [pc |-> "failed"])
      /\ UNCHANGED <<workflowState, messages, submitted, registered>>
  BY DEF ResolveInviter, Step, chain
<1>7. Allowed(q, With(r, [pc |-> "failed"]))
  BY <1>1, FailureAllowed
<1> HIDE DEF found
<1> QED BY <1>1, <1>5, <1>6, <1>7, StackKnown, StackStep

LEMMA TrackShieldStep ==
    ASSUME IInv, NEW q \in Invitees, TrackShield(q)
    PROVE  IInv'
<1> DEFINE fields == [pc |-> "organization"]
           s == With(stack[q], fields)
<1>1. ASSUME stack[q].pc = "track" PROVE Allowed(q, s)
  <2>1. s \in StackType /\ SameBut(s, stack[q]) /\ s.pc = "organization"
    BY ZenonT(30), StackKnown DEF With, StackType, Pcs, SameBut, Invitees
  <2> QED BY <1>1, <2>1, PlaceAllowed DEF Resolved, Invitees
<1>2. /\ Step(q, "track", fields)
      /\ UNCHANGED <<workflowState, messages, submitted, registered>>
  BY DEF TrackShield, chain
<1> HIDE DEF fields
<1> QED BY <1>1, <1>2, StackKnown, StepStep DEF Invitees

LEMMA RequireStep ==
    ASSUME IInv, NEW q \in Invitees, RequireOrganization(q) \/ RequireRejects(q)
    PROVE  IInv'
<1> DEFINE fields == [pc |-> "join"]
           s == With(stack[q], fields)
<1>1. q \in Organizations /\ stack[q].pc = "require"
  BY DEF RequireOrganization, RequireRejects, Step, Invitees
<1>2. Allowed(q, s)
  <2>1. s \in StackType /\ SameBut(s, stack[q]) /\ s.pc = "join"
    BY ZenonT(30), <1>1, StackKnown DEF With, StackType, Pcs, SameBut
  <2> QED BY <1>1, <2>1, PlaceAllowed DEF Resolved
<1>3. /\ Update(q, fields) \/ Update(q, [pc |-> "failed"])
      /\ UNCHANGED <<workflowState, messages, submitted, registered>>
  BY DEF RequireOrganization, RequireRejects, Step, chain
<1> HIDE DEF fields
<1> QED BY <1>1, <1>2, <1>3, FailureAllowed, StackKnown, StackStep

\* JOIN leaves when its sender becomes ready.
LEMMA SendJoinStep ==
    ASSUME IInv, NEW q \in Invitees, SendJoin(q)
    PROVE  IInv'
<1>1. q \in Organizations /\ stack[q].pc = "join" /\ stack[q] \in StackType
  BY StackKnown DEF SendJoin, Invitees
<1>2. CASE Update(q, [pc |-> "failed"]) /\ UNCHANGED net
  BY <1>1, <1>2, FailureAllowed, StackKnown, StackStep
     DEF SendJoin, workflowState, chain, messages
<1>3. CASE Update(q, [pc |-> "ready"]) /\ Publish(JoinMessage(q))
  <2> DEFINE fields == [pc |-> "ready"]
             s == With(stack[q], fields)
  <2>1. s \in StackType /\ SameBut(s, stack[q]) /\ s.pc = "ready"
    BY <1>1 DEF With, StackType, Pcs, SameBut
  <2>2. Allowed(q, s)
    BY <1>1, <2>1, PlaceAllowed DEF Resolved
  <2>3. stack' = [stack EXCEPT ![q] = s]
    BY <1>1, <1>3 DEF Update, IInv, TypeOK
  <2> HIDE DEF s
  <2>4. /\ InviteeConsistent(s, invite[q])
        /\ UNCHANGED <<deploying, deploys, invite, handling>>
        /\ submitted' \subseteq Organizations /\ registered' \subseteq Organizations
    BY <1>1, <2>2, StackKnown DEF SendJoin, Allowed, Invitees, workflowState, chain
  <2>5. /\ stack' \in [Organizations -> StackType]
        /\ stack'[q] = s
        /\ \A p \in Organizations \ {q} : stack'[p] = stack[p]
    BY <2>1, <2>3, <1>1 DEF IInv, TypeOK
  <2>6. /\ JoinMessage(q) \in Messages
        /\ JoinMessage(q).from = q
        /\ net' \subseteq net \cup {JoinMessage(q)}
    BY <1>3 DEF Publish, JoinMessage, Messages
  <2>7. \A p \in Organizations : stack[p].pc = "ready" => stack'[p].pc = "ready"
    BY <2>1, <2>5
  <2>8. TypeOK'
    BY <2>4, <2>5, <2>6, MessageKinds DEF IInv, TypeOK, MessagesConsistent
  <2>9. q # Initiator /\ stack'[Initiator] = stack[Initiator]
    BY <2>5, InitiatorAssumption DEF Invitees
  <2>10. InviteesConsistent'
    BY <2>4, <2>5 DEF IInv, InviteesConsistent, Invitees
  <2>11. DeploymentConsistent'
    BY <2>4, <2>9 DEF IInv, DeploymentConsistent
  <2>12. MembersConsistent'
    BY <2>1, <2>5, <2>9 DEF IInv, MembersConsistent, Invitees
  <2>13. MessagesConsistent'
    BY <1>1, <2>1, <2>4, <2>5, <2>6, <2>7, MessageKinds
       DEF IInv, MessagesConsistent, Joins
  <2> QED BY <2>8, <2>10, <2>11, <2>12, <2>13 DEF IInv
<1> QED BY <1>2, <1>3 DEF SendJoin

-----------------------------------------------------------------------------
(* Protocol messages.                                                      *)

LEMMA ReceiveStep ==
    ASSUME IInv, Receive
    PROVE  IInv'
BY DEF Receive, workflowState, chain, IInv, TypeOK, InviteesConsistent,
       DeploymentConsistent, MembersConsistent, MessagesConsistent, Joins

LEMMA HandleJoinStep ==
    ASSUME IInv, NEW m \in handling, HandleJoin(m)
    PROVE  IInv'
<1> DEFINE r == stack[Initiator]
           q == m.from
           fields == [counterparties |-> Append(r.counterparties, q),
                      bearer |-> [r.bearer EXCEPT ![q] = q]]
           s == With(r, fields)
<1>1. /\ m \in Messages /\ m.kind = "JOIN" /\ m.to = Initiator
      /\ q \in Invitees /\ q \in Organizations /\ q # Initiator
      /\ stack[q].pc = "ready"
  BY MessageKinds DEF HandleJoin, IInv, MessagesConsistent, Joins, Invitees
<1>2. /\ UNCHANGED <<deploying, deploys, invite, submitted, registered, net>>
      /\ handling' = handling \ {m}
  BY DEF HandleJoin, workflowState, chain
<1>3. CASE UNCHANGED stack
  BY <1>2, <1>3
     DEF IInv, TypeOK, InviteesConsistent, DeploymentConsistent, MembersConsistent,
         MessagesConsistent, Joins
<1>4. CASE Update(Initiator, fields)
  <2>1. r \in StackType /\ r.counterparties \in Seq(Organizations)
    BY InitiatorAssumption DEF IInv, TypeOK, StackType
  <2>2. Append(r.counterparties, q) \in Seq(Organizations)
    BY <1>1, <2>1
  <2>3. s \in StackType
    BY <1>1, <2>1, <2>2 DEF With, StackType
  <2>4. /\ s.counterparties = Append(r.counterparties, q)
        /\ s.bearer = [r.bearer EXCEPT ![q] = q]
        /\ s.shield = r.shield /\ s.workflow = r.workflow /\ s.init = r.init
        /\ s.pc = r.pc /\ s.workgroup = r.workgroup
    BY <2>1 DEF With, StackType
  <2>5. /\ stack' \in [Organizations -> StackType]
        /\ stack'[Initiator] = s
        /\ \A p \in Organizations \ {Initiator} : stack'[p] = stack[p]
    BY <1>4, <2>3, InitiatorAssumption DEF Update, IInv, TypeOK
  <2>6. /\ s.bearer[q] = q
        /\ \A p \in Invitees \ {q} : s.bearer[p] = r.bearer[p]
    BY <1>1, <2>1, <2>4 DEF StackType, Invitees
  <2> HIDE DEF s
  <2>7. ToSet(s.counterparties) = ToSet(r.counterparties) \cup {q}
    BY <1>1, <2>1, <2>4, MemberAppended
  <2>8. TypeOK'
    BY <1>2, <2>5 DEF IInv, TypeOK
  <2>9. InviteesConsistent'
    BY <1>2, <2>5 DEF IInv, InviteesConsistent, Invitees
  <2>10. DeploymentConsistent'
    BY <1>2, <2>4, <2>5 DEF IInv, DeploymentConsistent, InitiatorConsistent
  <2>11. MembersConsistent'
    BY <1>1, <2>5, <2>6, <2>7, NoneAssumption DEF IInv, MembersConsistent, Invitees
  <2>12. MessagesConsistent'
    BY <1>2, <2>5, MessageKinds DEF IInv, MessagesConsistent, Joins, Invitees
  <2> QED BY <2>8, <2>9, <2>10, <2>11, <2>12 DEF IInv
<1>5. QED BY <1>1, <1>3, <1>4 DEF HandleJoin

LEMMA NextStep ==
    ASSUME IInv, Next
    PROVE  IInv'
<1>1. CASE Mine \/ Receive \/ StartDeploy \/ DeploySteps
  BY <1>1, MineStep, ReceiveStep, StartDeployStep, DeployShieldStep, FinishDeployStep
     DEF DeploySteps
<1>2. CASE HandleSteps
  BY <1>2, HandleJoinStep DEF HandleSteps
<1>3. CASE ContractSetup(Initiator)
  BY <1>3, ContractSetupStep
<1>4. ASSUME NEW p \in Organizations, InitSteps(p) PROVE IInv'
  BY <1>4, StartInitStep, ResetContractsStep, StartProtocolSubscriptionsStep DEF InitSteps
<1>5. ASSUME NEW p \in Organizations, RegistrationSteps(p) PROVE IInv'
  BY <1>5, CreateWorkgroupStep, SetWorkgroupStep, CreateWorkgroupTokenStep,
     CreateOrganizationStep, CreateKeysStep, RegisterOrganizationStep,
     RegisterWorkgroupOrganizationStep
     DEF RegistrationSteps
<1>6. ASSUME NEW q \in Invitees,
             StartInvite(q) \/ FinishInvite(q) \/ StartAccept(q) \/ AcceptSteps(q)
                \/ RequireRejects(q)
      PROVE  IInv'
  BY <1>6, InviteStep, StartAcceptStep, ResolveInviterStep, TrackShieldStep, RequireStep,
     SendJoinStep
     DEF AcceptSteps
<1> QED BY <1>1, <1>2, <1>3, <1>4, <1>5, <1>6 DEF Next

-----------------------------------------------------------------------------
(* The workstep.  Its messages are no JOINs.                               *)

LEMMA CallStep ==
    ASSUME IInv, NEW m \in Messages, m.kind # "JOIN", Call(m)
    PROVE  IInv'
<1>1. UNCHANGED <<stack, deploying, deploys, invite, submitted, registered, handling>>
  BY DEF Call, core, workflowState, chain
<1>2. net' \subseteq net \cup {m}
  BY DEF Call, Sent, Publish
<1> QED BY <1>1, <1>2, MessageStep DEF IInv, MessagesConsistent

LEMMA CommitAndPushStep ==
    ASSUME IInv, Commit \/ Push
    PROVE  IInv'
<1>1. UNCHANGED <<stack, deploying, deploys, invite, submitted, registered, net, handling>>
  BY DEF Commit, Push, core, workflowState, chain, messages
<1> QED BY <1>1, MessageStep DEF IInv, MessagesConsistent

LEMMA SendRequestStep ==
    ASSUME IInv, SendRequest
    PROVE  IInv'
<1>1. PICK q \in ToSet(stack[Initiator].counterparties), job \in Jobs, n \in States :
         Call(RequestMessage(q, job, n))
  BY DEF SendRequest
<1>2. q \in Invitees
  BY DEF IInv, MembersConsistent
<1>3. RequestMessage(q, job, n) \in Messages /\ RequestMessage(q, job, n).kind # "JOIN"
  BY <1>2 DEF RequestMessage, Messages
<1> QED BY <1>1, <1>3, CallStep

LEMMA SendNoticeStep ==
    ASSUME IInv, SendNotice
    PROVE  IInv'
<1>1. PICK q \in ToSet(stack[Initiator].counterparties) : Call(NoticeMessage(q))
  BY DEF SendNotice
<1>2. q \in Invitees
  BY DEF IInv, MembersConsistent
<1>3. NoticeMessage(q) \in Messages /\ NoticeMessage(q).kind # "JOIN"
  BY <1>2 DEF NoticeMessage, Messages
<1> QED BY <1>1, <1>3, CallStep

\* A broadcast of messages of another kind, at the end of a handler.
LEMMA BroadcastStep ==
    ASSUME IInv, NEW m \in handling, NEW from, NEW ms,
           ms \subseteq Messages, \A n \in ms : n.kind # "JOIN",
           handling' = handling \ {m}, Broadcast(from, ms), UNCHANGED core
    PROVE  IInv'
<1>1. UNCHANGED <<stack, deploying, deploys, invite, submitted, registered>>
  BY DEF core, workflowState, chain
<1>2. net' \subseteq net \cup ms
  BY DEF Broadcast
<1> QED BY <1>1, <1>2, MessageStep DEF IInv, MessagesConsistent

\* Who a supplier answers: the initiator, and nobody else.
LEMMA InviteeAnswers ==
    ASSUME IInv, NEW q \in Invitees
    PROVE  ToSet(stack[q].counterparties) \subseteq {Initiator}
BY ShortSequences DEF IInv, InviteesConsistent, InviteeConsistent

LEMMA HandleRequestStep ==
    ASSUME IInv, NEW m \in handling, HandleRequest(m)
    PROVE  IInv'
<1>1. m \in Messages /\ m.kind = "request"
  BY DEF HandleRequest, IInv, MessagesConsistent
<1>2. [m EXCEPT !.kind = "availability"] \in Messages
      /\ [m EXCEPT !.kind = "availability"].kind # "JOIN"
  BY <1>1 DEF Messages
<1>3. /\ UNCHANGED <<stack, deploying, deploys, invite, submitted, registered, net>>
      /\ handling' \subseteq handling \cup {[m EXCEPT !.kind = "availability"]}
  BY DEF HandleRequest, Drop, core, workflowState, chain
<1> QED BY <1>2, <1>3, MessageStep DEF IInv, MessagesConsistent

LEMMA AnswerRequestStep ==
    ASSUME IInv, NEW m \in handling, AnswerRequest(m)
    PROVE  IInv'
<1> DEFINE ms == {ResponseMessage(m.to, p) : p \in ToSet(stack[m.to].counterparties)}
<1>1. m.to \in Invitees
  BY MessageKinds DEF AnswerRequest, IInv, MessagesConsistent
<1>2. ms \subseteq Messages /\ \A n \in ms : n.kind # "JOIN"
  BY <1>1, InviteeAnswers DEF ResponseMessage, Messages
<1>3. handling' = handling \ {m} /\ Broadcast(m.to, ms) /\ UNCHANGED core
  BY DEF AnswerRequest
<1> HIDE DEF ms
<1> QED BY <1>2, <1>3, BroadcastStep

LEMMA HandleNoticeStep ==
    ASSUME IInv, NEW m \in handling, HandleNotice(m)
    PROVE  IInv'
<1> DEFINE ms == {ReturnMessage(m, p) : p \in ToSet(stack[m.to].counterparties)}
<1>1. m.to \in Invitees /\ m.signatures = <<Initiator>>
  BY MessageKinds DEF HandleNotice, IInv, MessagesConsistent
<1>2. Append(<<Initiator>>, m.to) = <<Initiator, m.to>>
  BY <1>1, InitiatorAssumption, AppendToOne DEF Invitees
<1>3. ms \subseteq Messages /\ \A n \in ms : n.kind # "JOIN"
  BY <1>1, <1>2, InviteeAnswers DEF ReturnMessage, Messages
<1>4. handling' = handling \ {m} /\ Broadcast(m.to, ms) /\ UNCHANGED core
  BY DEF HandleNotice
<1> HIDE DEF ms
<1> QED BY <1>3, <1>4, BroadcastStep

LEMMA DropStep ==
    ASSUME IInv, NEW m \in handling, HandleResponse(m) \/ HandleReturn(m)
    PROVE  IInv'
<1>1. /\ UNCHANGED <<stack, deploying, deploys, invite, submitted, registered, net>>
      /\ handling' = handling \ {m}
  BY DEF HandleResponse, HandleReturn, Drop, core, workflowState, chain
<1> QED BY <1>1, MessageStep DEF IInv, MessagesConsistent

LEMMA WorkstepStep ==
    ASSUME IInv, [WorkstepNext]_allVars
    PROVE  IInv'
<1>1. CASE Next
  BY <1>1, NextStep
<1>2. CASE Commit \/ Push \/ SendRequest \/ SendNotice
  BY <1>2, CommitAndPushStep, SendRequestStep, SendNoticeStep
<1>3. CASE Dispatch
  BY <1>3, HandleRequestStep, AnswerRequestStep, HandleNoticeStep, DropStep DEF Dispatch
<1>4. CASE UNCHANGED allVars
  <2>1. UNCHANGED <<stack, deploying, deploys, invite, submitted, registered, net, handling>>
    BY <1>4 DEF allVars, vars, chain
  <2> QED BY <2>1, MessageStep DEF IInv, MessagesConsistent
<1> QED BY <1>1, <1>2, <1>3, <1>4 DEF WorkstepNext

LEMMA InitEstablishesIInv ==
    ASSUME WorkstepInit
    PROVE  IInv
<1> USE DEF WorkstepInit, Init
<1>1. 0 \in Shields /\ deploys \in Shields
  BY MaxDeploysAssumption DEF Shields
<1>2. <<>> \in Seq(Organizations)
  OBVIOUS
<1>3. NewStack \in StackType
  BY <1>1, <1>2 DEF NewStack, StackType, InitPcs, Pcs
<1>4. TypeOK
  BY <1>1, <1>3 DEF TypeOK
<1>5. InviteesConsistent
  BY DEF InviteesConsistent, InviteeConsistent, Invitees, NewStack, Accepted, Resolved
<1>6. DeploymentConsistent
  BY InitiatorAssumption DEF DeploymentConsistent, InitiatorConsistent, NewStack
<1>7. MembersConsistent /\ MessagesConsistent
  BY InitiatorAssumption, ShortSequences
     DEF MembersConsistent, MessagesConsistent, NewStack, Joins
<1> QED BY <1>4, <1>5, <1>6, <1>7 DEF IInv

-----------------------------------------------------------------------------
(* Theorems.                                                               *)

LEMMA Invariant == WorkstepSpec => []IInv
<1>1. WorkstepInit => IInv
  BY InitEstablishesIInv
<1>2. IInv /\ [WorkstepNext]_allVars => IInv'
  BY WorkstepStep
<1> QED BY <1>1, <1>2, PTL DEF WorkstepSpec

\* Every stack, invitation and message has its type.
THEOREM TypeCorrect == WorkstepSpec => []TypeOK
<1>1. IInv => TypeOK
  BY DEF IInv
<1> QED BY <1>1, Invariant, PTL

\* The initiator and its members know each other and can talk to each other,
\* whatever steps of acceptWorkgroupInvite fail and whatever JOINs are lost.
THEOREM MembersKnowEachOther == WorkstepSpec => []MembershipIsMutual
<1>1. IInv => MembershipIsMutual
  <2> SUFFICES ASSUME IInv PROVE MembershipIsMutual
    OBVIOUS
  <2>1. ASSUME NEW q \in Invitees
        PROVE  /\ InviteeConsistent(stack[q], invite[q])
               /\ stack[q].pc = "ready" => /\ Initiator \in ToSet(stack[q].counterparties)
                                           /\ stack[q].bearer[Initiator] # None
    <3>1. InviteeConsistent(stack[q], invite[q])
      BY DEF IInv, InviteesConsistent
    <3> QED BY <3>1, ShortSequences DEF InviteeConsistent, Accepted, Resolved
  <2>2. \A m \in Joins : stack[m.from].pc = "ready"
    BY DEF IInv, MessagesConsistent
  <2> QED BY <2>1, <2>2 DEF MembershipIsMutual, IInv, MembersConsistent
<1> QED BY <1>1, Invariant, PTL

\* Shield and workflow identifier are of one deployment, however many
\* deployments go on while invitations are written and accepted.
THEOREM OneDeploymentEach == WorkstepSpec => []WorkflowMatchesShield
<1>1. IInv => WorkflowMatchesShield
  <2> SUFFICES ASSUME IInv PROVE WorkflowMatchesShield
    OBVIOUS
  <2>1. stack[Initiator].shield = stack[Initiator].workflow
    BY DEF IInv, DeploymentConsistent, InitiatorConsistent
  <2>2. ASSUME NEW q \in Invitees, stack[q].workflow # 0, ~stack[q].early
        PROVE  stack[q].shield = stack[q].workflow
    BY <2>2 DEF IInv, InviteesConsistent, InviteeConsistent
  <2> QED BY <2>1, <2>2 DEF WorkflowMatchesShield, IInv, InviteesConsistent, Invitees
<1> QED BY <1>1, Invariant, PTL

\* Whatever comes back from a supplier is signed by the operator and by that
\* supplier, for it goes to the operator only.
THEOREM ReturnsAreSigned == WorkstepSpec => []ReturnsAreDoubleSigned
<1>1. IInv => ReturnsAreDoubleSigned
  BY MessageKinds DEF IInv, MessagesConsistent, ReturnsAreDoubleSigned
<1> QED BY <1>1, Invariant, PTL

-----------------------------------------------------------------------------
(* The commitments: an invariant of their own.                             *)

Committed == {CreateCommitment(job, Object(n), NoSupplier, last) :
                 job \in Jobs, n \in States, last \in Nat}

LeavesAreCommitted ==
    /\ drafts \subseteq Committed
    /\ leaves \in Seq(Committed \cup {PromiseHash})

\* A genesis commitment does not depend on what is in the tree, nor on
\* whether its state has been sent.
LEMMA GenesisIsOne ==
    ASSUME NEW job, NEW n, NEW last, NEW c,
           c = CreateCommitment(job, Object(n), NoSupplier, last)
    PROVE  /\ c.job = job /\ c.state = n
           /\ n = 0 => \A k : c = CreateCommitment(job, Parsed(0), NoSupplier, k)
<1>1. c.job = job /\ c.state = n
  BY DEF CreateCommitment, Object
<1>2. ASSUME NEW k
      PROVE  CreateCommitment(job, Object(0), NoSupplier, last)
                = CreateCommitment(job, Parsed(0), NoSupplier, k)
  <2>1. /\ ~StateIn(Object(0), {1, 2, 5}) /\ ~StateIn(Parsed(0), {1, 2, 5})
        /\ ~StateIn(Object(0), {3, 4}) /\ ~StateIn(Parsed(0), {3, 4})
        /\ StateEquals(Object(0), 0) /\ StateEquals(Parsed(0), 0)
        /\ Object(0).value = 0 /\ Parsed(0).value = 0
    BY DEF StateIn, StateEquals, Object, Parsed
  <2> QED BY <2>1 DEF CreateCommitment
<1> QED BY <1>1, <1>2

\* A supplier rebuilds the genesis commitment, whatever has been pushed since.
THEOREM GenesisRebuilt == WorkstepSpec => []GenesisIsRebuilt
<1>1. WorkstepInit => LeavesAreCommitted
  BY DEF WorkstepInit, LeavesAreCommitted
<1>2. LeavesAreCommitted /\ [WorkstepNext]_allVars => LeavesAreCommitted'
  <2> SUFFICES ASSUME LeavesAreCommitted, [WorkstepNext]_allVars
               PROVE  LeavesAreCommitted'
    OBVIOUS
  <2>1. CASE Commit
    <3>1. Len(leaves) \in Nat
      BY DEF LeavesAreCommitted
    <3> QED BY <2>1, <3>1 DEF Commit, LeavesAreCommitted, Committed
  <2>2. CASE Push
    <3>1. \A leaf \in drafts \cup {PromiseHash} :
            Append(leaves, leaf) \in Seq(Committed \cup {PromiseHash})
      BY AppendElements DEF LeavesAreCommitted
    <3> QED BY <2>2, <3>1 DEF Push, LeavesAreCommitted
  <2>3. CASE UNCHANGED <<drafts, leaves>>
    BY <2>3 DEF LeavesAreCommitted
  <2>4. WorkstepNext => Commit \/ Push \/ UNCHANGED <<drafts, leaves>>
    BY DEF WorkstepNext, workstep, SendRequest, SendNotice, Call, Dispatch, HandleRequest,
           AnswerRequest, HandleResponse, HandleNotice, HandleReturn
  <2>5. UNCHANGED allVars => UNCHANGED <<drafts, leaves>>
    BY DEF allVars, workstep
  <2> QED BY <2>1, <2>2, <2>3, <2>4, <2>5
<1>3. LeavesAreCommitted => GenesisIsRebuilt
  <2> SUFFICES ASSUME LeavesAreCommitted, NEW k \in DOMAIN leaves,
                      leaves[k] # PromiseHash, leaves[k].state = 0
               PROVE  leaves[k] =
                          CreateCommitment(leaves[k].job, Parsed(0), NoSupplier, Len(leaves))
    BY DEF GenesisIsRebuilt
  <2>1. leaves[k] \in Committed
    BY DEF LeavesAreCommitted
  <2>2. PICK job \in Jobs, n \in States, last \in Nat :
           leaves[k] = CreateCommitment(job, Object(n), NoSupplier, last)
    BY <2>1 DEF Committed
  <2> QED BY <2>2, GenesisIsOne
<1> QED BY <1>1, <1>2, <1>3, PTL DEF WorkstepSpec
=============================================================================
