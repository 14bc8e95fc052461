-------------------------- MODULE ParticipantStack --------------------------
(***************************************************************************)
(* The bri-1 participant stack (base-example/src/index.ts): one            *)
(* organization initiates a workgroup, deploys its contracts and invites   *)
(* the others, who register on chain and send JOIN messages.               *)
(*                                                                         *)
(* Calls of one stack interleave at their awaits.  The application calls   *)
(* init of every stack without waiting for it, and for the other calls it  *)
(* makes, one acceptWorkgroupInvite of a stack after the other, as the     *)
(* end-to-end test does.  Ident, Vault, the Ethereum node and NATS are external: a call    *)
(* succeeds or, where Failing says so, rejects.  An organization stands    *)
(* for its address, its messaging endpoint and the tokens it vends.        *)
(***************************************************************************)
EXTENDS Naturals, Sequences, SequencesExt

CONSTANTS
    Organizations,
    Initiator,
    MaxDeploys,     \* calls of deployBaselineCircuit
    Configs,        \* how the initiator may be configured
    Failing         \* steps whose remote calls may fail

ASSUME InitiatorAssumption == Initiator \in Organizations
ASSUME MaxDeploysAssumption == MaxDeploys \in Nat
ASSUME ConfigsAssumption == Configs \subseteq {"named", "existing"}

Invitees == Organizations \ {Initiator}
None == "none"

ASSUME NoneAssumption == None \notin Organizations

VARIABLES
    config,     \* the initiator's: names a workgroup, or brings an existing one
    stack,      \* every organization's ParticipantStack
    deploying,  \* deployBaselineCircuit: "idle", "verifier", "shield"
    deploys,    \* shields deployed: the last one's address
    invite,     \* the invitation of each invitee
    submitted,  \* registrations sent to the node
    registered, \* organizations in the on-chain registry
    net,        \* protocol messages on their way
    handling    \* messages whose dispatch is waiting for a call

chain == <<submitted, registered>>
vars == <<config, stack, deploying, deploys, invite, chain, net, handling>>

Shields == 0..MaxDeploys    \* 0: none
InitPcs == {"new", "services", "done"}
Pcs == {"idle", "setup", "workgroup", "token", "resolve", "track", "organization",
        "keys", "register", "join workgroup", "require", "join", "ready", "failed"}

NewStack == [init |-> "new", pc |-> "idle", early |-> FALSE, subscribed |-> FALSE,
             workgroup |-> FALSE, token |-> FALSE, org |-> FALSE, keys |-> FALSE,
             registry |-> FALSE, shield |-> 0, workflow |-> 0,
             counterparties |-> <<>>, bearer |-> [q \in Organizations |-> None]]

Init ==
    /\ config \in Configs
    /\ stack = [p \in Organizations |-> NewStack]
    /\ deploying = "idle"
    /\ deploys = 0
    /\ invite = [q \in Invitees |-> [pc |-> "none", shield |-> 0, workflow |-> 0]]
    /\ submitted = {}
    /\ registered = {}
    /\ net = {}
    /\ handling = {}

\* A record with some of its fields replaced.
With(record, fields) ==
    [f \in DOMAIN record |-> IF f \in DOMAIN fields THEN fields[f] ELSE record[f]]

Update(p, fields) == stack' = [stack EXCEPT ![p] = With(@, fields)]

\* The step of p's init or acceptWorkgroupInvite at pc: it completes, or a
\* call it awaits rejects and the whole call with it.
Step(p, pc, fields) ==
    /\ stack[p].pc = pc
    /\ \/ Update(p, fields)
       \/ pc \in Failing /\ Update(p, [pc |-> "failed"])

workflowState == <<deploying, deploys, invite>>
messages == <<net, handling>>

-----------------------------------------------------------------------------
(* init                                                                    *)

StartInit(p) ==
    /\ stack[p].init = "new"
    /\ Update(p, [init |-> "services"])
    /\ UNCHANGED <<config, workflowState, chain, messages>>

\* Once the services are there contracts are reset, the own bearer token is
\* kept, and startProtocolSubscriptions is left running.  The initiator goes
\* on; other stacks are initialized.
ResetContracts(p) ==
    /\ stack[p].init = "services"
    /\ Update(p, [init |-> "done", registry |-> FALSE, shield |-> 0,
                  bearer |-> [stack[p].bearer EXCEPT ![p] = p],
                  pc |-> IF p = Initiator THEN "setup" ELSE stack[p].pc])
    /\ UNCHANGED <<config, workflowState, chain, messages>>

StartProtocolSubscriptions(p) ==
    /\ stack[p].init = "done" /\ ~stack[p].subscribed
    /\ Update(p, [subscribed |-> TRUE])
    /\ UNCHANGED <<config, workflowState, chain, messages>>

\* merkleStoreSetup, ganacheAccountSetup and contractSetup.
ContractSetup(p) ==
    /\ Step(p, "setup", [registry |-> TRUE, pc |-> "workgroup"])
    /\ UNCHANGED <<config, workflowState, chain, messages>>

-----------------------------------------------------------------------------
(* The workgroup, the organization and its registration, for init and for  *)
(* acceptWorkgroupInvite.                                                  *)

CreateWorkgroup(p) ==
    /\ p = Initiator => config = "named"
    /\ Step(p, "workgroup", [workgroup |-> TRUE, pc |-> "token"])
    /\ UNCHANGED <<config, workflowState, chain, messages>>

\* setWorkgroup refuses unless there is a workgroup without a token: never here.
SetWorkgroup(p) ==
    /\ p = Initiator /\ config = "existing"
    /\ stack[p].pc = "workgroup"
    /\ Update(p, [pc |-> "failed"])
    /\ UNCHANGED <<config, workflowState, chain, messages>>

\* Mutant: the registry's address is left to the registration.
AcceptInvitationWithoutRegistry(q) ==
    [token |-> TRUE, pc |-> "resolve", shield |-> invite[q].shield,
     counterparties |-> Append(stack[q].counterparties, Initiator)]

\* The token, and what an invitee takes over from its invitation.
AcceptInvitation(q) ==
    [token |-> TRUE, pc |-> "resolve", registry |-> TRUE, shield |-> invite[q].shield,
     counterparties |-> Append(stack[q].counterparties, Initiator)]

\* createWorkgroupToken, then initWorkgroup in the initiator, whose registry
\* contract is there.
CreateWorkgroupToken(p) ==
    /\ Step(p, "token",
            IF p = Initiator THEN [token |-> TRUE, pc |-> "organization"]
                             ELSE AcceptInvitation(p))
    /\ UNCHANGED <<config, workflowState, chain, messages>>

CreateOrganization(p) ==
    /\ Step(p, "organization", [org |-> TRUE, pc |-> "keys"])
    /\ UNCHANGED <<config, workflowState, chain, messages>>

CreateKeys(p) ==
    /\ Step(p, "keys", [keys |-> TRUE, pc |-> "register"])
    /\ UNCHANGED <<config, workflowState, chain, messages>>

\* g_registerOrganization waits for the registry contract and for the
\* transaction to be sent, not for it to be mined.
RegisterOrganization(p) ==
    /\ stack[p].registry
    /\ Step(p, "register", [pc |-> "join workgroup"])
    /\ submitted' = IF stack'[p].pc = "failed" THEN submitted ELSE submitted \cup {p}
    /\ UNCHANGED <<config, workflowState, registered, messages>>

RegisterWorkgroupOrganization(p) ==
    /\ Step(p, "join workgroup", [pc |-> IF p = Initiator THEN "ready" ELSE "require"])
    /\ UNCHANGED <<config, workflowState, chain, messages>>

\* resolveMessagingEndpoint: of an organization that is not registered it rejects.
HasEndpoint(q) == q \in registered

Mine ==
    /\ \E p \in submitted : submitted' = submitted \ {p} /\ registered' = registered \cup {p}
    /\ UNCHANGED <<config, stack, workflowState, messages>>

-----------------------------------------------------------------------------
(* deployBaselineCircuit and inviteWorkgroupParticipant.  The application  *)
(* waits for the workgroup first.                                          *)

StartDeploy ==
    /\ deploying = "idle" /\ stack[Initiator].workgroup
    /\ deploys < MaxDeploys
    /\ deploying' = "verifier"
    /\ UNCHANGED <<config, stack, deploys, invite, chain, messages>>

DeployShield ==
    /\ deploying = "verifier"
    /\ deploying' = "shield"
    /\ deploys' = deploys + 1
    /\ UNCHANGED <<config, stack, invite, chain, messages>>

\* Mutant: the contracts are kept before the tracking, the identifier after it.
FinishDeployInTwo ==
    /\ deploying = "shield"
    /\ IF stack[Initiator].shield = deploys
       THEN Update(Initiator, [workflow |-> deploys]) /\ deploying' = "idle"
       ELSE Update(Initiator, [shield |-> deploys]) /\ UNCHANGED deploying
    /\ UNCHANGED <<config, deploys, invite, chain, messages>>

\* baseline_track is waited for; if it fails there is only a warning.
FinishDeploy ==
    /\ deploying = "shield"
    /\ deploying' = "idle"
    /\ Update(Initiator, [shield |-> deploys, workflow |-> deploys])
    /\ UNCHANGED <<config, deploys, invite, chain, messages>>

\* The inviter's address needs its keys; the rest of the call up to the
\* invitation's token changes nothing here.
StartInvite(q) ==
    /\ stack[Initiator].keys
    /\ invite[q].pc = "none"
    /\ invite' = [invite EXCEPT ![q].pc = "vending"]
    /\ UNCHANGED <<config, stack, deploying, deploys, chain, messages>>

\* The parameters are read after vendNatsAuthorization; without a shield that
\* throws.
FinishInvite(q) ==
    /\ invite[q].pc = "vending"
    /\ LET own == stack[Initiator] IN
       invite' = [invite EXCEPT ![q] =
                    IF own.shield = 0 THEN [@ EXCEPT !.pc = "none"]
                    ELSE [pc |-> "sent", shield |-> own.shield, workflow |-> own.workflow]]
    /\ UNCHANGED <<config, stack, deploying, deploys, chain, messages>>

-----------------------------------------------------------------------------
(* acceptWorkgroupInvite                                                   *)

\* A stack with a workgroup, a token or an organization refuses.  That keeps a
\* second call out only after createWorkgroup was answered; before, both would
\* go on.  The condition on pc is the application's, which waits for a call to
\* end before it makes another.
StartAccept(q) ==
    /\ invite[q].pc = "sent"
    /\ stack[q].pc \in {"idle", "failed"}
    /\ ~stack[q].workgroup /\ ~stack[q].token /\ ~stack[q].org
    /\ Update(q, [pc |-> "workgroup", early |-> stack[q].init # "done"])
    /\ UNCHANGED <<config, workflowState, chain, messages>>

ResolveInviter(q) ==
    /\ stack[q].registry
    /\ Step(q, "resolve",
            IF HasEndpoint(Initiator)
            THEN [workflow |-> invite[q].workflow, pc |-> "track",
                  bearer |-> [stack[q].bearer EXCEPT ![Initiator] = Initiator]]
            ELSE [pc |-> "failed"])
    /\ UNCHANGED <<config, workflowState, chain, messages>>

\* When baseline_track fails any shield that baseline_getTracked knows will do,
\* and so will none; the call fails when both do.
TrackShield(q) ==
    /\ Step(q, "track", [pc |-> "organization"])
    /\ UNCHANGED <<config, workflowState, chain, messages>>

\* requireOrganization polls until the registry has the organization.
RequireOrganization(q) ==
    /\ stack[q].registry /\ q \in registered
    /\ Step(q, "require", [pc |-> "join"])
    /\ UNCHANGED <<config, workflowState, chain, messages>>

\* A poll may reject before the organization is there; nothing makes it.
RequireRejects(q) ==
    /\ stack[q].registry /\ q \notin registered
    /\ stack[q].pc = "require" /\ "require" \in Failing
    /\ Update(q, [pc |-> "failed"])
    /\ UNCHANGED <<config, workflowState, chain, messages>>

\* sendProtocolMessage: the recipient's endpoint comes from the registry, the
\* token from what was authorized, the shield from the contracts.
CanSend(p, q) ==
    /\ stack[p].registry /\ HasEndpoint(q)
    /\ stack[p].bearer[q] # None
    /\ stack[p].shield # 0

\* NATS delivers to whoever is subscribed; the connection is closed at once,
\* and what it had not written is lost.
Publish(m) ==
    \/ net' = net
    \/ stack[m.to].subscribed /\ net' = net \cup {m}

JoinMessage(q) == [kind |-> "JOIN", from |-> q, to |-> Initiator]

\* Mutant: JOIN goes out as soon as the inviter is resolved.
SendJoinFirst(q) ==
    /\ stack[q].pc \in {"track", "join"}
    /\ CanSend(q, Initiator)
    /\ Update(q, IF stack[q].pc = "join" THEN [pc |-> "ready"] ELSE [pc |-> "organization"])
    /\ IF stack[q].pc = "track" THEN Publish(JoinMessage(q)) ELSE UNCHANGED net
    /\ UNCHANGED <<config, workflowState, chain, handling>>

SendJoin(q) ==
    /\ stack[q].registry
    /\ stack[q].pc = "join"
    /\ \/ CanSend(q, Initiator) /\ Update(q, [pc |-> "ready"]) /\ Publish(JoinMessage(q))
       \/ /\ "join" \in Failing \/ ~CanSend(q, Initiator)
          /\ Update(q, [pc |-> "failed"])
          /\ UNCHANGED net
    /\ UNCHANGED <<config, workflowState, chain, handling>>

-----------------------------------------------------------------------------
(* dispatchProtocolMessage of a JOIN                                       *)

Receive ==
    /\ \E m \in net : net' = net \ {m} /\ handling' = handling \cup {m}
    /\ UNCHANGED <<config, stack, workflowState, chain>>

\* Mutant: the payload is pushed for its address.
HandleJoinKeepsPayload(m) ==
    /\ m.kind = "JOIN"
    /\ Update(m.to, [counterparties |-> Append(stack[m.to].counterparties, m)])
    /\ handling' = handling \ {m}
    /\ UNCHANGED <<config, workflowState, chain, net>>

\* Mutant: messages are dropped until the initiator is ready.
HandleJoinWhenReady(m) ==
    /\ m.kind = "JOIN"
    /\ IF stack[m.to].pc = "ready"
       THEN Update(m.to, [counterparties |-> Append(stack[m.to].counterparties, m.from),
                          bearer |-> [stack[m.to].bearer EXCEPT ![m.from] = m.from]])
       ELSE UNCHANGED stack
    /\ handling' = handling \ {m}
    /\ UNCHANGED <<config, workflowState, chain, net>>

\* The sender is resolved first, in the registry, which is waited for; if that
\* rejects, the JOIN is lost.
HandleJoin(m) ==
    /\ m.kind = "JOIN"
    /\ stack[m.to].registry
    /\ \E answered \in BOOLEAN :
          /\ answered \/ "dispatch" \in Failing
          /\ IF answered /\ HasEndpoint(m.from)
             THEN Update(m.to, [counterparties |-> Append(stack[m.to].counterparties, m.from),
                                bearer |-> [stack[m.to].bearer EXCEPT ![m.from] = m.from]])
             ELSE UNCHANGED stack
    /\ handling' = handling \ {m}
    /\ UNCHANGED <<config, workflowState, chain, net>>

-----------------------------------------------------------------------------
InitSteps(p) == StartInit(p) \/ ResetContracts(p) \/ StartProtocolSubscriptions(p)

RegistrationSteps(p) ==
    \/ CreateWorkgroup(p) \/ SetWorkgroup(p) \/ CreateWorkgroupToken(p)
    \/ CreateOrganization(p) \/ CreateKeys(p)
    \/ RegisterOrganization(p) \/ RegisterWorkgroupOrganization(p)

AcceptSteps(q) ==
    ResolveInviter(q) \/ TrackShield(q) \/ RequireOrganization(q) \/ SendJoin(q)

DeploySteps == DeployShield \/ FinishDeploy

HandleSteps == \E m \in handling : HandleJoin(m)

Next ==
    \/ Mine \/ Receive \/ StartDeploy \/ DeploySteps \/ HandleSteps
    \/ ContractSetup(Initiator)
    \/ \E p \in Organizations : InitSteps(p) \/ RegistrationSteps(p)
    \/ \E q \in Invitees :
          \/ StartInvite(q) \/ FinishInvite(q) \/ StartAccept(q)
          \/ AcceptSteps(q) \/ RequireRejects(q)

\* Calls that were made go on, messages are delivered and the node mines; the
\* application may make no further call.
Fairness ==
    /\ WF_vars(Mine) /\ WF_vars(Receive) /\ WF_vars(HandleSteps)
    /\ \A p \in Organizations :
          WF_vars(StartInit(p) \/ ResetContracts(p)) /\ WF_vars(RegistrationSteps(p))
    /\ \A q \in Invitees : WF_vars(AcceptSteps(q))

Spec == Init /\ [][Next]_vars /\ Fairness

-----------------------------------------------------------------------------
\* Properties

StackType ==
    [init : InitPcs, pc : Pcs, early : BOOLEAN, subscribed : BOOLEAN,
     workgroup : BOOLEAN, token : BOOLEAN, org : BOOLEAN, keys : BOOLEAN,
     registry : BOOLEAN, shield : Shields, workflow : Shields,
     counterparties : Seq(Organizations),
     bearer : [Organizations -> Organizations \cup {None}]]

\* Every stack, invitation and message has its type.
TypeOK ==
    /\ stack \in [Organizations -> StackType]
    /\ deploying \in {"idle", "verifier", "shield"}
    /\ deploys \in Shields
    /\ invite \in [Invitees -> [pc : {"none", "vending", "sent"},
                                shield : Shields, workflow : Shields]]
    /\ submitted \subseteq Organizations /\ registered \subseteq Organizations
    /\ \A m \in net \cup handling : m.from \in Organizations /\ m.to \in Organizations

Joins == {m \in net \cup handling : m.kind = "JOIN"}

\* Whoever the initiator counts as a member counts the initiator as one, can
\* be sent messages and can send them.  An invitation whose acceptance failed
\* half-way has made no member: JOIN is the last thing acceptWorkgroupInvite
\* does.
MembershipIsMutual ==
    /\ \A q \in ToSet(stack[Initiator].counterparties) :
          /\ Initiator \in ToSet(stack[q].counterparties)
          /\ stack[q].pc = "ready"
          /\ stack[Initiator].bearer[q] # None /\ stack[q].bearer[Initiator] # None
    /\ \A m \in Joins : stack[m.from].pc = "ready"

\* Shield and workflow identifier come from the same deployment in every
\* stack and invitation, whatever deployments go on between their awaits.
\* A stack whose init ran into its acceptWorkgroupInvite has lost its shield.
WorkflowMatchesShield ==
    /\ \A p \in Organizations :
          stack[p].workflow # 0 /\ ~stack[p].early => stack[p].shield = stack[p].workflow
    /\ \A q \in Invitees : invite[q].shield = invite[q].workflow

\* acceptWorkgroupInvite ends, unless it was called before init had reset the
\* contracts: then it may poll for the registry forever.
AcceptEnds ==
    \A q \in Invitees :
        stack[q].pc = "workgroup" /\ ~stack[q].early ~> stack[q].pc \in {"ready", "failed"}

\* A JOIN that is on its way makes its sender a member.
JoinIsLearnt ==
    \A q \in Invitees :
        JoinMessage(q) \in net ~> q \in ToSet(stack[Initiator].counterparties)
=============================================================================
