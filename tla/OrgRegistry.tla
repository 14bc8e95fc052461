---------------------------- MODULE OrgRegistry ----------------------------
(***************************************************************************)
(* core/contracts/contracts/registry/OrgRegistry.sol and its base          *)
(* Registrar.sol, together with the ERC1820 registry they call.  A step is *)
(* one transaction.  An organization's name, endpoint and keys are written *)
(* together, so they are one value of Details.                             *)
(***************************************************************************)
EXTENDS ERC1820Registry, FiniteSets

CONSTANTS
    Details,        \* name, messaging endpoint, keys and metadata
    NoDetails,      \* those of an address that was never registered
    Unborn,         \* no owner yet
    Groups,         \* groupName and addresses given to registerInterfaces
    MaxCalls        \* bound: transactions

ASSUME BoundAssumption == MaxCalls \in Nat
ASSUME DetailsAssumption == NoDetails \notin Details /\ Unborn \notin Addresses

VARIABLES owner, orgMap, orgs, orgInterfaceMap, orgInterfaceCount,
          calls     \* transactions so far

storage == <<owner, orgMap, orgs, orgInterfaceMap, orgInterfaceCount>>
vars == <<deployed, interfaces, managers, erc165Cached, log, msgSender,
          owner, orgMap, orgs, orgInterfaceMap, orgInterfaceCount, calls>>

Org(a, details) == [orgAddress |-> a, details |-> details]

Init ==
    /\ Erc1820Init
    /\ deployed = FALSE
    /\ log = <<>>
    /\ msgSender = Zero
    /\ owner = Zero
    /\ orgMap = [a \in Addresses |-> Org(Zero, NoDetails)]
    /\ orgs = <<>>
    /\ orgInterfaceMap = <<>>
    /\ orgInterfaceCount = 0
    /\ calls = 0

\* The constructor of a contract whose address nothing was deployed to yet.
\* It calls the registry as the contract itself.
Construct(sender) ==
    /\ ~deployed
    /\ deployed' = TRUE
    /\ owner' = sender
    /\ SetInterfaceImplementer(OrgContract, OrgContract, IOrgRegistry, OrgContract)
    /\ UNCHANGED <<orgMap, orgs, orgInterfaceMap, orgInterfaceCount>>

OnlyOwner(sender) == deployed /\ sender = owner

\* assignManager: the registry sees the contract as the caller, and refuses
\* once the contract has handed its management over.
AssignManager(sender, newManager) ==
    /\ OnlyOwner(sender)
    /\ SetManager(OrgContract, OrgContract, newManager)
    /\ UNCHANGED <<deployed, storage>>

\* Mutant: an organization that is registered again keeps its entry.
RegisterOrgOnce(sender, a, details) ==
    /\ OnlyOwner(sender)
    /\ orgMap' = [orgMap EXCEPT ![a] = IF @.details = NoDetails THEN Org(a, details) ELSE @]
    /\ orgs' = Append(orgs, Org(a, details))
    /\ log' = Append(log, [event |-> "RegisterOrg", addr |-> a, details |-> details])
    /\ msgSender' = sender
    /\ UNCHANGED <<deployed, owner, orgInterfaceMap, orgInterfaceCount, erc1820>>

RegisterOrg(sender, a, details) ==
    /\ OnlyOwner(sender)
    /\ orgMap' = [orgMap EXCEPT ![a] = Org(a, details)]
    /\ orgs' = Append(orgs, Org(a, details))
    /\ log' = Append(log, [event |-> "RegisterOrg", addr |-> a, details |-> details])
    /\ msgSender' = sender
    /\ UNCHANGED <<deployed, owner, orgInterfaceMap, orgInterfaceCount, erc1820>>

\* Mutant: the check of the sender is lost.
UpdateOrgUnchecked(sender, a, details) ==
    /\ deployed
    /\ orgMap' = [orgMap EXCEPT ![a].details = details]
    /\ log' = Append(log, [event |-> "UpdateOrg", addr |-> a, details |-> details])
    /\ msgSender' = sender
    /\ UNCHANGED <<deployed, owner, orgs, orgInterfaceMap, orgInterfaceCount, erc1820>>

\* orgs keeps the details it was pushed with.
UpdateOrg(sender, a, details) ==
    /\ deployed
    /\ sender = orgMap[a].orgAddress
    /\ orgMap' = [orgMap EXCEPT ![a].details = details]
    /\ log' = Append(log, [event |-> "UpdateOrg", addr |-> a, details |-> details])
    /\ msgSender' = sender
    /\ UNCHANGED <<deployed, owner, orgs, orgInterfaceMap, orgInterfaceCount, erc1820>>

\* Mutant: the count is raised before the group is stored.
RegisterInterfacesLate(sender, group) ==
    /\ OnlyOwner(sender)
    /\ orgInterfaceMap' = [i \in 0..(orgInterfaceCount + 1) |->
                             IF i > orgInterfaceCount \/ orgInterfaceCount = 0 THEN group ELSE orgInterfaceMap[i]]
    /\ orgInterfaceCount' = orgInterfaceCount + 1
    /\ msgSender' = sender
    /\ UNCHANGED <<deployed, owner, orgMap, orgs, log, erc1820>>

\* A mapping that is only ever written at its count.
RegisterInterfaces(sender, group) ==
    /\ OnlyOwner(sender)
    /\ orgInterfaceMap' = [i \in 0..orgInterfaceCount |->
                             IF i = orgInterfaceCount THEN group ELSE orgInterfaceMap[i]]
    /\ orgInterfaceCount' = orgInterfaceCount + 1
    /\ msgSender' = sender
    /\ UNCHANGED <<deployed, owner, orgMap, orgs, log, erc1820>>

\* Ownable of OpenZeppelin: a new owner must not be the zero address, but the
\* owner may renounce.
TransferOwnership(sender, newOwner) ==
    /\ OnlyOwner(sender)
    /\ owner' = newOwner
    /\ msgSender' = sender
    /\ UNCHANGED <<deployed, orgMap, orgs, orgInterfaceMap, orgInterfaceCount, log, erc1820>>

\* What the contract answers.
GetOrgCount == Len(orgs)
GetOrg(a) == orgMap[a]

\* A transaction sent to the ERC1820 registry itself.
CallErc1820(sender) ==
    /\ UNCHANGED <<deployed, storage>>
    /\ \E addr \in Addresses :
          \/ \E hash \in Hashes, implementer \in Addresses :
                SetInterfaceImplementer(sender, addr, hash, implementer)
          \/ \E newManager \in Addresses : SetManager(sender, addr, newManager)
          \/ \E id \in Erc165Ids : UpdateERC165Cache(sender, addr, id)

Next ==
    /\ calls < MaxCalls
    /\ calls' = calls + 1
    /\ \E sender \in Accounts :
          \/ Construct(sender)
          \/ CallErc1820(sender)
          \/ \E a \in Addresses : AssignManager(sender, a) \/ TransferOwnership(sender, a)
          \/ \E a \in Addresses, details \in Details :
                RegisterOrg(sender, a, details) \/ UpdateOrg(sender, a, details)
          \/ \E group \in Groups : RegisterInterfaces(sender, group)

Spec == Init /\ [][Next]_vars

-----------------------------------------------------------------------------
\* Properties

\* Every variable of the two contracts has its type.
TypeOK ==
    /\ deployed \in BOOLEAN
    /\ interfaces \in [Addresses -> [Hashes -> Addresses]]
    /\ managers \in [Addresses -> Addresses]
    /\ erc165Cached \in [Addresses -> [Erc165Ids -> BOOLEAN]]
    /\ msgSender \in Addresses
    /\ owner \in Addresses
    /\ orgMap \in [Addresses -> [orgAddress : Addresses, details : Details \cup {NoDetails}]]
    /\ orgInterfaceCount \in Nat
    /\ orgInterfaceMap \in [0..(orgInterfaceCount - 1) -> Groups]
    /\ calls \in 0..MaxCalls

\* An entry names the address it is stored under, or nothing at all: an
\* unregistered address has no entry that updateOrg could be let into.
EntriesAreKeyed ==
    \A a \in Addresses : orgMap[a].orgAddress # a => orgMap[a] = Org(Zero, NoDetails)

\* The cache of ERC165 answers may say no when the answer has become yes, but
\* a yes is always true: nobody can write one without the contract's support.
\* Not so for the zero address, whose cached no equals its cached yes.
CachedYesIsTrue ==
    \A a \in Callers, id \in Erc165Ids :
        erc165Cached[a][id] /\ ImplementsERC165Interface(a, id)
            => ImplementsERC165InterfaceNoCache(a, id)

\* The last of a set of events, given by their places in the log; 0 if there is none.
LastOf(told) == IF told = {} THEN 0 ELSE CHOOSE k \in told : \A j \in told : j <= k

\* The events by which organizations were registered, among the first k.
Registrations(events, k) == {j \in 1..k : events[j].event = "RegisterOrg"}

\* Whoever replays the events RegisterOrg and UpdateOrg knows what getOrg
\* answers for every address, and the organizations registered, in their order.
OrgEventsTellOrgs ==
    /\ \A a \in Addresses :
          LET k == LastOf({j \in DOMAIN log :
                             log[j].event \in {"RegisterOrg", "UpdateOrg"} /\ log[j].addr = a})
          IN  GetOrg(a).details = IF k = 0 THEN NoDetails ELSE log[k].details
    /\ GetOrgCount = Cardinality(Registrations(log, Len(log)))
    /\ \A k \in Registrations(log, Len(log)) :
          orgs[Cardinality(Registrations(log, k))] = Org(log[k].addr, log[k].details)

\* Whoever replays the registry's events knows every manager and every
\* implementer of a named interface, though a manager that is the address
\* itself is stored as zero and an update of the cache is not announced.
RegistryEventsTellRegistry ==
    \A a \in Addresses :
        /\ LET k == LastOf({j \in DOMAIN log :
                              log[j].event = "ManagerChanged" /\ log[j].addr = a})
           IN  GetManager(a) = IF k = 0 \/ log[k].newManager = Zero
                               THEN a ELSE log[k].newManager
        /\ \A sender \in Callers, hash \in Labels :
              LET subject == Subject(sender, a)
                  k == LastOf({j \in DOMAIN log :
                                 /\ log[j].event = "InterfaceImplementerSet"
                                 /\ log[j].addr = subject /\ log[j].hash = hash})
              IN  GetInterfaceImplementer(sender, a, hash)
                    = IF k = 0 THEN Zero ELSE log[k].implementer

Directory == INSTANCE OrgDirectory WITH
    Nobody <- Zero,
    directoryOwner <- IF deployed THEN owner ELSE Unborn,
    entry <- [a \in Addresses |-> orgMap[a].details],
    controller <- [a \in Addresses |-> GetManager(a)],
    implementer <- [a \in Addresses |-> [l \in Labels |-> interfaces[a][l]]],
    caller <- msgSender

\* The contracts implement the directory: entries are added by the owner and
\* changed by the organization, and each address is managed by its manager.
ImplementsDirectory == Directory!DirectorySpec
=============================================================================
