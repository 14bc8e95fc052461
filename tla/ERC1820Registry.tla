-------------------------- MODULE ERC1820Registry --------------------------
(***************************************************************************)
(* core/contracts/contracts/registry/lib/ERC1820Registry.sol: the public   *)
(* registry of who implements which interface for whom.  Every operator    *)
(* is one external function, called by msg.sender; a call that the code    *)
(* reverts is a step that cannot be taken.  The only contract with code    *)
(* beside the registry is the OrgRegistry at OrgContract.                  *)
(***************************************************************************)
EXTENDS Naturals, Sequences

CONSTANTS
    Accounts,       \* externally owned accounts
    OrgContract,    \* the address OrgRegistry is or will be deployed to
    Zero,           \* address(0)
    Labels,         \* hashes of interface names
    IOrgRegistry,   \* the one OrgRegistry registers itself for
    Erc165Ids,      \* interface hashes that end with 28 zeroes
    OrgInterfaceId  \* the ERC165 id OrgRegistry supports

ASSUME AddressesAssumption ==
    /\ Zero \notin Accounts
    /\ OrgContract \notin Accounts \cup {Zero}
ASSUME HashesAssumption ==
    /\ Labels \cap Erc165Ids = {}
    /\ IOrgRegistry \in Labels
    /\ OrgInterfaceId \in Erc165Ids

Callers == Accounts \cup {OrgContract}      \* who can be msg.sender
Addresses == Callers \cup {Zero}
Hashes == Labels \cup Erc165Ids

VARIABLES
    deployed,       \* whether the constructor of OrgRegistry has run
    interfaces,
    managers,
    erc165Cached,
    log,            \* the events emitted, by both contracts
    msgSender       \* whose call changed the storage last

erc1820 == <<interfaces, managers, erc165Cached>>

Erc1820Init ==
    /\ interfaces = [a \in Addresses |-> [h \in Hashes |-> Zero]]
    /\ managers = [a \in Addresses |-> Zero]
    /\ erc165Cached = [a \in Addresses |-> [i \in Erc165Ids |-> FALSE]]

GetManager(addr) == IF managers[addr] = Zero THEN addr ELSE managers[addr]

\* The zero address stands for the caller.
Subject(sender, addr) == IF addr = Zero THEN sender ELSE addr

IsERC165Interface(hash) == hash \in Erc165Ids

\* canImplementInterfaceForAddress: a call to an address without code reverts,
\* and OrgRegistry accepts whatever it is asked.
Accepts(implementer) == deployed /\ implementer = OrgContract

\* An address without code answers a staticcall with success, and the output
\* area still holds the input: not 0 for the invalid id, hence no ERC165.
ImplementsERC165InterfaceNoCache(addr, id) ==
    deployed /\ addr = OrgContract /\ id = OrgInterfaceId

ImplementsERC165Interface(addr, id) ==
    IF erc165Cached[addr][id]
    THEN interfaces[addr][id] = addr
    ELSE ImplementsERC165InterfaceNoCache(addr, id)

GetInterfaceImplementer(sender, addr, hash) ==
    LET subject == Subject(sender, addr) IN
    IF ~IsERC165Interface(hash) THEN interfaces[subject][hash]
    ELSE IF ImplementsERC165Interface(subject, hash) THEN subject ELSE Zero

\* Mutant: an ERC165 hash is accepted.
SetInterfaceImplementerAnyHash(sender, addr, hash, implementer) ==
    LET subject == Subject(sender, addr) IN
    /\ GetManager(subject) = sender
    /\ implementer \in {Zero, sender} \/ Accepts(implementer)
    /\ interfaces' = [interfaces EXCEPT ![subject][hash] = implementer]
    /\ log' = Append(log, [event |-> "InterfaceImplementerSet", addr |-> subject,
                           hash |-> hash, implementer |-> implementer])
    /\ msgSender' = sender
    /\ UNCHANGED <<managers, erc165Cached>>

SetInterfaceImplementer(sender, addr, hash, implementer) ==
    LET subject == Subject(sender, addr) IN
    /\ GetManager(subject) = sender
    /\ ~IsERC165Interface(hash)
    /\ implementer \in {Zero, sender} \/ Accepts(implementer)
    /\ interfaces' = [interfaces EXCEPT ![subject][hash] = implementer]
    /\ log' = Append(log, [event |-> "InterfaceImplementerSet", addr |-> subject,
                           hash |-> hash, implementer |-> implementer])
    /\ msgSender' = sender
    /\ UNCHANGED <<managers, erc165Cached>>

\* Mutant: managers are not reset.
SetManagerNoReset(sender, addr, newManager) ==
    /\ GetManager(addr) = sender
    /\ managers' = [managers EXCEPT ![addr] = IF newManager \in {addr, Zero} THEN @ ELSE newManager]
    /\ log' = Append(log, [event |-> "ManagerChanged", addr |-> addr, newManager |-> newManager])
    /\ msgSender' = sender
    /\ UNCHANGED <<interfaces, erc165Cached>>

\* Mutant: the manager is not asked.
SetManagerUnchecked(sender, addr, newManager) ==
    /\ managers' = [managers EXCEPT ![addr] = IF newManager = addr THEN Zero ELSE newManager]
    /\ log' = Append(log, [event |-> "ManagerChanged", addr |-> addr, newManager |-> newManager])
    /\ msgSender' = sender
    /\ UNCHANGED <<interfaces, erc165Cached>>

SetManager(sender, addr, newManager) ==
    /\ GetManager(addr) = sender
    /\ managers' = [managers EXCEPT ![addr] = IF newManager = addr THEN Zero ELSE newManager]
    /\ log' = Append(log, [event |-> "ManagerChanged", addr |-> addr, newManager |-> newManager])
    /\ msgSender' = sender
    /\ UNCHANGED <<interfaces, erc165Cached>>

\* A function of anyone, without an event.
UpdateERC165Cache(sender, addr, id) ==
    /\ interfaces' = [interfaces EXCEPT ![addr][id] =
                         IF ImplementsERC165InterfaceNoCache(addr, id) THEN addr ELSE Zero]
    /\ erc165Cached' = [erc165Cached EXCEPT ![addr][id] = TRUE]
    /\ msgSender' = sender
    /\ UNCHANGED <<managers, log>>
=============================================================================
