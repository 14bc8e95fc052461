---------------------------- MODULE OrgDirectory ----------------------------
(***************************************************************************)
(* What the registry contracts promise, without their storage: a directory *)
(* with one entry per organization that only its owner adds to and only    *)
(* the organization itself changes afterwards, and for every address one   *)
(* controller, at first the address itself, that alone says who controls   *)
(* and who implements what for it.                                         *)
(***************************************************************************)
CONSTANTS
    Addresses,
    Nobody,         \* the address that never calls
    Unborn,         \* stands for the owner of a directory not created yet
    Labels, Details, NoDetails

VARIABLES
    directoryOwner,
    entry,          \* the details of every address, NoDetails if it has no entry
    controller,
    implementer,    \* [address -> [interface -> who implements it]]
    caller          \* who made the last change

directory == <<directoryOwner, entry, controller, implementer, caller>>

DirectoryInit ==
    /\ directoryOwner = Unborn
    /\ entry = [a \in Addresses |-> NoDetails]
    /\ controller = [a \in Addresses |-> a]
    /\ implementer = [a \in Addresses |-> [l \in Labels |-> Nobody]]
    /\ caller = Nobody

\* The directory is created once, and registers as its own implementer.
Create(self, label) ==
    /\ directoryOwner = Unborn
    /\ caller' = self /\ controller[self] = self
    /\ directoryOwner' \in Addresses
    /\ implementer' = [implementer EXCEPT ![self][label] = self]
    /\ UNCHANGED <<entry, controller>>

\* Ownership given to nobody is given up for good.
ChangeOwner ==
    /\ caller' = directoryOwner
    /\ directoryOwner' \in Addresses
    /\ UNCHANGED <<entry, controller, implementer>>

PutEntry(a) ==
    /\ caller' = directoryOwner \/ (caller' = a /\ entry[a] # NoDetails)
    /\ \E details \in Details : entry' = [entry EXCEPT ![a] = details]
    /\ UNCHANGED <<directoryOwner, controller, implementer>>

HandOver(a) ==
    /\ caller' = controller[a]
    /\ \E b \in Addresses : controller' = [controller EXCEPT ![a] = b]
    /\ UNCHANGED <<directoryOwner, entry, implementer>>

SetImplementer(a, label) ==
    /\ caller' = controller[a]
    /\ \E b \in Addresses : implementer' = [implementer EXCEPT ![a][label] = b]
    /\ UNCHANGED <<directoryOwner, entry, controller>>

\* A call that changes nothing the directory tells.
Call == UNCHANGED <<directoryOwner, entry, controller, implementer>>

DirectoryNext ==
    /\ caller' \in Addresses \ {Nobody}
    /\ \/ ChangeOwner
       \/ Call
       \/ \E a \in Addresses :
             \/ PutEntry(a)
             \/ HandOver(a)
             \/ \E label \in Labels : SetImplementer(a, label) \/ Create(a, label)

DirectorySpec == DirectoryInit /\ [][DirectoryNext]_directory
=============================================================================
