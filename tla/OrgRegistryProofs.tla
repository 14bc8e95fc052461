------------------------- MODULE OrgRegistryProofs -------------------------
(***************************************************************************)
(* Proofs about OrgRegistry for every set of accounts, details and         *)
(* interfaces and every number of transactions: types, the two invariants  *)
(* on entries and on the cache, that the contracts implement the           *)
(* directory of OrgDirectory, and that the events of their logs tell what  *)
(* they store.                                                             *)
(***************************************************************************)
EXTENDS OrgRegistry, WellFoundedInduction, FiniteSetTheorems, TLAPS

\* One transaction, whatever its bound.
Step(sender) ==
    \/ Construct(sender)
    \/ CallErc1820(sender)
    \/ \E a \in Addresses : AssignManager(sender, a) \/ TransferOwnership(sender, a)
    \/ \E a \in Addresses, details \in Details :
          RegisterOrg(sender, a, details) \/ UpdateOrg(sender, a, details)
    \/ \E group \in Groups : RegisterInterfaces(sender, group)

\* A change of the ERC1820 registry, by an account or by the contract.
RegistryStep(sender) ==
    \E addr \in Addresses :
        \/ \E hash \in Hashes, implementer \in Addresses :
              SetInterfaceImplementer(sender, addr, hash, implementer)
        \/ \E newManager \in Addresses : SetManager(sender, addr, newManager)
        \/ \E id \in Erc165Ids : UpdateERC165Cache(sender, addr, id)

\* An entry is either the initial one or one that registerOrg made for its key.
EntriesAreRegistered ==
    \A a \in Addresses :
        orgMap[a] = Org(Zero, NoDetails) \/ \E d \in Details : orgMap[a] = Org(a, d)

IInv == TypeOK /\ EntriesAreRegistered /\ CachedYesIsTrue

\* Types of the registry's three mappings are kept by each of its functions.
LEMMA RegistryStepType ==
    ASSUME TypeOK, NEW sender \in Callers, RegistryStep(sender)
    PROVE  /\ interfaces' \in [Addresses -> [Hashes -> Addresses]]
           /\ managers' \in [Addresses -> Addresses]
           /\ erc165Cached' \in [Addresses -> [Erc165Ids -> BOOLEAN]]
           /\ msgSender' \in Addresses
<1>1. CASE \E addr \in Addresses, hash \in Hashes, implementer \in Addresses :
              SetInterfaceImplementer(sender, addr, hash, implementer)
    BY <1>1 DEF TypeOK, SetInterfaceImplementer, Subject, Addresses, Callers
<1>2. CASE \E addr \in Addresses, newManager \in Addresses :
              SetManager(sender, addr, newManager)
    BY <1>2 DEF TypeOK, SetManager, Addresses, Callers
<1>3. CASE \E addr \in Addresses, id \in Erc165Ids : UpdateERC165Cache(sender, addr, id)
  <2>1. PICK addr \in Addresses, id \in Erc165Ids : UpdateERC165Cache(sender, addr, id)
      BY <1>3
  <2>2. interfaces' \in [Addresses -> [Hashes -> Addresses]]
      BY <2>1 DEF TypeOK, UpdateERC165Cache, Addresses, Callers, Hashes
  <2>3. erc165Cached' \in [Addresses -> [Erc165Ids -> BOOLEAN]]
      BY <2>1 DEF TypeOK, UpdateERC165Cache
  <2> QED BY <2>1, <2>2, <2>3 DEF TypeOK, UpdateERC165Cache, Addresses, Callers
<1> QED BY <1>1, <1>2, <1>3 DEF RegistryStep

\* No function of the registry can write a cached yes that is not true.
LEMMA RegistryStepCache ==
    ASSUME TypeOK, CachedYesIsTrue, NEW sender \in Callers, RegistryStep(sender),
           deployed => deployed'
    PROVE  CachedYesIsTrue'
<1> SUFFICES ASSUME NEW a \in Callers, NEW i \in Erc165Ids,
                    erc165Cached'[a][i], interfaces'[a][i] = a
             PROVE  deployed' /\ a = OrgContract /\ i = OrgInterfaceId
    BY DEF CachedYesIsTrue, ImplementsERC165Interface, ImplementsERC165InterfaceNoCache
<1>0. a \in Addresses /\ i \in Hashes /\ a # Zero
    BY AddressesAssumption DEF Addresses, Callers, Hashes
<1>1. erc165Cached[a][i] /\ interfaces[a][i] = a
        => deployed /\ a = OrgContract /\ i = OrgInterfaceId
    BY DEF CachedYesIsTrue, ImplementsERC165Interface, ImplementsERC165InterfaceNoCache
<1>2. CASE \E addr \in Addresses, hash \in Hashes, implementer \in Addresses :
              SetInterfaceImplementer(sender, addr, hash, implementer)
  <2>1. PICK addr \in Addresses, hash \in Hashes, implementer \in Addresses :
              SetInterfaceImplementer(sender, addr, hash, implementer)
      BY <1>2
  <2>2. hash # i
      BY <2>1 DEF SetInterfaceImplementer, IsERC165Interface
  <2>3. interfaces'[a][i] = interfaces[a][i]
      BY <2>1, <2>2, <1>0 DEF SetInterfaceImplementer, TypeOK
  <2> QED BY <2>1, <2>3, <1>1 DEF SetInterfaceImplementer
<1>3. CASE \E addr \in Addresses, newManager \in Addresses :
              SetManager(sender, addr, newManager)
    BY <1>3, <1>1 DEF SetManager
<1>4. CASE \E addr \in Addresses, id \in Erc165Ids : UpdateERC165Cache(sender, addr, id)
  <2>1. PICK addr \in Addresses, id \in Erc165Ids : UpdateERC165Cache(sender, addr, id)
      BY <1>4
  <2>2. CASE addr = a /\ id = i
    <3>1. interfaces'[a][i] = IF ImplementsERC165InterfaceNoCache(a, i) THEN a ELSE Zero
        BY <2>1, <2>2, <1>0 DEF UpdateERC165Cache, TypeOK
    <3> QED BY <3>1, <1>0 DEF ImplementsERC165InterfaceNoCache
  <2>3. CASE ~(addr = a /\ id = i)
    <3>1. interfaces'[a][i] = interfaces[a][i] /\ erc165Cached'[a][i] = erc165Cached[a][i]
        BY <2>1, <2>3, <1>0 DEF UpdateERC165Cache, TypeOK
    <3> QED BY <3>1, <1>1
  <2> QED BY <2>2, <2>3
<1> QED BY <1>2, <1>3, <1>4 DEF RegistryStep

LEMMA NextIsStep ==
    ASSUME Next
    PROVE  /\ \E sender \in Accounts : Step(sender)
           /\ calls < MaxCalls /\ calls' = calls + 1
  BY DEF Next, Step

LEMMA InitIInv == Init => IInv
<1> SUFFICES ASSUME Init PROVE IInv
    OBVIOUS
<1>1. TypeOK
  <2>1. orgInterfaceCount \in Nat /\ orgInterfaceMap \in [0..(orgInterfaceCount - 1) -> Groups]
      BY DEF Init
  <2>2. calls \in 0..MaxCalls
      BY BoundAssumption DEF Init
  <2>3. /\ interfaces \in [Addresses -> [Hashes -> Addresses]]
        /\ managers \in [Addresses -> Addresses]
        /\ erc165Cached \in [Addresses -> [Erc165Ids -> BOOLEAN]]
      BY DEF Init, Erc1820Init, Addresses
  <2>4. orgMap \in [Addresses -> [orgAddress : Addresses, details : Details \cup {NoDetails}]]
      BY DEF Init, Org, Addresses
  <2> QED BY <2>1, <2>2, <2>3, <2>4 DEF Init, TypeOK, Addresses
<1>2. EntriesAreRegistered
    BY DEF Init, EntriesAreRegistered
<1>3. CachedYesIsTrue
    BY DEF Init, Erc1820Init, CachedYesIsTrue, Callers, Addresses
<1> QED BY <1>1, <1>2, <1>3 DEF IInv

\* What a transaction does to the part of the state the registry does not keep.
OrgTypes ==
    /\ deployed \in BOOLEAN
    /\ owner \in Addresses
    /\ orgMap \in [Addresses -> [orgAddress : Addresses, details : Details \cup {NoDetails}]]
    /\ orgInterfaceCount \in Nat
    /\ orgInterfaceMap \in [0..(orgInterfaceCount - 1) -> Groups]

LEMMA StepIInv ==
    ASSUME IInv, NEW sender \in Accounts, Step(sender)
    PROVE  /\ OrgTypes'
           /\ EntriesAreRegistered'
           /\ deployed => deployed'
           /\ msgSender' \in Callers
           /\ \/ \E caller \in Callers : RegistryStep(caller)
              \/ UNCHANGED erc1820
<1> USE DEF OrgTypes, EntriesAreRegistered, IInv, TypeOK
<1>0. sender \in Callers /\ sender \in Addresses /\ OrgContract \in Callers
      /\ OrgContract \in Addresses
    BY DEF Callers, Addresses
<1>1. CASE Construct(sender)
  <2>1. RegistryStep(OrgContract)
      BY <1>1, <1>0, HashesAssumption DEF Construct, RegistryStep, Hashes
  <2> QED BY <1>1, <1>0, <2>1 DEF Construct, SetInterfaceImplementer
<1>2. CASE CallErc1820(sender)
  <2>1. RegistryStep(sender)
      BY <1>2 DEF CallErc1820, RegistryStep
  <2>2. msgSender' = sender
      BY <2>1 DEF RegistryStep, SetInterfaceImplementer, SetManager, UpdateERC165Cache
  <2> QED BY <1>2, <1>0, <2>1, <2>2 DEF CallErc1820, storage
<1>3. CASE \E a \in Addresses : AssignManager(sender, a)
  <2>1. RegistryStep(OrgContract)
      BY <1>3, <1>0 DEF AssignManager, RegistryStep
  <2> QED BY <1>3, <1>0, <2>1 DEF AssignManager, SetManager, storage
<1>4. CASE \E a \in Addresses : TransferOwnership(sender, a)
    BY <1>4, <1>0 DEF TransferOwnership, OnlyOwner
<1>5. CASE \E a \in Addresses, details \in Details : RegisterOrg(sender, a, details)
  <2>1. PICK a \in Addresses, details \in Details : RegisterOrg(sender, a, details)
      BY <1>5
  <2>2. orgMap' \in [Addresses -> [orgAddress : Addresses, details : Details \cup {NoDetails}]]
      BY <2>1 DEF RegisterOrg, Org
  <2>3. EntriesAreRegistered'
      BY <2>1 DEF RegisterOrg, Org
  <2> QED BY <2>1, <2>2, <2>3, <1>0 DEF RegisterOrg
<1>6. CASE \E a \in Addresses, details \in Details : UpdateOrg(sender, a, details)
  <2>1. PICK a \in Addresses, details \in Details : UpdateOrg(sender, a, details)
      BY <1>6
  <2>2. sender # Zero
      BY AddressesAssumption
  <2>3. \E d \in Details : orgMap[a] = Org(a, d)
      BY <2>1, <2>2 DEF UpdateOrg, Org
  <2>4. orgMap[a].orgAddress = a
      BY <2>3 DEF Org
  <2>5. orgMap' = [orgMap EXCEPT ![a] = [orgMap[a] EXCEPT !.details = details]]
      BY <2>1 DEF UpdateOrg
  <2>6. [orgMap[a] EXCEPT !.details = details] = Org(a, details)
      BY <2>3 DEF Org
  <2>7. orgMap' = [orgMap EXCEPT ![a] = Org(a, details)]
      BY <2>5, <2>6
  <2>8. orgMap' \in [Addresses -> [orgAddress : Addresses, details : Details \cup {NoDetails}]]
      BY <2>1, <2>7 DEF Org
  <2>9. EntriesAreRegistered'
      BY <2>1, <2>7 DEF Org
  <2> QED BY <2>1, <2>8, <2>9, <1>0 DEF UpdateOrg
<1>7. CASE \E group \in Groups : RegisterInterfaces(sender, group)
  <2>1. PICK group \in Groups : RegisterInterfaces(sender, group)
      BY <1>7
  <2>2. orgInterfaceMap' \in [0..(orgInterfaceCount' - 1) -> Groups]
      BY <2>1 DEF RegisterInterfaces
  <2> QED BY <2>1, <2>2, <1>0 DEF RegisterInterfaces
<1> QED BY <1>1, <1>2, <1>3, <1>4, <1>5, <1>6, <1>7 DEF Step

LEMMA NextIInv == IInv /\ [Next]_vars => IInv'
<1> SUFFICES ASSUME IInv, [Next]_vars PROVE IInv'
    OBVIOUS
<1>1. CASE UNCHANGED vars
    BY <1>1 DEF vars, IInv, TypeOK, EntriesAreRegistered, CachedYesIsTrue,
        ImplementsERC165Interface, ImplementsERC165InterfaceNoCache
<1>2. CASE Next
  <2>1. PICK sender \in Accounts : Step(sender)
      BY <1>2, NextIsStep
  <2>2. calls' \in 0..MaxCalls
      BY <1>2, NextIsStep, BoundAssumption DEF IInv, TypeOK
  <2>3. /\ OrgTypes' /\ EntriesAreRegistered' /\ (deployed => deployed')
        /\ msgSender' \in Callers
        /\ (\E caller \in Callers : RegistryStep(caller)) \/ UNCHANGED erc1820
      BY <2>1, StepIInv
  <2>4. msgSender' \in Addresses
      BY <2>3 DEF Addresses
  <2>5. CASE \E caller \in Callers : RegistryStep(caller)
    <3>1. PICK caller \in Callers : RegistryStep(caller)
        BY <2>5
    <3>2. CachedYesIsTrue'
        BY <3>1, <2>3, RegistryStepCache DEF IInv
    <3> QED BY <3>1, <3>2, <2>2, <2>3, RegistryStepType DEF IInv, TypeOK, OrgTypes
  <2>6. CASE UNCHANGED erc1820
    <3>1. CachedYesIsTrue'
        BY <2>6, <2>3 DEF erc1820, IInv, CachedYesIsTrue, ImplementsERC165Interface,
            ImplementsERC165InterfaceNoCache
    <3> QED BY <3>1, <2>2, <2>3, <2>4, <2>6 DEF IInv, TypeOK, OrgTypes, erc1820
  <2> QED BY <2>3, <2>5, <2>6
<1> QED BY <1>1, <1>2

LEMMA InvariantHolds == Spec => []IInv
<1> QED BY InitIInv, NextIInv, PTL DEF Spec

\* Every variable of the two contracts has its type, however many accounts
\* call them.
THEOREM TypeCorrect == Spec => []TypeOK
<1>1. IInv => TypeOK
    BY DEF IInv
<1> QED BY <1>1, InvariantHolds, PTL

\* Only an address that was registered can ever pass updateOrg's check.
THEOREM EntriesKeyed == Spec => []EntriesAreKeyed
<1>1. IInv => EntriesAreKeyed
  <2> SUFFICES ASSUME IInv, NEW a \in Addresses, orgMap[a].orgAddress # a
               PROVE  orgMap[a] = Org(Zero, NoDetails)
      BY DEF EntriesAreKeyed
  <2>1. \A d : Org(a, d).orgAddress = a
      BY DEF Org
  <2> QED BY <2>1 DEF IInv, EntriesAreRegistered
<1> QED BY <1>1, InvariantHolds, PTL

\* No sequence of calls makes the ERC165 cache tell a false yes.
THEOREM CacheNeverLies == Spec => []CachedYesIsTrue
<1>1. IInv => CachedYesIsTrue
    BY DEF IInv
<1> QED BY <1>1, InvariantHolds, PTL

---------------------------------------------------------------------------
(* The refinement: every transaction is a step of the directory.           *)

\* The directory as this state shows it.
Entry == [a \in Addresses |-> orgMap[a].details]
Controller == [a \in Addresses |-> GetManager(a)]
Implementer == [a \in Addresses |-> [l \in Labels |-> interfaces[a][l]]]

\* A call of the ERC1820 registry is one of its controller's steps, or tells
\* the directory nothing.
LEMMA RegistryStepRefines ==
    ASSUME TypeOK, NEW sender \in Callers, RegistryStep(sender),
           UNCHANGED <<deployed, owner, orgMap>>
    PROVE  Directory!DirectoryNext
<1> DEFINE dirOwner == IF deployed THEN owner ELSE Unborn
<1>a. UNCHANGED <<dirOwner, Entry>>
    BY DEF Entry
<1>b. sender \in Addresses /\ sender # Zero
    BY AddressesAssumption DEF Addresses, Callers
<1>0. UNCHANGED <<dirOwner, Entry>> /\ sender \in Addresses \ {Zero}
    BY <1>a, <1>b
<1>1. CASE \E addr \in Addresses, hash \in Hashes, impl \in Addresses :
              SetInterfaceImplementer(sender, addr, hash, impl)
  <2>1. PICK addr \in Addresses, hash \in Hashes, impl \in Addresses :
              SetInterfaceImplementer(sender, addr, hash, impl)
      BY <1>1
  <2> DEFINE a == Subject(sender, addr)
  <2>2. a \in Addresses /\ hash \in Labels /\ msgSender' = Controller[a]
      BY <2>1, <1>0 DEF SetInterfaceImplementer, Subject, IsERC165Interface, Hashes, Controller
  <2>3. Controller' = Controller
      BY <2>1 DEF SetInterfaceImplementer, Controller, GetManager
  <2>4. Implementer' = [Implementer EXCEPT ![a][hash] = impl]
      BY <2>1, <2>2 DEF SetInterfaceImplementer, Implementer, TypeOK, Hashes
  <2>5. Directory!SetImplementer(a, hash)
      BY <2>1, <2>2, <2>3, <2>4, <1>0
      DEF Directory!SetImplementer, Entry, Controller, Implementer
  <2> QED BY <2>1, <2>2, <2>5, <1>0 DEF Directory!DirectoryNext, SetInterfaceImplementer
<1>2. CASE \E addr \in Addresses, newManager \in Addresses :
              SetManager(sender, addr, newManager)
  <2>1. PICK addr \in Addresses, newManager \in Addresses :
              SetManager(sender, addr, newManager)
      BY <1>2
  <2> DEFINE b == IF newManager = Zero THEN addr ELSE newManager
  <2>2. Controller' = [Controller EXCEPT ![addr] = b]
      BY <2>1 DEF SetManager, Controller, GetManager, TypeOK
  <2>3. Implementer' = Implementer
      BY <2>1 DEF SetManager, Implementer
  <2>4. msgSender' = Controller[addr] /\ b \in Addresses
      BY <2>1 DEF SetManager, Controller
  <2>5. Directory!HandOver(addr)
      BY <2>2, <2>3, <2>4, <1>0 DEF Directory!HandOver, Entry, Controller, Implementer
  <2> QED BY <2>1, <2>5, <1>0 DEF Directory!DirectoryNext, SetManager
<1>3. CASE \E addr \in Addresses, id \in Erc165Ids : UpdateERC165Cache(sender, addr, id)
  <2>1. PICK addr \in Addresses, id \in Erc165Ids : UpdateERC165Cache(sender, addr, id)
      BY <1>3
  <2>2. Controller' = Controller
      BY <2>1 DEF UpdateERC165Cache, Controller, GetManager
  <2>3. \A x \in Addresses, l \in Labels : interfaces'[x][l] = interfaces[x][l]
      BY <2>1, HashesAssumption DEF UpdateERC165Cache, TypeOK, Hashes
  <2>4. Implementer' = Implementer
      BY <2>3 DEF Implementer
  <2>5. Directory!Call
      BY <2>2, <2>4, <1>0 DEF Directory!Call, Entry, Controller, Implementer
  <2> QED BY <2>1, <2>5, <1>0 DEF Directory!DirectoryNext, UpdateERC165Cache
<1> QED BY <1>1, <1>2, <1>3 DEF RegistryStep

LEMMA StepRefines ==
    ASSUME IInv, NEW sender \in Accounts, Step(sender)
    PROVE  Directory!DirectoryNext
<1> DEFINE dirOwner == IF deployed THEN owner ELSE Unborn
<1>0. /\ sender \in Addresses \ {Zero} /\ sender \in Callers
      /\ OrgContract \in Addresses \ {Zero} /\ OrgContract \in Callers
    BY AddressesAssumption DEF Addresses, Callers
<1>t. TypeOK
    BY DEF IInv
<1>1. CASE Construct(sender)
  <2>1. dirOwner = Unborn /\ dirOwner' \in Addresses /\ msgSender' = OrgContract
      BY <1>1, <1>0 DEF Construct, SetInterfaceImplementer
  <2>2. Controller[OrgContract] = OrgContract
      BY <1>1, <1>0 DEF Construct, SetInterfaceImplementer, Controller, Subject
  <2>3. Controller' = Controller /\ Entry' = Entry
      BY <1>1 DEF Construct, SetInterfaceImplementer, Controller, GetManager, Entry
  <2>4. OrgContract # Zero /\ IOrgRegistry \in Labels /\ IOrgRegistry \in Hashes
      BY AddressesAssumption, HashesAssumption DEF Hashes
  <2>5. interfaces' = [interfaces EXCEPT ![OrgContract][IOrgRegistry] = OrgContract]
      BY <1>1, <2>4 DEF Construct, SetInterfaceImplementer, Subject
  <2>6. Implementer' = [Implementer EXCEPT ![OrgContract][IOrgRegistry] = OrgContract]
      BY <2>4, <2>5, <1>0, <1>t DEF Implementer, TypeOK, Hashes
  <2>7. Directory!Create(OrgContract, IOrgRegistry)
      BY <2>1, <2>2, <2>3, <2>6 DEF Directory!Create, Entry, Controller, Implementer
  <2> QED BY <2>1, <2>4, <2>7, <1>0 DEF Directory!DirectoryNext
<1>2. CASE CallErc1820(sender)
  <2>1. RegistryStep(sender) /\ UNCHANGED <<deployed, owner, orgMap>>
      BY <1>2 DEF CallErc1820, RegistryStep, storage
  <2> QED BY <2>1, <1>0, <1>t, RegistryStepRefines
<1>3. CASE \E a \in Addresses : AssignManager(sender, a)
  <2>1. RegistryStep(OrgContract) /\ UNCHANGED <<deployed, owner, orgMap>>
      BY <1>3, <1>0 DEF AssignManager, RegistryStep, storage
  <2> QED BY <2>1, <1>0, <1>t, RegistryStepRefines
<1>4. CASE \E a \in Addresses : TransferOwnership(sender, a)
  <2>1. msgSender' = sender /\ sender = dirOwner /\ dirOwner' \in Addresses
      BY <1>4, <1>0 DEF TransferOwnership, OnlyOwner
  <2>2. Controller' = Controller /\ Entry' = Entry /\ Implementer' = Implementer
      BY <1>4 DEF TransferOwnership, erc1820, Controller, GetManager, Entry, Implementer
  <2>3. Directory!ChangeOwner
      BY <2>1, <2>2 DEF Directory!ChangeOwner, Entry, Controller, Implementer
  <2> QED BY <2>1, <2>3, <1>0 DEF Directory!DirectoryNext
<1>5. CASE \E a \in Addresses, details \in Details : RegisterOrg(sender, a, details)
  <2>1. PICK a \in Addresses, details \in Details : RegisterOrg(sender, a, details)
      BY <1>5
  <2>2. msgSender' = sender /\ sender = dirOwner /\ dirOwner' = dirOwner
      BY <2>1 DEF RegisterOrg, OnlyOwner
  <2>3. Controller' = Controller /\ Implementer' = Implementer
      BY <2>1 DEF RegisterOrg, erc1820, Controller, GetManager, Implementer
  <2>4. Entry' = [Entry EXCEPT ![a] = details]
      BY <2>1, <1>t DEF RegisterOrg, Entry, Org, TypeOK
  <2>5. Directory!PutEntry(a)
      BY <2>1, <2>2, <2>3, <2>4 DEF Directory!PutEntry, Entry, Controller, Implementer
  <2> QED BY <2>2, <2>5, <1>0 DEF Directory!DirectoryNext
<1>6. CASE \E a \in Addresses, details \in Details : UpdateOrg(sender, a, details)
  <2>1. PICK a \in Addresses, details \in Details : UpdateOrg(sender, a, details)
      BY <1>6
  <2>2. PICK d \in Details : orgMap[a] = Org(a, d)
      BY <2>1, <1>0 DEF UpdateOrg, Org, IInv, EntriesAreRegistered
  <2>3. msgSender' = a /\ a = sender /\ dirOwner' = dirOwner
      BY <2>1, <2>2 DEF UpdateOrg, Org
  <2>4. Entry[a] # NoDetails
      BY <2>2, DetailsAssumption DEF Entry, Org
  <2>5. Controller' = Controller /\ Implementer' = Implementer
      BY <2>1 DEF UpdateOrg, erc1820, Controller, GetManager, Implementer
  <2>6. Entry' = [Entry EXCEPT ![a] = details]
      BY <2>1, <1>t DEF UpdateOrg, Entry, TypeOK
  <2>7. Directory!PutEntry(a)
      BY <2>1, <2>3, <2>4, <2>5, <2>6 DEF Directory!PutEntry, Entry, Controller, Implementer
  <2> QED BY <2>3, <2>7, <1>0 DEF Directory!DirectoryNext
<1>7. CASE \E group \in Groups : RegisterInterfaces(sender, group)
  <2>1. UNCHANGED <<deployed, owner, orgMap, erc1820>> /\ msgSender' = sender
      BY <1>7 DEF RegisterInterfaces
  <2>2. Directory!Call
      BY <2>1 DEF Directory!Call, erc1820, GetManager
  <2> QED BY <2>1, <2>2, <1>0 DEF Directory!DirectoryNext
<1> QED BY <1>1, <1>2, <1>3, <1>4, <1>5, <1>6, <1>7 DEF Step

LEMMA InitRefines == Init => Directory!DirectoryInit
  BY DEF Init, Erc1820Init, Directory!DirectoryInit, GetManager, Org, Hashes

LEMMA NextRefines == IInv /\ [Next]_vars => [Directory!DirectoryNext]_(Directory!directory)
<1> SUFFICES ASSUME IInv, [Next]_vars
             PROVE  [Directory!DirectoryNext]_(Directory!directory)
    OBVIOUS
<1>1. CASE Next
    BY <1>1, NextIsStep, StepRefines
<1>2. CASE UNCHANGED vars
    BY <1>2 DEF vars, Directory!directory, GetManager
<1> QED BY <1>1, <1>2

\* The registry contracts implement the directory: nobody but the owner adds
\* entries, nobody but the organization changes its own, and an address is
\* managed by its manager alone, whatever the zero addresses in storage stand for.
THEOREM ContractsImplementDirectory == Spec => ImplementsDirectory
<1> QED BY InitRefines, InvariantHolds, NextRefines, PTL
        DEF Spec, ImplementsDirectory, Directory!DirectorySpec

---------------------------------------------------------------------------
(* The events: whoever replays the log knows what the contracts answer.    *)

Entries == [orgAddress : Addresses, details : Details]

OrgEvents == [event : {"RegisterOrg", "UpdateOrg"}, addr : Addresses, details : Details]
ManagerEvents == [event : {"ManagerChanged"}, addr : Addresses, newManager : Addresses]
ImplementerEvents == [event : {"InterfaceImplementerSet"}, addr : Addresses, hash : Hashes,
                      implementer : Addresses]
Events == OrgEvents \cup ManagerEvents \cup ImplementerEvents

\* The events that tell of an entry, of a manager and of an implementer.
Organization(a)   == {e \in OrgEvents : e.addr = a}
Manager(a)        == {e \in ManagerEvents : e.addr = a}
Implements(a, h)  == {e \in ImplementerEvents : e.addr = a /\ e.hash = h}

\* The place of the last event of a kind in a log.
LastIn(events, kind) == LastOf({j \in DOMAIN events : events[j] \in kind})

\* A set of places in a log has a last one.
LEMMA LastOfPlaces ==
    ASSUME NEW n \in Nat, NEW T \in SUBSET (1..n), T # {}
    PROVE  LastOf(T) \in T /\ \A j \in T : j <= LastOf(T)
<1> DEFINE Back == {n - j : j \in T}
<1>0. \A j \in T : j \in Nat /\ j <= n /\ n - j \in Nat
    OBVIOUS
<1>1. Back \in SUBSET Nat /\ Back # {}
    BY <1>0
<1>2. PICK m \in Back : \A b \in Back : m <= b
  <2> DEFINE Less == {ss \in Nat \X Nat : ss[1] < ss[2]}
  <2>1. IsWellFoundedOn(Less, Nat)
      BY NatLessThanWellFounded DEF OpToRel
  <2> HIDE DEF Less
  <2>2. PICK m \in Back : \A b \in Back : <<b, m>> \notin Less
      BY <1>1, <2>1, WFMin
  <2>3. ASSUME NEW b \in Back PROVE m <= b
    <3>1. b \in Nat /\ m \in Nat /\ <<b, m>> \notin Less
        BY <1>1, <2>2
    <3> QED BY <3>1 DEF Less
  <2> QED BY <2>2, <2>3
<1>3. PICK k \in T : m = n - k
    BY <1>2
<1>4. ASSUME NEW j \in T PROVE j <= k
  <2>1. m <= n - j
      BY <1>2
  <2> QED BY <1>0, <1>3, <2>1
<1> QED BY <1>4, Zenon DEF LastOf

\* What one more event does to the last event of a kind.
LEMMA OneMoreEvent ==
    ASSUME NEW S, NEW s \in Seq(S), NEW e \in S, NEW kind
    PROVE  /\ LastIn(s, kind) # 0 => LastIn(s, kind) \in DOMAIN s
           /\ LastIn(Append(s, e), kind) = IF e \in kind THEN Len(s) + 1 ELSE LastIn(s, kind)
           /\ Append(s, e)[Len(s) + 1] = e
           /\ \A j \in DOMAIN s : Append(s, e)[j] = s[j]
           /\ Len(s) + 1 # 0
<1> DEFINE n == Len(s)
           t == Append(s, e)
           T == {j \in DOMAIN s : s[j] \in kind}
           U == {j \in DOMAIN t : t[j] \in kind}
<1>1. n \in Nat /\ DOMAIN s = 1..n /\ DOMAIN t = 1..(n + 1) /\ t[n + 1] = e
      /\ \A j \in 1..n : t[j] = s[j]
    OBVIOUS
<1>2. T \in SUBSET (1..n) /\ U \in SUBSET (1..(n + 1))
    BY <1>1
<1>3. LastIn(s, kind) # 0 => LastIn(s, kind) \in DOMAIN s
  <2>1. T # {} => LastOf(T) \in T
      BY <1>1, <1>2, LastOfPlaces
  <2> QED BY <2>1, <1>1 DEF LastIn, LastOf
<1>4. CASE e \in kind
  <2>1. n + 1 \in U /\ n + 1 \in Nat
      BY <1>1, <1>4
  <2>2. LastOf(U) \in U /\ n + 1 <= LastOf(U)
      BY <1>2, <2>1, LastOfPlaces
  <2>3. LastOf(U) = n + 1
    <3> DEFINE k == LastOf(U)
    <3>1. k \in 1..(n + 1) /\ n + 1 <= k
        BY <1>2, <2>2
    <3> HIDE DEF k
    <3>2. k = n + 1
        BY <1>1, <3>1
    <3> QED BY <3>2 DEF k
  <2>4. LastIn(t, kind) = n + 1
      BY <2>3, Zenon DEF LastIn
  <2> QED BY <1>1, <1>3, <1>4, <2>4
<1>5. CASE e \notin kind
  <2>1. n + 1 \notin U
      BY <1>1, <1>5
  <2>2. U = T
      BY <1>1, <2>1
  <2>3. LastIn(t, kind) = LastIn(s, kind)
      BY <2>2, Zenon DEF LastIn
  <2> QED BY <1>1, <1>3, <1>5, <2>3
<1> QED BY <1>4, <1>5

\* What the log tells, in the terms of the storage.
EntriesTold ==
    \A a \in Addresses :
        LET k == LastIn(log, Organization(a)) IN
        orgMap[a].details = IF k = 0 THEN NoDetails ELSE log[k].details
ManagersTold ==
    \A a \in Addresses :
        LET k == LastIn(log, Manager(a)) IN
        GetManager(a) = IF k = 0 \/ log[k].newManager = Zero THEN a ELSE log[k].newManager
ImplementersTold ==
    \A a \in Addresses, h \in Labels :
        LET k == LastIn(log, Implements(a, h)) IN
        interfaces[a][h] = IF k = 0 THEN Zero ELSE log[k].implementer
RegistrationsTold ==
    /\ Len(orgs) = Cardinality(Registrations(log, Len(log)))
    /\ \A k \in Registrations(log, Len(log)) :
          /\ Cardinality(Registrations(log, k)) \in 1..Len(orgs)
          /\ orgs[Cardinality(Registrations(log, k))] = Org(log[k].addr, log[k].details)

EventsInv ==
    /\ log \in Seq(Events) /\ orgs \in Seq(Entries)
    /\ EntriesTold /\ ManagersTold /\ ImplementersTold /\ RegistrationsTold

LEMMA InitEvents == Init => EventsInv
<1> SUFFICES ASSUME Init PROVE EventsInv
    OBVIOUS
<1>1. log = <<>> /\ orgs = <<>> /\ Len(log) = 0 /\ Len(orgs) = 0
    BY DEF Init
<1>2. \A kind : LastIn(log, kind) = 0
  <2>1. DOMAIN log = {}
      BY <1>1
  <2> QED BY <2>1 DEF LastIn, LastOf
<1>3. EntriesTold /\ ManagersTold /\ ImplementersTold
    BY <1>2 DEF Init, Erc1820Init, EntriesTold, ManagersTold, ImplementersTold, GetManager,
        Org, Hashes
<1>4. Registrations(log, Len(log)) = {}
    BY <1>1 DEF Registrations
<1>5. RegistrationsTold
    BY <1>1, <1>4, FS_EmptySet DEF RegistrationsTold
<1> QED BY <1>1, <1>3, <1>5 DEF EventsInv

\* An event of another kind leaves what the log tells of entries, managers,
\* implementers and registrations as it was.
LEMMA EntriesKept ==
    ASSUME log \in Seq(Events), EntriesTold, NEW e \in Events, log' = Append(log, e),
           e \notin OrgEvents, orgMap' = orgMap
    PROVE  EntriesTold'
<1> SUFFICES ASSUME NEW a \in Addresses
             PROVE  LET k == LastIn(log', Organization(a)) IN
                    orgMap[a].details = IF k = 0 THEN NoDetails ELSE log'[k].details
    BY Zenon DEF EntriesTold
<1> DEFINE k == LastIn(log, Organization(a))
<1>1. e \notin Organization(a)
    BY DEF Organization
<1>2. LastIn(log', Organization(a)) = k /\ (k # 0 => log'[k] = log[k])
    BY <1>1, OneMoreEvent
<1> QED BY <1>2 DEF EntriesTold

LEMMA ManagersKept ==
    ASSUME log \in Seq(Events), ManagersTold, NEW e \in Events, log' = Append(log, e),
           e \notin ManagerEvents, managers' = managers
    PROVE  ManagersTold'
<1> SUFFICES ASSUME NEW a \in Addresses
             PROVE  LET k == LastIn(log', Manager(a)) IN
                    GetManager(a) = IF k = 0 \/ log'[k].newManager = Zero
                                    THEN a ELSE log'[k].newManager
  <2>1. \A a \in Addresses : GetManager(a)' = GetManager(a)
      BY DEF GetManager
  <2> QED BY <2>1 DEF ManagersTold
<1> DEFINE k == LastIn(log, Manager(a))
<1>1. e \notin Manager(a)
    BY DEF Manager
<1>2. LastIn(log', Manager(a)) = k /\ (k # 0 => log'[k] = log[k])
    BY <1>1, OneMoreEvent
<1> QED BY <1>2 DEF ManagersTold

LEMMA ImplementersKept ==
    ASSUME log \in Seq(Events), ImplementersTold, NEW e \in Events, log' = Append(log, e),
           e \notin ImplementerEvents, interfaces' = interfaces
    PROVE  ImplementersTold'
<1> SUFFICES ASSUME NEW a \in Addresses, NEW h \in Labels
             PROVE  LET k == LastIn(log', Implements(a, h)) IN
                    interfaces[a][h] = IF k = 0 THEN Zero ELSE log'[k].implementer
    BY Zenon DEF ImplementersTold
<1> DEFINE k == LastIn(log, Implements(a, h))
<1>1. e \notin Implements(a, h)
    BY DEF Implements
<1>2. LastIn(log', Implements(a, h)) = k /\ (k # 0 => log'[k] = log[k])
    BY <1>1, OneMoreEvent
<1> QED BY <1>2 DEF ImplementersTold

\* The registrations among the first k events do not change when one is added.
LEMMA RegistrationsAre ==
    ASSUME log \in Seq(Events), NEW e \in Events, log' = Append(log, e)
    PROVE  /\ Len(log) \in Nat /\ Len(log') = Len(log) + 1 /\ log'[Len(log) + 1] = e
           /\ \A k \in 0..Len(log) : Registrations(log', k) = Registrations(log, k)
           /\ Registrations(log', Len(log) + 1)
                = IF e.event = "RegisterOrg" THEN Registrations(log, Len(log)) \cup {Len(log) + 1}
                                             ELSE Registrations(log, Len(log))
           /\ \A k \in Registrations(log, Len(log)) : k \in 1..Len(log) /\ log'[k] = log[k]
           /\ IsFiniteSet(Registrations(log, Len(log)))
           /\ Len(log) + 1 \notin Registrations(log, Len(log))
<1> DEFINE n == Len(log)
<1>1. n \in Nat /\ Len(log') = n + 1 /\ log'[n + 1] = e /\ \A j \in 1..n : log'[j] = log[j]
    OBVIOUS
<1>2. \A k \in 0..n : \A j \in 1..k : log'[j] = log[j]
    BY <1>1
<1>3. \A k \in 0..n : Registrations(log', k) = Registrations(log, k)
    BY <1>2 DEF Registrations
<1>4. Registrations(log', n + 1) = IF e.event = "RegisterOrg" THEN Registrations(log, n) \cup {n + 1}
                                                        ELSE Registrations(log, n)
  <2>1. 1..(n + 1) = (1..n) \cup {n + 1} /\ n + 1 \notin 1..n
      BY <1>1
  <2> QED BY <1>1, <2>1 DEF Registrations
<1>5. \A k \in Registrations(log, n) : k \in 1..n /\ log'[k] = log[k]
    BY <1>1 DEF Registrations
<1>6. IsFiniteSet(Registrations(log, n))
  <2>1. IsFiniteSet(1..n) /\ Registrations(log, n) \subseteq 1..n
      BY <1>1, FS_Interval DEF Registrations
  <2> QED BY <2>1, FS_Subset
<1>7. n + 1 \notin Registrations(log, n)
    BY <1>1 DEF Registrations
<1> QED BY <1>1, <1>3, <1>4, <1>5, <1>6, <1>7

LEMMA RegistrationsKept ==
    ASSUME log \in Seq(Events), RegistrationsTold, NEW e \in Events, log' = Append(log, e),
           e.event # "RegisterOrg", orgs' = orgs
    PROVE  RegistrationsTold'
<1> DEFINE n == Len(log)
<1>1. n \in Nat /\ Len(log') = n + 1 /\ Registrations(log', n + 1) = Registrations(log, n)
    BY RegistrationsAre
<1>2. ASSUME NEW k \in Registrations(log, n)
      PROVE  k \in 0..n /\ Registrations(log', k) = Registrations(log, k) /\ log'[k] = log[k]
  <2>1. k \in 1..n /\ log'[k] = log[k]
      BY RegistrationsAre
  <2> QED BY <1>1, <2>1, RegistrationsAre
<1>3. Registrations(log', Len(log')) = Registrations(log, n)
    BY <1>1
<1> HIDE DEF n
<1>4. Len(orgs) = Cardinality(Registrations(log, n))
      /\ \A k \in Registrations(log, n) :
            /\ Cardinality(Registrations(log, k)) \in 1..Len(orgs)
            /\ orgs[Cardinality(Registrations(log, k))] = Org(log[k].addr, log[k].details)
    BY DEF RegistrationsTold, n
<1> QED BY <1>2, <1>3, <1>4 DEF RegistrationsTold

\* The event of each change tells what was changed.
LEMMA EntryTold ==
    ASSUME log \in Seq(Events), EntriesTold, NEW e \in OrgEvents, log' = Append(log, e),
           orgMap'[e.addr].details = e.details,
           \A a \in Addresses : a # e.addr => orgMap'[a].details = orgMap[a].details
    PROVE  EntriesTold'
<1> SUFFICES ASSUME NEW a \in Addresses
             PROVE  LET k == LastIn(log', Organization(a)) IN
                    orgMap'[a].details = IF k = 0 THEN NoDetails ELSE log'[k].details
    BY Zenon DEF EntriesTold
<1> DEFINE k == LastIn(log, Organization(a))
<1>1. e \in Events /\ (e \in Organization(a) <=> e.addr = a)
    BY DEF Organization, Events
<1>2. CASE e.addr = a
  <2>1. LastIn(log', Organization(a)) = Len(log) + 1 /\ log'[Len(log) + 1] = e
        /\ Len(log) + 1 # 0
      BY <1>1, <1>2, OneMoreEvent
  <2> QED BY <1>2, <2>1
<1>3. CASE e.addr # a
  <2>1. LastIn(log', Organization(a)) = k /\ (k # 0 => log'[k] = log[k])
      BY <1>1, <1>3, OneMoreEvent
  <2> QED BY <1>3, <2>1 DEF EntriesTold
<1> QED BY <1>2, <1>3

LEMMA ManagerTold ==
    ASSUME log \in Seq(Events), ManagersTold, NEW e \in ManagerEvents, log' = Append(log, e),
           managers \in [Addresses -> Addresses],
           managers' = [managers EXCEPT ![e.addr] = IF e.newManager = e.addr THEN Zero
                                                    ELSE e.newManager]
    PROVE  ManagersTold'
<1> SUFFICES ASSUME NEW a \in Addresses
             PROVE  LET k == LastIn(log', Manager(a)) IN
                    GetManager(a)' = IF k = 0 \/ log'[k].newManager = Zero
                                     THEN a ELSE log'[k].newManager
    BY Zenon DEF ManagersTold
<1> DEFINE k == LastIn(log, Manager(a))
<1>1. e \in Events /\ (e \in Manager(a) <=> e.addr = a)
    BY DEF Manager, Events
<1>2. CASE e.addr = a
  <2>1. LastIn(log', Manager(a)) = Len(log) + 1 /\ log'[Len(log) + 1] = e
        /\ Len(log) + 1 # 0
      BY <1>1, <1>2, OneMoreEvent
  <2>2. managers'[a] = IF e.newManager = a THEN Zero ELSE e.newManager
      BY <1>2
  <2> QED BY <1>2, <2>1, <2>2 DEF GetManager
<1>3. CASE e.addr # a
  <2>1. LastIn(log', Manager(a)) = k /\ (k # 0 => log'[k] = log[k])
      BY <1>1, <1>3, OneMoreEvent
  <2>2. GetManager(a)' = GetManager(a)
      BY <1>3 DEF GetManager
  <2> QED BY <2>1, <2>2 DEF ManagersTold
<1> QED BY <1>2, <1>3

LEMMA ImplementerTold ==
    ASSUME log \in Seq(Events), ImplementersTold, NEW e \in ImplementerEvents,
           log' = Append(log, e),
           interfaces \in [Addresses -> [Hashes -> Addresses]],
           interfaces' = [interfaces EXCEPT ![e.addr][e.hash] = e.implementer]
    PROVE  ImplementersTold'
<1> SUFFICES ASSUME NEW a \in Addresses, NEW h \in Labels
             PROVE  LET k == LastIn(log', Implements(a, h)) IN
                    interfaces'[a][h] = IF k = 0 THEN Zero ELSE log'[k].implementer
    BY Zenon DEF ImplementersTold
<1> DEFINE k == LastIn(log, Implements(a, h))
<1>1. e \in Events /\ (e \in Implements(a, h) <=> e.addr = a /\ e.hash = h) /\ h \in Hashes
    BY DEF Implements, Events, Hashes
<1>2. CASE e.addr = a /\ e.hash = h
  <2>1. LastIn(log', Implements(a, h)) = Len(log) + 1 /\ log'[Len(log) + 1] = e
        /\ Len(log) + 1 # 0
      BY <1>1, <1>2, OneMoreEvent
  <2>2. interfaces'[a][h] = e.implementer
      BY <1>1, <1>2
  <2> QED BY <2>1, <2>2
<1>3. CASE ~(e.addr = a /\ e.hash = h)
  <2>1. LastIn(log', Implements(a, h)) = k /\ (k # 0 => log'[k] = log[k])
      BY <1>1, <1>3, OneMoreEvent
  <2>2. interfaces'[a][h] = interfaces[a][h]
      BY <1>1, <1>3
  <2> QED BY <2>1, <2>2 DEF ImplementersTold
<1> QED BY <1>2, <1>3

LEMMA RegistrationTold ==
    ASSUME log \in Seq(Events), orgs \in Seq(Entries), RegistrationsTold,
           NEW e \in OrgEvents, e.event = "RegisterOrg", log' = Append(log, e),
           orgs' = Append(orgs, Org(e.addr, e.details))
    PROVE  RegistrationsTold'
<1> DEFINE n == Len(log)
           m == Len(orgs)
           R == Registrations(log, n)
<1>0. e \in Events
    BY DEF Events
<1>1. /\ n \in Nat /\ Len(log') = n + 1 /\ log'[n + 1] = e
      /\ Registrations(log', n + 1) = R \cup {n + 1}
      /\ IsFiniteSet(R) /\ n + 1 \notin R
    BY <1>0, RegistrationsAre
<1>2. Cardinality(R \cup {n + 1}) = m + 1 /\ Cardinality(R) = m
    BY <1>1, FS_AddElement DEF RegistrationsTold
<1>3. /\ m \in Nat /\ Len(orgs') = m + 1 /\ orgs'[m + 1] = Org(e.addr, e.details)
      /\ \A j \in 1..m : orgs'[j] = orgs[j]
  <2>1. Org(e.addr, e.details) \in Entries
      BY DEF Org, Entries, OrgEvents
  <2> HIDE DEF Entries
  <2> QED BY <2>1
<1>4. ASSUME NEW k \in R \cup {n + 1}
      PROVE  /\ Cardinality(Registrations(log', k)) \in 1..(m + 1)
             /\ orgs'[Cardinality(Registrations(log', k))] = Org(log'[k].addr, log'[k].details)
  <2>1. CASE k = n + 1
    <3>1. Registrations(log', k) = R \cup {n + 1}
        BY <1>1, <2>1
    <3>2. Cardinality(Registrations(log', k)) = m + 1 /\ log'[k] = e
        BY <1>1, <1>2, <2>1, <3>1
    <3> QED BY <1>3, <3>2
  <2>2. CASE k # n + 1
    <3>1. k \in R /\ k \in 0..n /\ Registrations(log', k) = Registrations(log, k) /\ log'[k] = log[k]
      <4>1. k \in R
          BY <2>2
      <4>2. k \in 1..n /\ log'[k] = log[k]
          BY <1>0, <4>1, RegistrationsAre
      <4> QED BY <1>0, <1>1, <4>1, <4>2, RegistrationsAre
    <3>2. /\ Cardinality(Registrations(log, k)) \in 1..m
          /\ orgs[Cardinality(Registrations(log, k))] = Org(log[k].addr, log[k].details)
        BY <3>1 DEF RegistrationsTold
    <3> QED BY <1>3, <3>1, <3>2
  <2> QED BY <2>1, <2>2
<1> QED BY <1>1, <1>2, <1>3, <1>4 DEF RegistrationsTold

\* A transaction that changes nothing the log tells of emits nothing.
LEMMA NothingTold ==
    ASSUME TypeOK, EventsInv, UNCHANGED <<log, orgs, orgMap, managers>>,
           \A a \in Addresses, h \in Labels : interfaces'[a][h] = interfaces[a][h]
    PROVE  EventsInv'
<1>1. EntriesTold' /\ RegistrationsTold'
    BY DEF EventsInv, EntriesTold, RegistrationsTold
<1>2. ManagersTold'
    BY DEF EventsInv, ManagersTold, GetManager
<1>3. ImplementersTold'
  <2> SUFFICES ASSUME NEW a \in Addresses, NEW h \in Labels
               PROVE  LET k == LastIn(log, Implements(a, h)) IN
                      interfaces'[a][h] = IF k = 0 THEN Zero ELSE log[k].implementer
      BY Zenon DEF ImplementersTold
  <2> QED BY DEF EventsInv, ImplementersTold
<1> QED BY <1>1, <1>2, <1>3 DEF EventsInv

LEMMA Logged ==
    ASSUME log \in Seq(Events), NEW e \in Events, log' = Append(log, e)
    PROVE  log' \in Seq(Events)
<1> HIDE DEF Events
<1> QED OBVIOUS

\* Every function of the registry announces what it changes.
LEMMA RegistryStepTold ==
    ASSUME TypeOK, EventsInv, NEW sender \in Callers, RegistryStep(sender),
           UNCHANGED <<orgs, orgMap>>
    PROVE  EventsInv'
<1>1. CASE \E addr \in Addresses, hash \in Hashes, implementer \in Addresses :
              SetInterfaceImplementer(sender, addr, hash, implementer)
  <2>1. PICK addr \in Addresses, hash \in Hashes, implementer \in Addresses :
              SetInterfaceImplementer(sender, addr, hash, implementer)
      BY <1>1
  <2> DEFINE subject == Subject(sender, addr)
             e == [event |-> "InterfaceImplementerSet", addr |-> subject, hash |-> hash,
                   implementer |-> implementer]
  <2>2. subject \in Addresses
      BY DEF Subject, Addresses, Callers
  <2>3. /\ log' = Append(log, e) /\ UNCHANGED managers
        /\ interfaces' = [interfaces EXCEPT ![subject][hash] = implementer]
      BY <2>1 DEF SetInterfaceImplementer
  <2>4. e \in ImplementerEvents /\ e.addr = subject /\ e.hash = hash
        /\ e.implementer = implementer /\ e.event # "RegisterOrg"
      BY <2>2 DEF ImplementerEvents
  <2>5. e \in Events /\ e \notin OrgEvents /\ e \notin ManagerEvents
      BY <2>4 DEF Events, OrgEvents, ManagerEvents
  <2> HIDE DEF e, subject
  <2>6. log' \in Seq(Events)
      BY <2>3, <2>5, Logged DEF EventsInv
  <2>7. EntriesTold' /\ ManagersTold' /\ RegistrationsTold'
      BY <2>3, <2>4, <2>5, EntriesKept, ManagersKept, RegistrationsKept DEF EventsInv
  <2>8. ImplementersTold'
      BY <2>3, <2>4, ImplementerTold DEF EventsInv, TypeOK
  <2> QED BY <2>6, <2>7, <2>8 DEF EventsInv
<1>2. CASE \E addr \in Addresses, newManager \in Addresses :
              SetManager(sender, addr, newManager)
  <2>1. PICK addr \in Addresses, newManager \in Addresses :
              SetManager(sender, addr, newManager)
      BY <1>2
  <2> DEFINE e == [event |-> "ManagerChanged", addr |-> addr, newManager |-> newManager]
  <2>3. /\ log' = Append(log, e) /\ UNCHANGED interfaces
        /\ managers' = [managers EXCEPT ![addr] = IF newManager = addr THEN Zero
                                                  ELSE newManager]
      BY <2>1 DEF SetManager
  <2>4. e \in ManagerEvents /\ e.addr = addr /\ e.newManager = newManager
        /\ e.event # "RegisterOrg"
      BY DEF ManagerEvents
  <2>5. e \in Events /\ e \notin OrgEvents /\ e \notin ImplementerEvents
      BY <2>4 DEF Events, OrgEvents, ImplementerEvents
  <2> HIDE DEF e
  <2>6. log' \in Seq(Events)
      BY <2>3, <2>5, Logged DEF EventsInv
  <2>7. EntriesTold' /\ ImplementersTold' /\ RegistrationsTold'
      BY <2>3, <2>4, <2>5, EntriesKept, ImplementersKept, RegistrationsKept DEF EventsInv
  <2>8. ManagersTold'
      BY <2>3, <2>4, ManagerTold DEF EventsInv, TypeOK
  <2> QED BY <2>6, <2>7, <2>8 DEF EventsInv
<1>3. CASE \E addr \in Addresses, id \in Erc165Ids : UpdateERC165Cache(sender, addr, id)
  <2>1. PICK addr \in Addresses, id \in Erc165Ids : UpdateERC165Cache(sender, addr, id)
      BY <1>3
  <2>2. \A x \in Addresses, l \in Labels : interfaces'[x][l] = interfaces[x][l]
      BY <2>1, HashesAssumption DEF UpdateERC165Cache, TypeOK, Hashes
  <2> QED BY <2>1, <2>2, NothingTold DEF UpdateERC165Cache
<1> QED BY <1>1, <1>2, <1>3 DEF RegistryStep

LEMMA StepTold ==
    ASSUME IInv, EventsInv, NEW sender \in Accounts, Step(sender)
    PROVE  EventsInv'
<1>0. sender \in Callers /\ OrgContract \in Callers /\ OrgContract \in Addresses /\ TypeOK
    BY DEF Callers, Addresses, IInv
<1>1. CASE Construct(sender)
  <2>1. RegistryStep(OrgContract) /\ UNCHANGED <<orgs, orgMap>>
      BY <1>1, <1>0, HashesAssumption DEF Construct, RegistryStep, Hashes
  <2> QED BY <1>0, <2>1, RegistryStepTold
<1>2. CASE CallErc1820(sender)
  <2>1. RegistryStep(sender) /\ UNCHANGED <<orgs, orgMap>>
      BY <1>2 DEF CallErc1820, RegistryStep, storage
  <2> QED BY <1>0, <2>1, RegistryStepTold
<1>3. CASE \E a \in Addresses : AssignManager(sender, a)
  <2>1. RegistryStep(OrgContract) /\ UNCHANGED <<orgs, orgMap>>
      BY <1>3, <1>0 DEF AssignManager, RegistryStep, storage
  <2> QED BY <1>0, <2>1, RegistryStepTold
<1>4. CASE \/ \E a \in Addresses : TransferOwnership(sender, a)
           \/ \E group \in Groups : RegisterInterfaces(sender, group)
  <2>1. UNCHANGED <<log, orgs, orgMap, managers, interfaces>>
      BY <1>4 DEF TransferOwnership, RegisterInterfaces, erc1820
  <2> QED BY <1>0, <2>1, NothingTold
<1>5. CASE \E a \in Addresses, details \in Details : RegisterOrg(sender, a, details)
  <2>1. PICK a \in Addresses, details \in Details : RegisterOrg(sender, a, details)
      BY <1>5
  <2> DEFINE e == [event |-> "RegisterOrg", addr |-> a, details |-> details]
  <2>2. e \in OrgEvents /\ e.addr = a /\ e.details = details /\ e.event = "RegisterOrg"
      BY DEF OrgEvents
  <2>3. e \in Events /\ e \notin ManagerEvents /\ e \notin ImplementerEvents
      BY <2>2 DEF Events, ManagerEvents, ImplementerEvents
  <2>4. /\ log' = Append(log, e) /\ UNCHANGED <<managers, interfaces>>
        /\ orgMap' = [orgMap EXCEPT ![a] = Org(a, details)]
        /\ orgs' = Append(orgs, Org(a, details))
      BY <2>1 DEF RegisterOrg, erc1820
  <2> HIDE DEF e
  <2>5. ManagersTold' /\ ImplementersTold'
      BY <2>3, <2>4, ManagersKept, ImplementersKept DEF EventsInv
  <2>6. EntriesTold'
    <3>1. orgMap'[a].details = details
          /\ \A b \in Addresses : b # a => orgMap'[b].details = orgMap[b].details
        BY <2>4, <1>0 DEF TypeOK, Org
    <3> QED BY <2>2, <2>4, <3>1, EntryTold DEF EventsInv
  <2>7. RegistrationsTold'
      BY <2>2, <2>4, RegistrationTold DEF EventsInv
  <2>8. orgs' \in Seq(Entries)
    <3>1. Org(a, details) \in Entries
        BY DEF Org, Entries
    <3> HIDE DEF Entries
    <3> QED BY <2>4, <3>1 DEF EventsInv
  <2> QED BY <2>3, <2>4, <2>5, <2>6, <2>7, <2>8, Logged DEF EventsInv
<1>6. CASE \E a \in Addresses, details \in Details : UpdateOrg(sender, a, details)
  <2>1. PICK a \in Addresses, details \in Details : UpdateOrg(sender, a, details)
      BY <1>6
  <2> DEFINE e == [event |-> "UpdateOrg", addr |-> a, details |-> details]
  <2>2. e \in OrgEvents /\ e.addr = a /\ e.details = details /\ e.event # "RegisterOrg"
      BY DEF OrgEvents
  <2>3. e \in Events /\ e \notin ManagerEvents /\ e \notin ImplementerEvents
      BY <2>2 DEF Events, ManagerEvents, ImplementerEvents
  <2>4. /\ log' = Append(log, e) /\ UNCHANGED <<managers, interfaces, orgs>>
        /\ orgMap' = [orgMap EXCEPT ![a].details = details]
      BY <2>1 DEF UpdateOrg, erc1820
  <2> HIDE DEF e
  <2>5. ManagersTold' /\ ImplementersTold' /\ RegistrationsTold'
      BY <2>2, <2>3, <2>4, ManagersKept, ImplementersKept, RegistrationsKept DEF EventsInv
  <2>6. EntriesTold'
    <3>1. orgMap'[a].details = details
          /\ \A b \in Addresses : b # a => orgMap'[b].details = orgMap[b].details
        BY <2>4, <1>0 DEF TypeOK
    <3> QED BY <2>2, <2>4, <3>1, EntryTold DEF EventsInv
  <2> QED BY <2>3, <2>4, <2>5, <2>6, Logged DEF EventsInv
<1> QED BY <1>1, <1>2, <1>3, <1>4, <1>5, <1>6 DEF Step

LEMMA EventsInvHolds == Spec => []EventsInv
<1>1. IInv /\ EventsInv /\ [Next]_vars => EventsInv'
  <2> SUFFICES ASSUME IInv, EventsInv, [Next]_vars PROVE EventsInv'
      OBVIOUS
  <2>1. CASE Next
      BY <2>1, NextIsStep, StepTold
  <2>2. CASE UNCHANGED vars
    <3>1. UNCHANGED <<log, orgs, orgMap, managers, interfaces>>
        BY <2>2 DEF vars
    <3> QED BY <3>1, NothingTold DEF IInv
  <2> QED BY <2>1, <2>2
<1> QED BY <1>1, InitEvents, InvariantHolds, PTL DEF Spec

\* A listener that replays RegisterOrg and UpdateOrg knows every entry, and which
\* organizations were registered in which order, after any number of transactions.
THEOREM OrgEventsAlwaysTellOrgs == Spec => []OrgEventsTellOrgs
<1>1. EventsInv => OrgEventsTellOrgs
  <2> SUFFICES ASSUME EventsInv PROVE OrgEventsTellOrgs
      OBVIOUS
  <2>1. ASSUME NEW a \in Addresses
        PROVE  {j \in DOMAIN log : log[j].event \in {"RegisterOrg", "UpdateOrg"}
                                     /\ log[j].addr = a}
                 = {j \in DOMAIN log : log[j] \in Organization(a)}
    <3>1. ASSUME NEW e \in Events
          PROVE  e.event \in {"RegisterOrg", "UpdateOrg"} /\ e.addr = a
                   <=> e \in Organization(a)
        BY DEF Events, OrgEvents, ManagerEvents, ImplementerEvents, Organization
    <3>2. \A j \in DOMAIN log : log[j] \in Events
      <4> HIDE DEF Events
      <4> QED BY DEF EventsInv
    <3> QED BY <3>1, <3>2, Zenon
  <2>2. ASSUME NEW a \in Addresses
        PROVE  LET k == LastOf({j \in DOMAIN log :
                           log[j].event \in {"RegisterOrg", "UpdateOrg"} /\ log[j].addr = a})
               IN  GetOrg(a).details = IF k = 0 THEN NoDetails ELSE log[k].details
      BY <2>1, Zenon DEF EventsInv, EntriesTold, LastIn, GetOrg
  <2>3. /\ GetOrgCount = Cardinality(Registrations(log, Len(log)))
        /\ \A k \in Registrations(log, Len(log)) :
              orgs[Cardinality(Registrations(log, k))] = Org(log[k].addr, log[k].details)
      BY Zenon DEF EventsInv, RegistrationsTold, GetOrgCount
  <2> QED BY <2>2, <2>3, Zenon DEF OrgEventsTellOrgs
<1> QED BY <1>1, EventsInvHolds, PTL

\* A listener that replays the registry's events knows every manager and every
\* implementer of a named interface, after any number of transactions.
THEOREM RegistryEventsAlwaysTellRegistry == Spec => []RegistryEventsTellRegistry
<1>1. EventsInv => RegistryEventsTellRegistry
  <2> SUFFICES ASSUME EventsInv, NEW a \in Addresses
               PROVE  /\ LET k == LastOf({j \in DOMAIN log :
                                      log[j].event = "ManagerChanged" /\ log[j].addr = a})
                         IN  GetManager(a) = IF k = 0 \/ log[k].newManager = Zero
                                             THEN a ELSE log[k].newManager
                      /\ \A sender \in Callers, hash \in Labels :
                            LET subject == Subject(sender, a)
                                k == LastOf({j \in DOMAIN log :
                                        /\ log[j].event = "InterfaceImplementerSet"
                                        /\ log[j].addr = subject /\ log[j].hash = hash})
                            IN  GetInterfaceImplementer(sender, a, hash)
                                  = IF k = 0 THEN Zero ELSE log[k].implementer
      BY Zenon DEF RegistryEventsTellRegistry
  <2>1. \A j \in DOMAIN log : log[j] \in Events
    <3> HIDE DEF Events
    <3> QED BY DEF EventsInv
  <2>2. {j \in DOMAIN log : log[j].event = "ManagerChanged" /\ log[j].addr = a}
          = {j \in DOMAIN log : log[j] \in Manager(a)}
    <3>1. ASSUME NEW e \in Events
          PROVE  e.event = "ManagerChanged" /\ e.addr = a <=> e \in Manager(a)
        BY DEF Events, OrgEvents, ManagerEvents, ImplementerEvents, Manager
    <3> QED BY <2>1, <3>1, Zenon
  <2>3. LET k == LastOf({j \in DOMAIN log :
                    log[j].event = "ManagerChanged" /\ log[j].addr = a})
        IN  GetManager(a) = IF k = 0 \/ log[k].newManager = Zero THEN a
                            ELSE log[k].newManager
      BY <2>2, Zenon DEF EventsInv, ManagersTold, LastIn
  <2>4. ASSUME NEW sender \in Callers, NEW hash \in Labels
        PROVE  LET subject == Subject(sender, a)
                   k == LastOf({j \in DOMAIN log :
                           /\ log[j].event = "InterfaceImplementerSet"
                           /\ log[j].addr = subject /\ log[j].hash = hash})
               IN  GetInterfaceImplementer(sender, a, hash)
                     = IF k = 0 THEN Zero ELSE log[k].implementer
    <3> DEFINE subject == Subject(sender, a)
    <3>1. subject \in Addresses
        BY DEF Subject, Addresses, Callers
    <3>2. GetInterfaceImplementer(sender, a, hash) = interfaces[subject][hash]
        BY HashesAssumption DEF GetInterfaceImplementer, IsERC165Interface
    <3> HIDE DEF subject
    <3>3. {j \in DOMAIN log : /\ log[j].event = "InterfaceImplementerSet"
                              /\ log[j].addr = subject /\ log[j].hash = hash}
            = {j \in DOMAIN log : log[j] \in Implements(subject, hash)}
      <4>1. ASSUME NEW e \in Events
            PROVE  e.event = "InterfaceImplementerSet" /\ e.addr = subject /\ e.hash = hash
                     <=> e \in Implements(subject, hash)
          BY DEF Events, OrgEvents, ManagerEvents, ImplementerEvents, Implements
      <4> QED BY <2>1, <4>1, Zenon
    <3>4. interfaces[subject][hash]
            = IF LastIn(log, Implements(subject, hash)) = 0 THEN Zero
              ELSE log[LastIn(log, Implements(subject, hash))].implementer
        BY <3>1, Zenon DEF EventsInv, ImplementersTold
    <3> QED BY <3>2, <3>3, <3>4, Zenon DEF LastIn, subject
  <2> QED BY <2>3, <2>4, Zenon
<1> QED BY <1>1, EventsInvHolds, PTL
=============================================================================
