\* Two accounts and the contract's address, four transactions: enough to deploy,
\* hand over ownership or management and be refused, register twice or update.
CONSTANTS
    Accounts = {alice, bob}
    OrgContract = registry
    Zero = zero
    Labels = {iorg}
    IOrgRegistry = iorg
    Erc165Ids = {orgId}
    OrgInterfaceId = orgId
    Details = {d1, d2}
    NoDetails = none
    Unborn = unborn
    Groups = {g1, g2}
    MaxCalls = 4
SPECIFICATION Spec
INVARIANTS
    TypeOK
    EntriesAreKeyed
    CachedYesIsTrue
    OrgEventsTellOrgs
    RegistryEventsTellRegistry
PROPERTIES
    ImplementsDirectory
\* The bound on transactions is reached.
CHECK_DEADLOCK FALSE
