\* One initiator and one supplier; two deployments, so that one can run while the
\* invitation is written; two leaves and two calls, a request and a notice.
CONSTANTS
    Organizations = {bob, alice}
    Initiator = bob
    MaxDeploys = 2
    Configs = {"named", "existing"}
    Failing = {"setup", "workgroup", "token", "resolve", "track", "organization", "keys", "register", "join workgroup", "require", "join", "push"}
    Jobs = {job}
    States = {0, 1}
    MaxLeaves = 2
    MaxCalls = 2
    Intentions = {"words", "request is 0"}
SPECIFICATION WorkstepSpec
INVARIANTS
    TypeOK
    MembershipIsMutual
    WorkflowMatchesShield
    ReturnsAreDoubleSigned
    GenesisIsRebuilt
PROPERTIES
    AcceptEnds
    JoinIsLearnt
\* The application makes no call after the last one.
CHECK_DEADLOCK FALSE
