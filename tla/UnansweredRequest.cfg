\* A committed job and a request for it: the supplier drops the request.
CONSTANTS
    Organizations = {bob, alice}
    Initiator = bob
    MaxDeploys = 1
    Configs = {"named"}
    Failing = {}
    Jobs = {job}
    States = {0}
    MaxLeaves = 1
    MaxCalls = 1
    Intentions = {"words"}
SPECIFICATION WorkstepSpec
PROPERTIES
    CommittedRequestIsAnswered
CHECK_DEADLOCK FALSE
