\* Three requests, so that a push can be overtaken by one and replaced by another,
\* two leaves, so that the third push finds the tree full.
CONSTANTS
    Requests = {r1, r2, r3}
    ClientTypes = {"infura-gas", "besu", "unset"}
    GasPrices = {1, 2}
    Width = 2
    CallsFail = TRUE
SPECIFICATION Spec
INVARIANTS
    TypeOK
    OnePushUnderway
    AnswersTellTheNode
PROPERTIES
    ImplementsLog
    EveryRequestEnds
    AcceptedIsSettled
\* Every request is answered.
CHECK_DEADLOCK FALSE
