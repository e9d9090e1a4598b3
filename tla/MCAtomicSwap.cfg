\* Safety of the swap under every fault the code handles, no reorgs.
CONSTANTS
    g = g
    b = b
    G <- g
    B <- b
    Initiator <- MCInitiator
    MaxChainHeight = 4
    LockResponse = 2
    LockTime = 3
    MaxReorgs = 0
    IdleBlocks = TRUE
    SendFailures = TRUE
    LossyNet = TRUE
    ReorderNet = TRUE
    NodeRejects = TRUE
    PeerFaults = TRUE
    ForeignFaults = TRUE
    ForeignExpiry = TRUE
    UserCancels = TRUE
SPECIFICATION Spec
INVARIANTS
    TypeOK
    AssertionsHold
    ForeignFundsRecoverable
    GrimmFundsRecoverable
PROPERTIES
    RefinesAbstractSwap
