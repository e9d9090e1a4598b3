\* Violation: B cannot cancel in HandlingContractTX, which the spec permits.
CONSTANTS
    g = g
    b = b
    G <- g
    B <- b
    Initiator <- MCInitiator
    MaxChainHeight = 5
    LockResponse = 2
    LockTime = 3
    MaxReorgs = 0
    IdleBlocks = TRUE
    SendFailures = FALSE
    LossyNet = FALSE
    ReorderNet = FALSE
    NodeRejects = FALSE
    PeerFaults = FALSE
    ForeignFaults = FALSE
    ForeignExpiry = FALSE
    UserCancels = TRUE
SPECIFICATION Spec
INVARIANT
    CancelAllowedPerSpec
