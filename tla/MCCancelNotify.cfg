\* Violation: a cancel is never reported to the peer, which waits forever.
CONSTANTS
    g = g
    b = b
    G <- g
    B <- b
    Initiator <- MCInitiator
    MaxChainHeight = 5
    LockResponse = 9
    LockTime = 9
    MaxReorgs = 0
    IdleBlocks = TRUE
    SendFailures = FALSE
    LossyNet = FALSE
    ReorderNet = FALSE
    NodeRejects = FALSE
    PeerFaults = FALSE
    ForeignFaults = FALSE
    ForeignExpiry = FALSE
    UserCancels = TRUE
SPECIFICATION Spec
PROPERTY
    CancelReachesPeer
