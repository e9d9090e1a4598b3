\* Liveness: with nothing failing, expiring or cancelled, the swap completes
\* on both sides under the fairness of the wallet's update loop.
CONSTANTS
    g = g
    b = b
    G <- g
    B <- b
    Initiator <- MCInitiator
    MaxChainHeight = 3
    LockResponse = 2
    LockTime = 3
    MaxReorgs = 0
    IdleBlocks = FALSE
    SendFailures = FALSE
    LossyNet = FALSE
    ReorderNet = FALSE
    NodeRejects = FALSE
    PeerFaults = FALSE
    ForeignFaults = FALSE
    ForeignExpiry = FALSE
    UserCancels = FALSE
SPECIFICATION Spec
PROPERTIES
    SwapCompletes
